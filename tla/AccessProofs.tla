---------------------------- MODULE AccessProofs ----------------------------
(***************************************************************************)
(* What holds of the authentication sessions, of roles and of the          *)
(* gateway's access checks for every number of tokens, roles, members,     *)
(* credentials, grants and requests.                                       *)
(***************************************************************************)
EXTENDS Organizations, StorageAccess, Sessions, TLAPS

-----------------------------------------------------------------------------
(* Roles *)

ChangeRows == [at : ChangeSteps, role : Roles, member : Members,
               wants : SUBSET Permissions, name : Names,
               replaced : SUBSET Permissions, crossed : SUBSET Changes]
Asked == PermissionSets \cup {{}, Permissions}

\* Two running updates of a role have crossed; and one that has crossed none has
\* deleted every permission the role has.
RolesInv ==
  /\ role \in [Roles -> [exists : BOOLEAN, permissions : SUBSET Permissions]]
  /\ change \in [Changes -> ChangeRows]
  /\ \A q \in Changes : change[q].wants \in Asked
  /\ \A r \in Roles \ mixed : role[r].permissions \in Asked
  /\ \A q \in Changes : ChangeAt(q, "updating") /\ change[q].crossed = {} =>
       role[change[q].role].permissions \subseteq change[q].replaced
  /\ \A q, w \in Changes :
       ChangeAt(q, "updating") /\ ChangeAt(w, "updating") /\ change[q].role = change[w].role
         => q = w \/ change[q].crossed # {}

LEMMA RolesStart == OrganizationsInit => RolesInv
BY OrganizationsAssumption
DEF OrganizationsInit, BootstrapSuperAdmin, RolesInv, FreeChange, Wanted, Names, ChangeRows, ChangeSteps, ChangeAt, Asked

\* A request that begins, goes on or ends without touching the roles.
LEMMA RolesUntouched ==
  ASSUME RolesInv, NEW q \in Changes, NEW row \in ChangeRows, row.wants \in Asked,
         row.at # "updating", change' = [change EXCEPT ![q] = row], UNCHANGED <<role, mixed>>
  PROVE  RolesInv'
BY DEF RolesInv, ChangeAt

LEMMA FreeChangeRow == FreeChange \in ChangeRows /\ FreeChange.wants \in Asked /\ FreeChange.at # "updating"
BY OrganizationsAssumption DEF FreeChange, Wanted, Names, ChangeRows, ChangeSteps, Asked

LEMMA RolesKeep ==
  ASSUME RolesInv, [OrganizationsNext]_organizations PROVE RolesInv'
<1>0. \A q \in Changes : change[q] \in ChangeRows /\ change[q].wants \in Asked
  BY DEF RolesInv
<1>a. ASSUME NEW q \in Changes, ChangeEnds(q), UNCHANGED <<role, mixed>> PROVE RolesInv'
  BY <1>a, FreeChangeRow, RolesUntouched DEF ChangeEnds
<1>1. CASE UNCHANGED organizations
  BY <1>1 DEF organizations, RolesInv, ChangeAt
<1>2. ASSUME NEW q \in Changes, Request(q) PROVE RolesInv'
  <2>0. ASSUME NEW row \in ChangeRows, row.wants \in Asked, row.at # "updating", Asks(q, row)
        PROVE  RolesInv'
    BY <2>0, RolesUntouched DEF Asks, OrganizationTables
  <2>1. ASSUME NEW step \in {"create", "update", "delete", "add", "status", "assign"},
               NEW r \in Roles, NEW m \in Members, NEW p \in PermissionSets \cup {{}},
               Asks(q, Wanted(step, r, m, p))
        PROVE  RolesInv'
    <3>1. LET row == Wanted(step, r, m, p)
          IN  row \in ChangeRows /\ row.wants \in Asked /\ row.at # "updating"
      BY OrganizationsAssumption DEF Wanted, Names, ChangeRows, ChangeSteps, Asked
    <3> QED BY <2>0, <2>1, <3>1
  <2>2. CASE \E r \in Roles : DeleteRoleRoute(q, r)
    BY <2>1, <2>2, OrganizationsAssumption DEF DeleteRoleRoute
  <2>3. CASE \E r \in Roles, p \in PermissionSets : PostRole(q, r, p)
    BY <2>1, <2>3, OrganizationsAssumption DEF PostRole
  <2>4. CASE \E r \in Roles, p \in PermissionSets, name \in Names : PatchRole(q, r, p, name)
    <3>1. PICK r \in Roles, p \in PermissionSets, name \in Names : PatchRole(q, r, p, name)
      BY <2>4
    <3> DEFINE row == [Wanted("update", r, Root, p) EXCEPT !.name = name]
    <3>2. row \in ChangeRows /\ row.wants \in Asked /\ row.at # "updating"
      BY OrganizationsAssumption DEF Wanted, ChangeRows, ChangeSteps, Asked
    <3> QED BY <2>0, <3>1, <3>2 DEF PatchRole
  <2>5. CASE \E r \in Roles, m \in Members : PostMember(q, m, r)
    BY <2>1, <2>5 DEF PostMember
  <2>6. CASE \E r \in Roles, m \in Members : PostMemberRole(q, m, r)
    BY <2>1, <2>6 DEF PostMemberRole
  <2>7. CASE \E m \in Members : PatchMember(q, m)
    BY <2>1, <2>7, OrganizationsAssumption DEF PatchMember
  <2> QED BY <1>2, <2>2, <2>3, <2>4, <2>5, <2>6, <2>7 DEF Request
<1>3. ASSUME NEW q \in Changes, CreateRole(q) PROVE RolesInv'
  <2>1. CASE ChangeRefused(q) BY <1>a, <2>1 DEF ChangeRefused, OrganizationTables
  <2>2. CASE ~ChangeRefused(q)
    <3> DEFINE r == change[q].role
    <3>1. /\ FreshRole(r) /\ ChangeEnds(q) /\ mixed' = mixed
          /\ role' = [role EXCEPT ![r] = [exists |-> TRUE, permissions |-> change[q].wants]]
      BY <1>3, <2>2 DEF CreateRole
    <3>2. r \in Roles /\ change[q].wants \in SUBSET Permissions BY <1>0 DEF ChangeRows
    <3>3. \A w \in Changes : ChangeAt(w, "updating") => change[w].role # r
      BY <3>1 DEF FreshRole, ChangeAt
    <3> HIDE DEF r
    <3>4. /\ role' \in [Roles -> [exists : BOOLEAN, permissions : SUBSET Permissions]]
          /\ role'[r].permissions = change[q].wants
          /\ \A p \in Roles : p # r => role'[p] = role[p]
      BY <3>1, <3>2 DEF RolesInv
    <3>5. /\ change' \in [Changes -> ChangeRows]
          /\ change'[q].at # "updating" /\ change'[q].wants \in Asked
          /\ \A w \in Changes : w # q => change'[w] = change[w]
      BY <1>0, <3>1, FreeChangeRow DEF ChangeEnds, RolesInv
    <3>6. \A p \in Roles \ mixed' : role'[p].permissions \in Asked
      BY <1>0, <3>1, <3>4 DEF RolesInv
    <3> QED BY <1>0, <3>1, <3>3, <3>4, <3>5, <3>6 DEF RolesInv, ChangeAt
  <2> QED BY <2>1, <2>2
<1>4. ASSUME NEW q \in Changes, UpdateRole(q) PROVE RolesInv'
  <2>1. CASE ChangeRefused(q) BY <1>a, <2>1 DEF ChangeRefused, OrganizationTables
  <2>2. CASE ~ChangeRefused(q)
    <3> DEFINE r == change[q].role
               crosses == {w \in Changes : Crosses(q, w)}
               old == change[q]
               left == role[r].permissions
               begun == [old EXCEPT !.at = "updating"]
               cleared == [begun EXCEPT !.replaced = left]
               row == [cleared EXCEPT !.crossed = crosses]
               rowOf(w) == [change[w] EXCEPT !.crossed = IF Crosses(q, w) THEN @ \cup {q} ELSE @]
    <3>1. /\ Named(q) => Lockable(r)
          /\ UNCHANGED <<role, mixed>> /\ ~Updating(q, r)
          /\ change' = [w \in Changes |-> IF w = q THEN row ELSE rowOf(w)]
      BY <1>4, <2>2 DEF UpdateRole, OrganizationTables, Updating, ChangeAt
    <3>2. r \in Roles BY <1>0 DEF ChangeRows
    <3>3. role[r].permissions \in SUBSET Permissions BY <3>2 DEF RolesInv
    <3>4. crosses \in SUBSET Changes OBVIOUS
    <3>5. /\ row \in ChangeRows /\ row.at = "updating" /\ row.role = old.role /\ row.wants = old.wants
          /\ row.replaced = left /\ row.crossed = crosses
      <4>1. old \in ChangeRows /\ left \in SUBSET Permissions BY <1>0, <3>3
      <4> HIDE DEF old, left, crosses
      <4>2. begun \in ChangeRows /\ begun.at = "updating" /\ begun.role = old.role /\ begun.wants = old.wants
        BY <4>1 DEF ChangeRows, ChangeSteps
      <4> HIDE DEF begun
      <4>3. /\ cleared \in ChangeRows /\ cleared.at = begun.at /\ cleared.role = begun.role
            /\ cleared.wants = begun.wants /\ cleared.replaced = left
        BY <4>1, <4>2 DEF ChangeRows
      <4> HIDE DEF cleared
      <4>4. /\ row \in ChangeRows /\ row.at = cleared.at /\ row.role = cleared.role
            /\ row.wants = cleared.wants /\ row.replaced = cleared.replaced /\ row.crossed = crosses
        BY <3>4, <4>3 DEF ChangeRows
      <4> HIDE DEF row
      <4> QED BY <4>2, <4>3, <4>4
    <3>a. row.role = r /\ row.wants = change[q].wants BY <3>5
    <3>6. ASSUME NEW w \in Changes
          PROVE  /\ rowOf(w) \in ChangeRows /\ rowOf(w).at = change[w].at /\ rowOf(w).role = change[w].role
                 /\ rowOf(w).wants = change[w].wants /\ rowOf(w).replaced = change[w].replaced
                 /\ change[w].crossed \subseteq rowOf(w).crossed /\ (Crosses(q, w) => q \in rowOf(w).crossed)
      BY <1>0 DEF ChangeRows
    <3>7. ASSUME NEW w \in Changes, w # q, ChangeAt(w, "updating"), change[w].role = r
          PROVE  Crosses(q, w) /\ w \in crosses
      BY <3>1, <3>7 DEF Crosses, Updating, Lockable
    <3> HIDE DEF r, row, rowOf, crosses, old, left, begun, cleared
    <3>8. /\ change'[q] = row /\ \A w \in Changes : w # q => change'[w] = rowOf(w)
          /\ change' \in [Changes -> ChangeRows]
      <4>1. \A w \in Changes : (IF w = q THEN row ELSE rowOf(w)) \in ChangeRows BY <3>5, <3>6
      <4> QED BY <3>1, <4>1
    <3>9. \A w \in Changes : change'[w].wants \in Asked BY <1>0, <3>a, <3>6, <3>8
    <3>10. ASSUME NEW w \in Changes, ChangeAt(w, "updating")', change'[w].crossed = {}
           PROVE  role[change'[w].role].permissions \subseteq change'[w].replaced
      <4>1. CASE w = q BY <3>5, <3>a, <3>8, <4>1 DEF left
      <4>2. CASE w # q
        <5>1. change'[w] = rowOf(w) /\ rowOf(w).crossed = {} /\ rowOf(w).at = "updating"
          BY <3>8, <3>10, <4>2 DEF ChangeAt
        <5>2. change[w].crossed = {} /\ ChangeAt(w, "updating") BY <3>6, <5>1 DEF ChangeAt
        <5> QED BY <3>6, <5>1, <5>2 DEF RolesInv
      <4> QED BY <4>1, <4>2
    <3>11. ASSUME NEW v \in Changes, NEW w \in Changes, v # w, ChangeAt(v, "updating")',
                  ChangeAt(w, "updating")', change'[v].role = change'[w].role
           PROVE  change'[v].crossed # {}
      <4>1. CASE v = q BY <3>5, <3>a, <3>6, <3>7, <3>8, <3>11, <4>1 DEF ChangeAt
      <4>2. CASE w = q BY <3>5, <3>a, <3>6, <3>7, <3>8, <3>11, <4>2 DEF ChangeAt
      <4>3. CASE v # q /\ w # q BY <3>6, <3>8, <3>11, <4>3 DEF ChangeAt, RolesInv
      <4> QED BY <4>1, <4>2, <4>3
    <3> QED BY <3>1, <3>8, <3>9, <3>10, <3>11 DEF RolesInv
  <2> QED BY <2>1, <2>2
<1>5. ASSUME NEW q \in Changes, InsertPermissions(q) PROVE RolesInv'
  <2>1. CASE ChangeRefused(q) BY <1>a, <2>1 DEF ChangeRefused, OrganizationTables
  <2>2. CASE ~ChangeRefused(q)
    <3> DEFINE r == change[q].role
               left == role[r].permissions \ change[q].replaced
               rowOf(w) == IF Updating(w, r) THEN [change[w] EXCEPT !.replaced = @ \ change[q].wants]
                           ELSE change[w]
    <3>1. /\ r \in Roles /\ ChangeAt(q, "updating")
          /\ change[q].wants \in SUBSET Permissions /\ left \in SUBSET Permissions
      BY <1>0, <1>5 DEF ChangeRows, InsertPermissions, RolesInv
    <3>2. /\ role' = [role EXCEPT ![r].permissions = left \cup change[q].wants]
          /\ mixed' = IF change[q].crossed = {} THEN mixed \ {r} ELSE mixed \cup {r}
          /\ change' = [w \in Changes |-> IF w = q THEN FreeChange ELSE rowOf(w)]
      BY <1>5, <2>2 DEF InsertPermissions
    <3>3. change[q].crossed = {} => left = {} BY <3>1 DEF RolesInv
    <3>4. ASSUME NEW w \in Changes
          PROVE  /\ rowOf(w) \in ChangeRows /\ rowOf(w).at = change[w].at /\ rowOf(w).role = change[w].role
                 /\ rowOf(w).wants = change[w].wants /\ rowOf(w).crossed = change[w].crossed
                 /\ change[w].role # r => rowOf(w) = change[w]
      BY <1>0 DEF ChangeRows, Updating
    <3>5. \A w \in Changes : w # q /\ ChangeAt(w, "updating") /\ change[w].role = r =>
             change[w].crossed # {} /\ change[q].crossed # {}
      BY <3>1 DEF RolesInv
    <3> HIDE DEF rowOf, left
    <3>6. /\ change'[q] = FreeChange /\ \A w \in Changes : w # q => change'[w] = rowOf(w)
          /\ change' \in [Changes -> ChangeRows]
      BY <3>2, <3>4, FreeChangeRow
    <3> HIDE DEF r
    <3>7. /\ role' \in [Roles -> [exists : BOOLEAN, permissions : SUBSET Permissions]]
          /\ role'[r].permissions = left \cup change[q].wants
          /\ \A p \in Roles : p # r => role'[p] = role[p]
      BY <3>1, <3>2 DEF RolesInv
    <3>8. ASSUME NEW p \in Roles \ mixed' PROVE role'[p].permissions \in Asked
      <4>1. CASE p = r
        <5>1. change[q].crossed = {} BY <3>2, <3>8, <4>1
        <5>2. role'[p].permissions = change[q].wants BY <3>3, <3>7, <4>1, <5>1
        <5> QED BY <1>0, <5>2
      <4>2. CASE p # r BY <3>2, <3>7, <4>2 DEF RolesInv
      <4> QED BY <4>1, <4>2
    <3>9. \A w \in Changes : change'[w].wants \in Asked BY <1>0, <3>4, <3>6, FreeChangeRow
    <3>10. ASSUME NEW w \in Changes, ChangeAt(w, "updating")', change'[w].crossed = {}
           PROVE  role'[change'[w].role].permissions \subseteq change'[w].replaced
      <4>1. w # q /\ ChangeAt(w, "updating") /\ change[w].crossed = {}
        BY <3>4, <3>6, <3>10, FreeChangeRow DEF ChangeAt
      <4>2. change[w].role # r /\ change[w].role \in Roles BY <1>0, <3>5, <4>1 DEF ChangeRows
      <4> QED BY <3>4, <3>6, <3>7, <4>1, <4>2 DEF RolesInv
    <3>11. \A v, w \in Changes :
             ChangeAt(v, "updating")' /\ ChangeAt(w, "updating")' /\ change'[v].role = change'[w].role
               => v = w \/ change'[v].crossed # {}
      BY <3>4, <3>6, FreeChangeRow DEF RolesInv, ChangeAt
    <3> QED BY <3>6, <3>7, <3>8, <3>9, <3>10, <3>11 DEF RolesInv
  <2> QED BY <2>1, <2>2
<1>6. ASSUME NEW q \in Changes, NEW step \in ChangeSteps \ {"updating"},
             change' = [change EXCEPT ![q].at = step], UNCHANGED <<role, mixed>>
      PROVE  RolesInv'
  <2> DEFINE row == [change[q] EXCEPT !.at = step]
  <2>1. /\ row \in ChangeRows /\ row.wants = change[q].wants /\ row.at = step
    BY <1>0 DEF ChangeRows
  <2>2. change' = [change EXCEPT ![q] = row] BY <1>6 DEF RolesInv
  <2> HIDE DEF row
  <2> QED BY <1>0, <1>6, <2>1, <2>2, RolesUntouched
<1>7. ASSUME NEW q \in Changes, CountAssignments(q) PROVE RolesInv'
  BY <1>6, <1>7, <1>a DEF CountAssignments, ChangeRefused, OrganizationTables, ChangeSteps
<1>8. ASSUME NEW q \in Changes, DeleteRole(q) PROVE RolesInv'
  <2> DEFINE r == change[q].role
  <2>1. /\ r \in Roles /\ ChangeEnds(q) /\ mixed' = mixed
        /\ role' = [role EXCEPT ![r] = [exists |-> FALSE, permissions |-> {}]]
    BY <1>0, <1>8 DEF DeleteRole, ChangeRows
  <2> HIDE DEF r
  <2>2. /\ role' \in [Roles -> [exists : BOOLEAN, permissions : SUBSET Permissions]]
        /\ role'[r].permissions = {}
        /\ \A p \in Roles : p # r => role'[p] = role[p]
    BY <2>1 DEF RolesInv
  <2>3. /\ change' \in [Changes -> ChangeRows]
        /\ change'[q].at # "updating" /\ change'[q].wants \in Asked
        /\ \A w \in Changes : w # q => change'[w] = change[w]
    BY <1>0, <2>1, FreeChangeRow DEF ChangeEnds, RolesInv
  <2>4. \A p \in Roles \ mixed' : role'[p].permissions \in Asked
    BY <2>1, <2>2 DEF RolesInv, Asked
  <2> QED BY <1>0, <2>1, <2>2, <2>3, <2>4 DEF RolesInv, ChangeAt
<1>9. ASSUME NEW q \in Changes, NEW found \in {"adding", "assigning"}, FindRole(q, found) PROVE RolesInv'
  BY <1>6, <1>9, <1>a DEF FindRole, ChangeRefused, OrganizationTables, ChangeSteps
<1>10. ASSUME NEW q \in Changes, AddMember(q) \/ AssignRole(q) PROVE RolesInv'
  <2>1. FindRole(q, "adding") \/ FindRole(q, "assigning") \/ (ChangeEnds(q) /\ UNCHANGED <<role, mixed>>)
    <3>1. ChangeRefused(q) => ChangeEnds(q) /\ UNCHANGED <<role, mixed>> BY DEF ChangeRefused, OrganizationTables
    <3>2. CASE AddMember(q) BY <3>1, <3>2 DEF AddMember
    <3>3. CASE AssignRole(q) BY <3>1, <3>3 DEF AssignRole
    <3> QED BY <1>10, <3>2, <3>3
  <2> QED BY <1>9, <1>a, <2>1
<1>11. ASSUME NEW q \in Changes, NEW status \in MemberStatuses, UpdateMemberStatus(q, status) PROVE RolesInv'
  BY <1>11, <1>a DEF UpdateMemberStatus, ChangeRefused, OrganizationTables
<1> QED BY <1>1, <1>2, <1>3, <1>4, <1>5, <1>7, <1>8, <1>10, <1>11 DEF OrganizationsNext

\* The permissions of a role are those that one request asked for, however many
\* change it at once, until an update without a name crosses another one.
THEOREM RolesDoNotMix == OrganizationsSpec => []RoleIsOneRequest
<1>1. RolesInv => RoleIsOneRequest BY DEF RolesInv, RoleIsOneRequest, Asked
<1> QED BY RolesStart, RolesKeep, <1>1, PTL DEF OrganizationsSpec

\* What every request of the organization's routes leaves has its type.
LEMMA OrganizationsTyped == OrganizationsSpec => []OrganizationsOK
<1> USE OrganizationsAssumption
<1>0. FreeChange \in ChangeRows BY DEF FreeChange, Wanted, Names, ChangeRows, ChangeSteps
<1>1. OrganizationsInit => OrganizationsOK
  BY <1>0 DEF MemberStatuses, OrganizationsInit, BootstrapSuperAdmin, OrganizationsOK, ChangeRows
<1>2. ASSUME OrganizationsOK, [OrganizationsNext]_organizations PROVE OrganizationsOK'
  <2>0. change \in [Changes -> ChangeRows] BY <1>2 DEF OrganizationsOK, ChangeRows
  <2> DEFINE TablesOK == /\ role \in [Roles -> [exists : BOOLEAN, permissions : SUBSET Permissions]]
                         /\ membership \in [Members -> MemberStatuses \cup {"absent"}]
                         /\ memberRole \subseteq Members \X Roles /\ mixed \subseteq Roles
  <2>1. TablesOK BY <1>2 DEF OrganizationsOK
  <2>2. SUFFICES TablesOK' /\ change' \in [Changes -> ChangeRows]
    BY DEF OrganizationsOK, ChangeRows
  <2>3. ASSUME NEW q \in Changes, ChangeEnds(q) PROVE change' \in [Changes -> ChangeRows]
    BY <1>0, <2>0, <2>3 DEF ChangeEnds
  <2>4. ASSUME NEW q \in Changes, ChangeRefused(q)
        PROVE  TablesOK' /\ change' \in [Changes -> ChangeRows]
    BY <2>1, <2>3, <2>4 DEF ChangeRefused, OrganizationTables
  <2>5. ASSUME NEW q \in Changes, NEW step \in ChangeSteps, UNCHANGED OrganizationTables,
               change' = [change EXCEPT ![q].at = step]
        PROVE  TablesOK' /\ change' \in [Changes -> ChangeRows]
    <3>1. TablesOK' BY <2>1, <2>5 DEF OrganizationTables
    <3>2. [change[q] EXCEPT !.at = step] \in ChangeRows BY <2>0 DEF ChangeRows
    <3>3. change' = [change EXCEPT ![q] = [change[q] EXCEPT !.at = step]] BY <2>5
    <3>4. change' \in [Changes -> ChangeRows] BY <2>0, <3>2, <3>3
    <3> QED BY <3>1, <3>4
  <2>6. ASSUME NEW q \in Changes, Request(q)
        PROVE  TablesOK' /\ change' \in [Changes -> ChangeRows]
    <3>1. \E step \in ChangeSteps, r \in Roles, m \in Members, p \in SUBSET Permissions, name \in Names :
            Asks(q, Wanted(step, r, m, p)) \/ Asks(q, [Wanted(step, r, m, p) EXCEPT !.name = name])
      <4> "none" \in Names BY DEF Names
      <4>1. CASE \E r \in Roles, p \in PermissionSets, name \in Names : PatchRole(q, r, p, name)
        BY <4>1 DEF PatchRole, ChangeSteps
      <4>2. CASE \E r \in Roles, p \in PermissionSets : PostRole(q, r, p)
        BY <4>2 DEF PostRole, ChangeSteps
      <4>3. CASE \E r \in Roles, m \in Members : PostMember(q, m, r) \/ PostMemberRole(q, m, r)
        BY <4>3 DEF PostMember, PostMemberRole, ChangeSteps
      <4>4. CASE (\E r \in Roles : DeleteRoleRoute(q, r)) \/ \E m \in Members : PatchMember(q, m)
        BY <4>4 DEF DeleteRoleRoute, PatchMember, ChangeSteps
      <4> QED BY <2>6, <4>1, <4>2, <4>3, <4>4 DEF Request
    <3>2. PICK step \in ChangeSteps, r \in Roles, m \in Members, p \in SUBSET Permissions, name \in Names :
            Asks(q, Wanted(step, r, m, p)) \/ Asks(q, [Wanted(step, r, m, p) EXCEPT !.name = name])
      BY <3>1
    <3>3. /\ Wanted(step, r, m, p) \in ChangeRows
          /\ [Wanted(step, r, m, p) EXCEPT !.name = name] \in ChangeRows
      BY DEF Wanted, Names, ChangeRows
    <3> QED BY <2>0, <2>1, <3>2, <3>3 DEF Asks, OrganizationTables
  <2>7. ASSUME NEW q \in Changes,
               CreateRole(q) \/ UpdateRole(q) \/ InsertPermissions(q) \/ CountAssignments(q) \/ DeleteRole(q)
        PROVE  TablesOK' /\ change' \in [Changes -> ChangeRows]
    <3>0. /\ change[q].role \in Roles /\ change[q].wants \in SUBSET Permissions
          /\ change[q].replaced \in SUBSET Permissions
      BY <2>0 DEF ChangeRows
    <3>1. CASE CreateRole(q)
      <4>1. CASE ChangeRefused(q) BY <2>4, <4>1
      <4>2. CASE /\ ChangeEnds(q) /\ UNCHANGED <<membership, memberRole, mixed>>
                 /\ role' = [role EXCEPT ![change[q].role] =
                              [exists |-> TRUE, permissions |-> change[q].wants]]
        BY <2>1, <2>3, <3>0, <4>2
      <4> QED BY <3>1, <4>1, <4>2 DEF CreateRole
    <3>2. CASE UpdateRole(q)
      <4>1. CASE ChangeRefused(q) BY <2>4, <4>1
      <4>2. CASE ~ChangeRefused(q)
        <5>1. UNCHANGED OrganizationTables BY <3>2, <4>2 DEF UpdateRole
        <5>3. \A w \in Changes : [change[w] EXCEPT !.crossed = IF Crosses(q, w) THEN @ \cup {q} ELSE @] \in ChangeRows
          BY <2>0 DEF ChangeRows
        <5> DEFINE crosses == {w \in Changes : Crosses(q, w)}
                   left == role[change[q].role].permissions
                   begun == [change[q] EXCEPT !.at = "updating"]
                   cleared == [begun EXCEPT !.replaced = left]
        <5>2. left \in SUBSET Permissions /\ crosses \in SUBSET Changes BY <2>1, <3>0
        <5>4. [cleared EXCEPT !.crossed = crosses] \in ChangeRows
          <6> HIDE DEF crosses, left
          <6>1. begun \in ChangeRows BY <2>0 DEF ChangeRows, ChangeSteps
          <6> HIDE DEF begun
          <6>2. cleared \in ChangeRows BY <5>2, <6>1 DEF ChangeRows
          <6> HIDE DEF cleared
          <6> QED BY <5>2, <6>2 DEF ChangeRows
        <5>5. change' \in [Changes -> ChangeRows]
          BY <3>2, <4>2, <5>3, <5>4 DEF UpdateRole
        <5> QED BY <2>1, <5>1, <5>5 DEF OrganizationTables
      <4> QED BY <4>1, <4>2
    <3>3. CASE InsertPermissions(q)
      <4>1. CASE ChangeRefused(q) BY <2>4, <4>1
      <4>2. CASE ~ChangeRefused(q)
        <5>1. \A w \in Changes : [change[w] EXCEPT !.replaced = @ \ change[q].wants] \in ChangeRows
          BY <2>0 DEF ChangeRows
        <5>2. change' \in [Changes -> ChangeRows] BY <1>0, <2>0, <3>3, <4>2, <5>1 DEF InsertPermissions
        <5>3. TablesOK' BY <2>1, <3>0, <3>3, <4>2 DEF InsertPermissions
        <5> QED BY <5>2, <5>3
      <4> QED BY <4>1, <4>2
    <3>4. CASE CountAssignments(q) BY <2>4, <2>5, <3>4 DEF CountAssignments, ChangeSteps
    <3>5. CASE DeleteRole(q) BY <2>1, <2>3, <3>0, <3>5 DEF DeleteRole
    <3> QED BY <2>7, <3>1, <3>2, <3>3, <3>4, <3>5
  <2>8. ASSUME NEW q \in Changes, AddMember(q) \/ AssignRole(q)
        PROVE  TablesOK' /\ change' \in [Changes -> ChangeRows]
    <3>0. change[q].role \in Roles /\ change[q].member \in Members BY <2>0 DEF ChangeRows
    <3>1. ASSUME NEW step \in ChangeSteps, FindRole(q, step)
          PROVE  TablesOK' /\ change' \in [Changes -> ChangeRows]
      BY <2>4, <2>5, <3>1 DEF FindRole
    <3>2. CASE AddMember(q) BY <2>1, <2>3, <2>4, <3>0, <3>1, <3>2 DEF AddMember, ChangeSteps, MemberStatuses
    <3>3. CASE AssignRole(q) BY <2>1, <2>3, <2>4, <3>0, <3>1, <3>3 DEF AssignRole, ChangeSteps
    <3> QED BY <2>8, <3>2, <3>3
  <2>9. ASSUME NEW q \in Changes, NEW status \in MemberStatuses, UpdateMemberStatus(q, status)
        PROVE  TablesOK' /\ change' \in [Changes -> ChangeRows]
    BY <2>1, <2>3, <2>4, <2>9 DEF UpdateMemberStatus
  <2>10. CASE UNCHANGED organizations BY <2>0, <2>1, <2>10 DEF organizations
  <2> QED BY <1>2, <2>6, <2>7, <2>8, <2>9, <2>10 DEF OrganizationsNext
<1> QED BY <1>1, <1>2, PTL DEF OrganizationsSpec

-----------------------------------------------------------------------------
(* Credentials and reads *)

TokenOrNone == ApiTokens \cup {NoName}
ReadRows == [at : ReadSteps, token : TokenOrNone, of : ApiCredentials \cup {NoName},
             key : Paths \cup {NoName}, late : BOOLEAN, granted : BOOLEAN]

\* No two credentials have the same token, and one that is retired is only that of
\* a revoked credential.
TokensInv ==
  /\ credential \in [ApiCredentials -> [state : CredentialStates, token : TokenOrNone]]
  /\ retired \subseteq ApiTokens
  /\ manager \in [Managers -> [at : {"idle", "rotate", "revoke"}, of : ApiCredentials \cup {NoName}]]
  /\ \A c \in ApiCredentials : credential[c].state = "absent" <=> credential[c].token = NoName
  /\ \A c \in ApiCredentials : credential[c].token \in retired => credential[c].state = "REVOKED"
  /\ \A c, d \in ApiCredentials :
       credential[c].token = credential[d].token /\ credential[c].token # NoName => c = d
  /\ \A m \in Managers : manager[m].at # "idle" =>
       manager[m].of \in ApiCredentials /\ credential[manager[m].of].state # "absent"

\* A read sent with a retired token is still to be authenticated, and one whose key
\* is covered knows that it was.
ReadsInv ==
  /\ grant \subseteq ApiCredentials \X Paths
  /\ read \in [Reads -> ReadRows]
  /\ \A q \in Reads :
       /\ read[q].late => read[q].at = "find" /\ read[q].token \in retired
       /\ read[q].at # "idle" =>
            /\ read[q].of \in ApiCredentials /\ read[q].key \in Paths
            /\ Granted(read[q].of, read[q].key) => read[q].granted
       /\ read[q].at = "served" => read[q].granted

AccessInv == TokensInv /\ ReadsInv

LEMMA AccessStart == StorageAccessInit => AccessInv
BY StorageAccessAssumption
DEF StorageAccessInit, AccessInv, TokensInv, ReadsInv, TokenOrNone, ReadRows, CredentialStates,
    ReadSteps, NoRead, NoWork

LEMMA GeneratedIsUnused ==
  ASSUME Unused # {}
  PROVE  /\ GenerateCredential \in ApiTokens \ retired /\ GenerateCredential # NoName
         /\ \A c \in ApiCredentials : credential[c].token # GenerateCredential
BY StorageAccessAssumption DEF GenerateCredential, Unused

LEMMA TokensKeep == ASSUME TokensInv, [StorageAccessNext]_storageAccess PROVE TokensInv'
<1>0. \A c \in ApiCredentials : credential[c] \in [state : CredentialStates, token : TokenOrNone]
  BY DEF TokensInv
<1>1. ASSUME NEW c \in ApiCredentials, CreateCredential(c) PROVE TokensInv'
  <2>1. /\ credential' = [credential EXCEPT ![c] = [state |-> "ACTIVE", token |-> GenerateCredential]]
        /\ UNCHANGED <<retired, manager>> /\ credential[c].state = "absent"
    BY <1>1 DEF CreateCredential
  <2>2. /\ GenerateCredential \in ApiTokens \ retired /\ GenerateCredential # NoName
        /\ \A d \in ApiCredentials : credential[d].token # GenerateCredential
    BY <1>1, GeneratedIsUnused DEF CreateCredential
  <2>3. credential' \in [ApiCredentials -> [state : CredentialStates, token : TokenOrNone]]
    BY <2>1, <2>2 DEF TokensInv, CredentialStates, TokenOrNone
  <2> QED BY <1>0, <2>1, <2>2, <2>3 DEF TokensInv
<1>2. ASSUME NEW c \in ApiCredentials, Expires(c) PROVE TokensInv'
  <2>1. /\ credential' = [credential EXCEPT ![c].state = "expired"]
        /\ UNCHANGED <<retired, manager>> /\ credential[c].state = "ACTIVE"
    BY <1>2 DEF Expires, CredentialActive
  <2> QED BY <1>0, <2>1 DEF TokensInv, CredentialStates
<1>3. ASSUME NEW m \in Managers, NEW c \in ApiCredentials, NEW step \in {"rotate", "revoke"},
             Manage(m, c, step), credential[c].state # "absent"
      PROVE  TokensInv'
  BY <1>0, <1>3 DEF Manage, TokensInv
<1>4. ASSUME NEW m \in Managers, Rotate(m) PROVE TokensInv'
  <2> DEFINE c == manager[m].of
  <2>1. /\ c \in ApiCredentials /\ credential[c].state # "absent"
        /\ credential' = [credential EXCEPT ![c] = [state |-> "ACTIVE", token |-> GenerateCredential]]
        /\ retired' = retired \cup {credential[c].token} /\ manager' = [manager EXCEPT ![m] = NoWork]
    BY <1>4 DEF Rotate, Renewed, Managed, TokensInv
  <2>2. /\ GenerateCredential \in ApiTokens \ retired /\ GenerateCredential # NoName
        /\ \A d \in ApiCredentials : credential[d].token # GenerateCredential
    BY <1>4, GeneratedIsUnused DEF Rotate
  <2>3. credential' \in [ApiCredentials -> [state : CredentialStates, token : TokenOrNone]]
    BY <2>1, <2>2 DEF TokensInv, CredentialStates, TokenOrNone
  <2>4. credential[c].token \in ApiTokens BY <1>0, <2>1 DEF TokensInv, TokenOrNone
  <2>5. NoWork \in [at : {"idle", "rotate", "revoke"}, of : ApiCredentials \cup {NoName}] /\ NoWork.at = "idle"
    BY DEF NoWork
  <2> HIDE DEF c
  <2> QED BY <1>0, <2>1, <2>2, <2>3, <2>4, <2>5 DEF TokensInv
<1>5. ASSUME NEW m \in Managers, Revoke(m) PROVE TokensInv'
  <2> DEFINE c == manager[m].of
  <2>1. /\ c \in ApiCredentials /\ credential[c].state # "absent"
        /\ credential' = [credential EXCEPT ![c].state = "REVOKED"]
        /\ retired' = retired \cup {credential[c].token} /\ manager' = [manager EXCEPT ![m] = NoWork]
    BY <1>5 DEF Revoke, Managed, TokensInv
  <2>3. credential' \in [ApiCredentials -> [state : CredentialStates, token : TokenOrNone]]
    BY <1>0, <2>1 DEF TokensInv, CredentialStates
  <2>4. credential[c].token \in ApiTokens BY <1>0, <2>1 DEF TokensInv, TokenOrNone
  <2>5. NoWork \in [at : {"idle", "rotate", "revoke"}, of : ApiCredentials \cup {NoName}] /\ NoWork.at = "idle"
    BY DEF NoWork
  <2> HIDE DEF c
  <2> QED BY <1>0, <2>1, <2>3, <2>4, <2>5 DEF TokensInv
<1>6. CASE UNCHANGED <<credential, retired, manager>> BY <1>6 DEF TokensInv
<1>7. \/ UNCHANGED <<credential, retired, manager>>
      \/ \E c \in ApiCredentials : CreateCredential(c) \/ Expires(c)
      \/ \E c \in ApiCredentials, m \in Managers, step \in {"rotate", "revoke"} :
           Manage(m, c, step) /\ credential[c].state # "absent"
      \/ \E m \in Managers : Rotate(m) \/ Revoke(m)
  BY DEF StorageAccessNext, storageAccess, ReadForRotate, ReadForRevoke, CredentialActive, CreateGrant,
         DeleteGrant, SendRead, Authenticate, Touch, List, HeadObject, PresignDownload, ProxyDownload,
         LookupRecord, Decide, ReadAnswered, ReadAt
<1> QED BY <1>1, <1>2, <1>3, <1>4, <1>5, <1>6, <1>7

\* A read that is refused, sent or goes on.
LEMMA ReadBecomes ==
  ASSUME ReadsInv, NEW q \in Reads, NEW row \in ReadRows, read' = [read EXCEPT ![q] = row],
         UNCHANGED <<grant, retired>>,
         row.late => row.at = "find" /\ row.token \in retired,
         row.at # "idle" => row.of \in ApiCredentials /\ row.key \in Paths,
         row.at # "idle" /\ Granted(row.of, row.key) => row.granted,
         row.at = "served" => row.granted
  PROVE  ReadsInv'
<1>1. read' \in [Reads -> ReadRows] BY DEF ReadsInv
<1>2. \A c, k : Granted(c, k)' <=> Granted(c, k) BY DEF Granted
<1> QED BY <1>1, <1>2 DEF ReadsInv

LEMMA ReadsKeep == ASSUME AccessInv, [StorageAccessNext]_storageAccess PROVE ReadsInv'
<1>0. ReadsInv /\ TokensInv /\ \A q \in Reads : read[q] \in ReadRows
  BY DEF AccessInv, ReadsInv
<1>a. ASSUME NEW q \in Reads, ReadRefused(q), UNCHANGED <<grant, retired>> PROVE ReadsInv'
  <2>1. NoRead \in ReadRows /\ NoRead.at = "idle" /\ ~NoRead.late
    BY DEF NoRead, ReadRows, ReadSteps, TokenOrNone
  <2> QED BY <1>0, <1>a, <2>1, ReadBecomes DEF ReadRefused
\* A read that is not late goes on, and is served only when it is covered.
<1>b. ASSUME NEW q \in Reads, NEW step \in ReadSteps \ {"idle", "find"}, ReadGoes(q, step),
             read[q].at # "idle", ~read[q].late, UNCHANGED <<grant, retired>>,
             step = "served" => Granted(read[q].of, read[q].key)
      PROVE  ReadsInv'
  <2> DEFINE row == [read[q] EXCEPT !.at = step]
  <2>1. /\ row \in ReadRows /\ row.at = step /\ row.late = read[q].late /\ row.of = read[q].of
        /\ row.key = read[q].key /\ row.granted = read[q].granted
    BY <1>0 DEF ReadRows
  <2>2. read' = [read EXCEPT ![q] = row] BY <1>0, <1>b DEF ReadGoes, ReadsInv
  <2>3. /\ read[q].of \in ApiCredentials /\ read[q].key \in Paths
        /\ Granted(read[q].of, read[q].key) => read[q].granted
    BY <1>0, <1>b DEF ReadsInv
  <2> HIDE DEF row
  <2> QED BY <1>0, <1>b, <2>1, <2>2, <2>3, ReadBecomes
<1>c. ASSUME NEW q \in Reads, read[q].at \notin {"idle", "find"} PROVE ~read[q].late
  BY <1>0, <1>c DEF ReadsInv
<1>1. ASSUME NEW q \in Reads, NEW c \in ApiCredentials, NEW k \in Paths, SendRead(q, c, k) PROVE ReadsInv'
  <2>1. PICK t \in retired \cup {credential[c].token} :
          /\ t # NoName
          /\ read' = [read EXCEPT ![q] = [at |-> "find", token |-> t, of |-> c, key |-> k,
                                          late |-> t \in retired, granted |-> Granted(c, k)]]
    BY <1>1 DEF SendRead
  <2> DEFINE row == [at |-> "find", token |-> t, of |-> c, key |-> k,
                     late |-> t \in retired, granted |-> Granted(c, k)]
  <2>2. t \in ApiTokens BY <1>0, <2>1 DEF TokensInv, TokenOrNone
  <2>3. Granted(c, k) \in BOOLEAN BY DEF Granted
  <2>4. /\ row \in ReadRows /\ row.at = "find" /\ row.token = t /\ row.of = c /\ row.key = k
        /\ row.late = (t \in retired) /\ row.granted = Granted(c, k)
    BY <2>2, <2>3 DEF ReadRows, ReadSteps, TokenOrNone
  <2>5. read' = [read EXCEPT ![q] = row] /\ UNCHANGED <<grant, retired>>
    BY <1>1, <2>1 DEF SendRead, ReadAt
  <2> HIDE DEF row
  <2> QED BY <1>0, <2>4, <2>5, ReadBecomes
<1>2. ASSUME NEW q \in Reads, Authenticate(q) PROVE ReadsInv'
  <2>1. UNCHANGED <<grant, retired>> /\ read[q].at = "find" BY <1>2 DEF Authenticate, ReadAt
  <2>2. CASE ReadRefused(q) BY <1>a, <2>1, <2>2
  <2>3. CASE Valid(q) /\ ReadGoes(q, "touch")
    <3>1. ~read[q].late
      BY <1>0, <2>1, <2>3 DEF ReadsInv, TokensInv, Valid, CredentialActive
    <3> QED BY <1>b, <2>1, <2>3, <3>1 DEF ReadSteps
  <2> QED BY <1>2, <2>2, <2>3 DEF Authenticate
<1>3. ASSUME NEW q \in Reads, Touch(q) PROVE ReadsInv'
  BY <1>3, <1>a, <1>b, <1>c DEF Touch, ReadAt, ReadSteps
<1>4. ASSUME NEW q \in Reads, NEW kind \in {"list", "head", "presign", "proxy"}, LookupRecord(q, kind)
      PROVE  ReadsInv'
  BY <1>4, <1>a, <1>b, <1>c DEF LookupRecord, ReadAt, ReadSteps
<1>5. ASSUME NEW q \in Reads, Decide(q) PROVE ReadsInv'
  <2>1. CanAccess(read[q].of, read[q].key) => Granted(read[q].of, read[q].key)
    BY DEF CanAccess, Granted, PrefixMatches, Covers
  <2>2. UNCHANGED <<grant, retired>> /\ read[q].at \in {"list", "head", "presign", "proxy"}
    BY <1>5 DEF Decide, ReadAt
  <2> QED BY <1>5, <1>a, <1>b, <1>c, <2>1, <2>2 DEF Decide, ReadSteps
<1>6. ASSUME NEW q \in Reads, ReadAnswered(q) PROVE ReadsInv'
  BY <1>6, <1>a DEF ReadAnswered, ReadAt
<1>7. ASSUME NEW c \in ApiCredentials, NEW p \in Paths, CreateGrant(c, p) PROVE ReadsInv'
  <2>1. /\ grant' = grant \cup {<<c, p>>} /\ retired' = retired
        /\ read' = [q \in Reads |->
             IF read[q].of = c /\ Covers(p, read[q].key) THEN [read[q] EXCEPT !.granted = TRUE] ELSE read[q]]
    BY <1>7 DEF CreateGrant
  <2>2. \A q \in Reads :
          /\ read'[q].at = read[q].at /\ read'[q].token = read[q].token /\ read'[q].of = read[q].of
          /\ read'[q].key = read[q].key /\ read'[q].late = read[q].late
          /\ read'[q] \in ReadRows
          /\ read'[q].granted = (read[q].granted \/ (read[q].of = c /\ Covers(p, read[q].key)))
    BY <1>0, <2>1 DEF ReadRows
  <2>3. read' \in [Reads -> ReadRows] BY <2>1, <2>2
  <2>4. grant' \subseteq ApiCredentials \X Paths BY <1>0, <2>1 DEF ReadsInv
  <2>5. ASSUME NEW q \in Reads, Granted(read[q].of, read[q].key)'
        PROVE  Granted(read[q].of, read[q].key) \/ (read[q].of = c /\ Covers(p, read[q].key))
    BY <2>1, <2>2, <2>5 DEF Granted, Covers
  <2> QED BY <1>0, <2>1, <2>2, <2>3, <2>4, <2>5 DEF ReadsInv
<1>8. ASSUME NEW c \in ApiCredentials, NEW p \in Paths, DeleteGrant(c, p) PROVE ReadsInv'
  BY <1>0, <1>8 DEF DeleteGrant, ReadsInv, Granted
<1>9. CASE UNCHANGED <<grant, read>> /\ retired \subseteq retired'
  BY <1>0, <1>9 DEF ReadsInv, Granted
<1>10. \/ UNCHANGED <<grant, read>> /\ retired \subseteq retired'
       \/ \E c \in ApiCredentials, p \in Paths : CreateGrant(c, p) \/ DeleteGrant(c, p)
       \/ \E q \in Reads, c \in ApiCredentials, k \in Paths : SendRead(q, c, k)
       \/ \E q \in Reads : Authenticate(q) \/ Touch(q) \/ Decide(q) \/ ReadAnswered(q)
       \/ \E q \in Reads, kind \in {"list", "head", "presign", "proxy"} : LookupRecord(q, kind)
  BY DEF StorageAccessNext, storageAccess, CreateCredential, Expires, ReadForRotate, ReadForRevoke,
         Manage, Rotate, Revoke, Managed, List, HeadObject, PresignDownload, ProxyDownload
<1> QED BY <1>1, <1>2, <1>3, <1>4, <1>5, <1>6, <1>7, <1>8, <1>9, <1>10

LEMMA AccessInvariant == StorageAccessSpec => []AccessInv
<1>1. ASSUME AccessInv, [StorageAccessNext]_storageAccess PROVE AccessInv'
  BY <1>1, TokensKeep, ReadsKeep DEF AccessInv
<1> QED BY AccessStart, <1>1, PTL DEF StorageAccessSpec

LEMMA StorageAccessTyped == StorageAccessSpec => []StorageAccessOK
<1>1. AccessInv => StorageAccessOK
  BY DEF AccessInv, TokensInv, ReadsInv, StorageAccessOK, ReadRows, TokenOrNone
<1> QED BY AccessInvariant, <1>1, PTL

\* A token retired before a request was sent serves nothing, whatever rotations and
\* revocations of its credential race.
THEOREM RetiredStaysRefused == StorageAccessSpec => []RetiredIsRefused
<1>1. AccessInv => RetiredIsRefused BY DEF AccessInv, ReadsInv, RetiredIsRefused
<1> QED BY AccessInvariant, <1>1, PTL

\* What is served was covered by a grant at some moment of the request.
THEOREM ServedOnlyGranted == StorageAccessSpec => []ServedWasGranted
<1>1. AccessInv => ServedWasGranted BY DEF AccessInv, ReadsInv, ServedWasGranted
<1> QED BY AccessInvariant, <1>1, PTL

-----------------------------------------------------------------------------
(* Authentication sessions *)

Issued(t) == token[t].state # "unused"

\* A token that was issued belongs to a session, and a session to itself.
TokensBelong ==
  \A t \in RefreshTokens :
    /\ Issued(t) <=> token[t].session # NoToken
    /\ Issued(t) => token[token[t].session].session = token[t].session

\* The browser and the calls hold tokens that were issued, and a refresh holds a
\* replacement that was not, and that is no other's.
TokensHeld ==
  /\ jar # NoToken => Issued(jar)
  /\ bearer # NoToken => Issued(bearer)
  /\ \A c \in Calls :
       /\ call[c].of # NoToken => Issued(call[c].of)
       /\ call[c].at \in {"logout", "rotate", "rotating", "session", "issued"} => call[c].of # NoToken
       /\ call[c].at \in {"issued", "rotated"} => call[c].new # NoToken /\ Issued(call[c].new)
       /\ call[c].at = "rotating" => call[c].new # NoToken /\ ~Issued(call[c].new)
  /\ \A c, d \in Calls :
       c # d /\ CallAt(c, "rotating") /\ CallAt(d, "rotating") => call[c].new # call[d].new

\* A late call is still to be looked at, or was refused.
LateIsEnded ==
  \A c \in Calls : call[c].late =>
    \/ CallAt(c, "session") /\ Ended(call[c].of)
    \/ CallAt(c, "unauthorized")

SessionsInv == SessionsOK /\ TokensBelong /\ TokensHeld /\ OneRefreshToken /\ LateIsEnded

-----------------------------------------------------------------------------

LEMMA SessionsInitial == SessionsInit => SessionsInv
BY NoTokenAssumption
DEF SessionsInit, SessionsInv, SessionsOK, TokensBelong, TokensHeld, OneRefreshToken,
    LateIsEnded, Issued, TokensOf, Unrevoked, IdleCall, TokenNames, TokenStates, CallSteps, CallAt

LEMMA FreshTokenIsNew ==
  ASSUME Unissued # {}
  PROVE  /\ FreshToken \in RefreshTokens /\ ~Issued(FreshToken)
         /\ \A c \in Calls : call[c].new # FreshToken
BY DEF FreshToken, Unissued, Issued

CallRows == [at : CallSteps, of : TokenNames, new : TokenNames, first : BOOLEAN, late : BOOLEAN]

\* A call that goes on, or that is another one, is still a call.
LEMMA CallGoesOn ==
  ASSUME SessionsOK, NEW c \in Calls, NEW step \in CallSteps, CallGoes(c, step)
  PROVE  call' \in [Calls -> CallRows]
BY DEF SessionsOK, CallGoes, CallRows

LEMMA CallBecomes ==
  ASSUME SessionsOK, NEW c \in Calls, NEW row \in CallRows, call' = [call EXCEPT ![c] = row]
  PROVE  call' \in [Calls -> CallRows]
BY DEF SessionsOK, CallRows

LEMMA CallIsOver ==
  ASSUME SessionsOK, NEW c \in Calls, CallEnds(c)
  PROVE  call' \in [Calls -> CallRows]
<1>1. IdleCall \in CallRows BY DEF IdleCall, CallRows, CallSteps, TokenNames
<1> QED BY <1>1, CallBecomes DEF CallEnds

LEMMA CallIsSent ==
  ASSUME SessionsOK, NEW c \in Calls, NEW s \in TokenNames, NEW first \in BOOLEAN,
         call' = [call EXCEPT ![c] = Sent(s, first)]
  PROVE  call' \in [Calls -> CallRows]
<1>1. Ended(s) \in BOOLEAN BY DEF Ended
<1>2. Sent(s, first) \in CallRows
  BY <1>1 DEF Sent, IdleCall, CallRows, CallSteps, TokenNames
<1> QED BY <1>2, CallBecomes

TokensOK == token \in [RefreshTokens -> [state : TokenStates, session : TokenNames]]

LEMMA SessionsTypes == ASSUME SessionsInv, SessionsNext PROVE SessionsOK'
<1>0. SessionsOK /\ TokensHeld BY DEF SessionsInv
<1>a. SessionsOK <=> TokensOK /\ jar \in TokenNames /\ bearer \in TokenNames /\ call \in [Calls -> CallRows]
  BY DEF SessionsOK, TokensOK, CallRows
<1>b. (SessionsOK <=> TokensOK /\ jar \in TokenNames /\ bearer \in TokenNames /\ call \in [Calls -> CallRows])'
  BY DEF SessionsOK, TokensOK, CallRows
<1>1. ASSUME NEW t \in RefreshTokens, ExpireToken(t) PROVE SessionsOK'
  BY <1>0, <1>a, <1>b, <1>1 DEF ExpireToken, TokensOK, TokenStates, Browser
<1>2. ASSUME NEW c \in Calls, IssueSession(c) PROVE SessionsOK'
  <2>1. FreshToken \in RefreshTokens BY <1>2, FreshTokenIsNew DEF IssueSession
  <2>2. TokensOK'
    BY <1>0, <1>a, <1>2, <2>1 DEF IssueSession, Inserted, TokensOK, TokenStates, TokenNames
  <2>3. [IdleCall EXCEPT !.at = "issued", !.of = FreshToken, !.new = FreshToken] \in CallRows
    BY <2>1 DEF IdleCall, CallRows, CallSteps, TokenNames
  <2>4. call' \in [Calls -> CallRows] BY <1>0, <1>2, <2>3, CallBecomes DEF IssueSession
  <2> QED BY <1>0, <1>a, <1>b, <1>2, <2>2, <2>4 DEF IssueSession, Browser
<1>3. ASSUME NEW c \in Calls, CallEnds(c), UNCHANGED token,
             jar' \in TokenNames, bearer' \in TokenNames
      PROVE  SessionsOK'
  BY <1>0, <1>a, <1>b, <1>3, CallIsOver DEF TokensOK
<1>4. ASSUME NEW c \in Calls,
             Login(c) \/ Logout(c) \/ LoseLogout(c) \/ RefreshRejected(c) \/ LoseAnswer(c)
      PROVE  SessionsOK'
  <2>1. call[c].new \in TokenNames /\ call[c].of \in TokenNames /\ NoToken \in TokenNames
    BY <1>0, <1>a DEF CallRows, TokenNames
  <2> QED BY <1>0, <1>a, <1>3, <1>4, <2>1
       DEF Login, Logout, LoseLogout, RefreshRejected, LoseAnswer, Browser
<1>5. ASSUME NEW c \in Calls, SendLogout(c) \/ RestoreSession(c) PROVE SessionsOK'
  <2>1. ASSUME NEW step \in {"logout", "rotate"}
        PROVE  [IdleCall EXCEPT !.at = step, !.of = jar] \in CallRows
    BY <1>0, <1>a DEF IdleCall, CallRows, CallSteps, TokenNames
  <2>2. call' \in [Calls -> CallRows]
    BY <1>0, <1>5, <2>1, CallBecomes DEF SendLogout, RestoreSession
  <2> QED BY <1>0, <1>a, <1>b, <1>5, <2>2 DEF SendLogout, RestoreSession, Browser, TokensOK
<1>6. ASSUME NEW c \in Calls, RevokeRefreshToken(c) PROVE SessionsOK'
  <2>1. TokensOK'
    BY <1>0, <1>a, <1>6 DEF RevokeRefreshToken, Revoked, TokensOK, TokenStates
  <2>2. call' \in [Calls -> CallRows]
    BY <1>0, <1>6, CallGoesOn DEF RevokeRefreshToken, CallSteps
  <2> QED BY <1>0, <1>a, <1>b, <1>6, <2>1, <2>2 DEF RevokeRefreshToken, Browser
<1>7. ASSUME NEW c \in Calls, SendCall(c) PROVE SessionsOK'
  <2>1. call' \in [Calls -> CallRows] BY <1>0, <1>a, <1>7, CallIsSent DEF SendCall
  <2> QED BY <1>0, <1>a, <1>b, <1>7, <2>1 DEF SendCall, Browser, TokensOK
<1>8. ASSUME NEW c \in Calls, Session(c) \/ Authorize(c) \/ AnswerCall(c) PROVE SessionsOK'
  <2>1. [IdleCall EXCEPT !.at = "rotate", !.of = jar, !.first = FALSE] \in CallRows
    BY <1>0, <1>a DEF IdleCall, CallRows, CallSteps, TokenNames
  <2>2. UNCHANGED <<token, Browser>> BY <1>8 DEF Session, Authorize, AnswerCall
  <2>3. \/ CallGoes(c, "member") \/ CallGoes(c, "unauthorized") \/ CallGoes(c, "served")
        \/ CallEnds(c)
        \/ call' = [call EXCEPT ![c] = [IdleCall EXCEPT !.at = "rotate", !.of = jar, !.first = FALSE]]
    BY <1>8 DEF Session, Authorize, AnswerCall
  <2>4. call' \in [Calls -> CallRows]
    BY <1>0, <2>1, <2>3, CallGoesOn, CallIsOver, CallBecomes DEF CallSteps
  <2> QED BY <1>0, <1>a, <1>b, <2>2, <2>4 DEF Browser, TokensOK
<1>9. ASSUME NEW c \in Calls, RotateRead(c) PROVE SessionsOK'
  <2>1. CASE CallGoes(c, "invalid")
    BY <1>0, <1>a, <1>b, <1>9, <2>1, CallGoesOn DEF RotateRead, CallSteps, Browser, TokensOK
  <2>2. CASE ~CallGoes(c, "invalid")
    <3>1. FreshToken \in RefreshTokens BY <1>9, <2>2, FreshTokenIsNew DEF RotateRead
    <3>2. call' \in [Calls -> CallRows]
      BY <1>0, <1>a, <1>9, <2>2, <3>1 DEF RotateRead, CallRows, CallSteps, TokenNames
    <3> QED BY <1>0, <1>a, <1>b, <1>9, <3>2 DEF RotateRead, Browser, TokensOK
  <2> QED BY <2>1, <2>2
<1>10. ASSUME NEW c \in Calls, RotateCommit(c) PROVE SessionsOK'
  <2>1. call' \in [Calls -> CallRows]
    BY <1>0, <1>10, CallGoesOn DEF RotateCommit, RotateTx, CallSteps
  <2>2. call[c].of \in RefreshTokens /\ call[c].new \in RefreshTokens
    BY <1>0, <1>a, <1>10 DEF RotateCommit, TokensHeld, CallAt, CallRows, TokenNames
  <2>3. Inserted(call[c].new, token[call[c].of].session)
          \in [RefreshTokens -> [state : TokenStates, session : TokenNames]]
    BY <1>0, <1>a, <2>2 DEF Inserted, TokensOK, TokenStates
  <2>4. TokensOK'
    <3> DEFINE inserted == Inserted(call[c].new, token[call[c].of].session)
    <3>1. CASE token' = Revoked(inserted, call[c].of)
      <4>1. "revoked" \in TokenStates BY DEF TokenStates
      <4> HIDE DEF inserted
      <4> QED BY <2>3, <3>1, <4>1 DEF Revoked, TokensOK, inserted
    <3>2. CASE UNCHANGED token BY <1>0, <1>a, <3>2 DEF TokensOK
    <3> QED BY <1>10, <3>1, <3>2 DEF RotateCommit, RotateTx
  <2> QED BY <1>0, <1>a, <1>b, <1>10, <2>1, <2>4 DEF RotateCommit, Browser
<1>11. ASSUME NEW c \in Calls, Refreshed(c) PROVE SessionsOK'
  <2>1. call[c].new \in RefreshTokens
    BY <1>0, <1>a, <1>11 DEF Refreshed, TokensHeld, CallAt, CallRows, TokenNames
  <2>2. jar' \in TokenNames /\ bearer' \in TokenNames
    BY <1>0, <1>a, <1>11, <2>1 DEF Refreshed, TokensOK, TokenNames
  <2>3. call[c].first \in BOOLEAN BY <1>0, <1>a DEF CallRows
  <2>4. call' \in [Calls -> CallRows] BY <1>0, <1>11, <2>2, <2>3, CallIsSent DEF Refreshed
  <2> QED BY <1>0, <1>a, <1>b, <1>11, <2>2, <2>4 DEF Refreshed, TokensOK
<1> QED BY <1>1, <1>2, <1>4, <1>5, <1>6, <1>7, <1>8, <1>9, <1>10, <1>11 DEF SessionsNext

-----------------------------------------------------------------------------
(* What a step does to the rows *)

Lapses(t) == token[t].state = "live" /\ token' = [token EXCEPT ![t].state = "expired"]
Revokes(t) == Issued(t) /\ token' = Revoked(token, t)
Begins(t) == ~Issued(t) /\ token' = Inserted(t, t)
Replaces(t, u) ==
  /\ ~Issued(t) /\ Issued(u) /\ token[u].state # "revoked"
  /\ token' = Revoked(Inserted(t, token[u].session), u)

LEMMA RowsMove ==
  ASSUME SessionsInv, SessionsNext
  PROVE  \/ UNCHANGED token
         \/ \E t \in RefreshTokens : Lapses(t) \/ Revokes(t) \/ Begins(t)
         \/ \E t, u \in RefreshTokens : Replaces(t, u)
<1>0. SessionsOK /\ TokensHeld BY DEF SessionsInv
<1>1. CASE \E t \in RefreshTokens : ExpireToken(t) BY <1>1 DEF ExpireToken, Lapses
<1>2. ASSUME NEW c \in Calls, IssueSession(c) PROVE \E t \in RefreshTokens : Begins(t)
  BY <1>2, FreshTokenIsNew DEF IssueSession, Begins
<1>3. ASSUME NEW c \in Calls, RevokeRefreshToken(c) PROVE \E t \in RefreshTokens : Revokes(t)
  BY <1>0, <1>3 DEF RevokeRefreshToken, Revokes, SessionsOK, TokensHeld, CallAt, TokenNames
<1>4. ASSUME NEW c \in Calls, RotateCommit(c)
      PROVE  UNCHANGED token \/ \E t, u \in RefreshTokens : Replaces(t, u)
  <2>1. call[c].of \in RefreshTokens /\ Issued(call[c].of)
        /\ call[c].new \in RefreshTokens /\ ~Issued(call[c].new)
    BY <1>0, <1>4 DEF RotateCommit, SessionsOK, TokensHeld, CallAt, TokenNames
  <2> QED BY <1>4, <2>1 DEF RotateCommit, RotateTx, Replaces
<1>5. ASSUME NEW c \in Calls,
             \/ Login(c) \/ SendLogout(c) \/ Logout(c) \/ LoseLogout(c) \/ RestoreSession(c)
             \/ SendCall(c) \/ Session(c) \/ Authorize(c) \/ AnswerCall(c)
             \/ RotateRead(c) \/ Refreshed(c) \/ RefreshRejected(c) \/ LoseAnswer(c)
      PROVE  UNCHANGED token
  BY <1>5 DEF Login, SendLogout, Logout, LoseLogout, RestoreSession, SendCall, Session,
              Authorize, AnswerCall, RotateRead, Refreshed, RefreshRejected, LoseAnswer
<1> QED BY <1>1, <1>2, <1>3, <1>4, <1>5 DEF SessionsNext

\* The same, row by row.
LEMMA RowsAfter ==
  ASSUME SessionsOK, NEW x \in RefreshTokens
  PROVE  /\ \A t \in RefreshTokens : Lapses(t) =>
              /\ token'[x].session = token[x].session
              /\ token'[x].state = IF x = t THEN "expired" ELSE token[x].state
         /\ \A t \in RefreshTokens : Revokes(t) =>
              /\ token'[x].session = token[x].session
              /\ token'[x].state = IF x = t THEN "revoked" ELSE token[x].state
         /\ \A t \in RefreshTokens : Begins(t) =>
              /\ token'[x].session = IF x = t THEN t ELSE token[x].session
              /\ token'[x].state = IF x = t THEN "live" ELSE token[x].state
         /\ \A t, u \in RefreshTokens : Replaces(t, u) =>
              /\ t # u
              /\ token'[x].session = IF x = t THEN token[u].session ELSE token[x].session
              /\ token'[x].state = IF x = t THEN "live"
                                   ELSE IF x = u THEN "revoked" ELSE token[x].state
<1>1. /\ token = [t \in RefreshTokens |-> token[t]]
      /\ \A t \in RefreshTokens : token[t] \in [state : TokenStates, session : TokenNames]
  BY DEF SessionsOK
<1>2. ASSUME NEW t \in RefreshTokens, Lapses(t)
      PROVE  /\ token'[x].session = token[x].session
             /\ token'[x].state = IF x = t THEN "expired" ELSE token[x].state
  BY <1>1, <1>2 DEF Lapses
<1>3. ASSUME NEW t \in RefreshTokens, Revokes(t)
      PROVE  /\ token'[x].session = token[x].session
             /\ token'[x].state = IF x = t THEN "revoked" ELSE token[x].state
  BY <1>1, <1>3 DEF Revokes, Revoked, Issued
<1>4. ASSUME NEW t \in RefreshTokens, Begins(t)
      PROVE  /\ token'[x].session = IF x = t THEN t ELSE token[x].session
             /\ token'[x].state = IF x = t THEN "live" ELSE token[x].state
  BY <1>1, <1>4 DEF Begins, Inserted
<1>5. ASSUME NEW t \in RefreshTokens, NEW u \in RefreshTokens, Replaces(t, u)
      PROVE  /\ t # u
             /\ token'[x].session = IF x = t THEN token[u].session ELSE token[x].session
             /\ token'[x].state = IF x = t THEN "live"
                                  ELSE IF x = u THEN "revoked" ELSE token[x].state
  <2>1. t # u BY <1>5 DEF Replaces
  <2> DEFINE rows == Inserted(t, token[u].session)
  <2>2. /\ rows[x].session = IF x = t THEN token[u].session ELSE token[x].session
        /\ rows[x].state = IF x = t THEN "live" ELSE token[x].state
        /\ rows[u].state # "unused"
    BY <1>1, <1>5, <2>1 DEF Inserted, Replaces, Issued
  <2>3. rows \in [RefreshTokens -> [state : TokenStates, session : TokenNames]]
    BY <1>1 DEF Inserted, TokenStates, TokenNames
  <2>4. token' = Revoked(rows, u) BY <1>5 DEF Replaces
  <2> HIDE DEF rows
  <2> QED BY <2>1, <2>2, <2>3, <2>4 DEF Revoked
<1> QED BY <1>2, <1>3, <1>4, <1>5

-----------------------------------------------------------------------------
(* A step keeps the invariant *)

LEMMA BelongingKept ==
  ASSUME SessionsInv, SessionsNext
  PROVE  TokensBelong'
<1>0. SessionsOK /\ TokensBelong /\ \A t \in RefreshTokens : token[t].session \in TokenNames
  BY DEF SessionsInv, SessionsOK
<1>1. CASE UNCHANGED token BY <1>0, <1>1 DEF TokensBelong, Issued
<1>2. ASSUME NEW t \in RefreshTokens, Lapses(t) PROVE TokensBelong'
  BY <1>0, <1>2, RowsAfter, NoTokenAssumption DEF TokensBelong, Issued, TokenNames, Lapses
<1>3. ASSUME NEW t \in RefreshTokens, Revokes(t) PROVE TokensBelong'
  BY <1>0, <1>3, RowsAfter, NoTokenAssumption DEF TokensBelong, Issued, TokenNames, Revokes
<1>4. ASSUME NEW t \in RefreshTokens, Begins(t) PROVE TokensBelong'
  <2>1. \A x \in RefreshTokens : Issued(x) => token[x].session \in RefreshTokens \ {t}
    BY <1>0, <1>4, NoTokenAssumption DEF TokensBelong, Issued, TokenNames, Begins
  <2> QED BY <1>0, <1>4, <2>1, RowsAfter, NoTokenAssumption DEF TokensBelong, Issued, TokenNames
<1>5. ASSUME NEW t \in RefreshTokens, NEW u \in RefreshTokens, Replaces(t, u) PROVE TokensBelong'
  <2>1. ~Issued(t) /\ Issued(u) BY <1>5 DEF Replaces
  <2>2. \A x \in RefreshTokens : Issued(x) => token[x].session \in RefreshTokens \ {t}
    BY <1>0, <2>1, NoTokenAssumption DEF TokensBelong, Issued, TokenNames
  <2> QED BY <1>0, <1>5, <2>1, <2>2, RowsAfter, NoTokenAssumption DEF TokensBelong, Issued, TokenNames
<1> QED BY <1>1, <1>2, <1>3, <1>4, <1>5, RowsMove

\* The one token of a session that can still be used is replaced by another one.
LEMMA OneTokenKept ==
  ASSUME SessionsInv, SessionsNext
  PROVE  OneRefreshToken'
<1>0. /\ SessionsOK /\ TokensBelong /\ OneRefreshToken
      /\ \A t \in RefreshTokens : token[t].session \in TokenNames
  BY DEF SessionsInv, SessionsOK
<1> DEFINE Usable(x) == token[x].state \in {"live", "expired"}
<1>a. \A x, y \in RefreshTokens :
        Usable(x) /\ Usable(y) /\ token[x].session = token[y].session => x = y
  BY <1>0 DEF OneRefreshToken, Unrevoked, TokensOf
<1>b. SUFFICES ASSUME NEW x \in RefreshTokens, NEW y \in RefreshTokens,
                      Usable(x)', Usable(y)', (token[x].session = token[y].session)'
               PROVE  x = y
  BY DEF OneRefreshToken, Unrevoked, TokensOf
<1>1. CASE UNCHANGED token BY <1>a, <1>b, <1>1
<1>2. ASSUME NEW t \in RefreshTokens, Lapses(t) PROVE x = y
  BY <1>0, <1>a, <1>b, <1>2, RowsAfter DEF Lapses
<1>3. ASSUME NEW t \in RefreshTokens, Revokes(t) PROVE x = y
  BY <1>0, <1>a, <1>b, <1>3, RowsAfter
<1>4. ASSUME NEW t \in RefreshTokens, Begins(t) PROVE x = y
  <2>1. \A z \in RefreshTokens : Issued(z) => token[z].session # t
    BY <1>0, <1>4, NoTokenAssumption DEF TokensBelong, Issued, TokenNames, Begins
  <2> QED BY <1>0, <1>a, <1>b, <1>4, <2>1, RowsAfter DEF Issued
<1>5. ASSUME NEW t \in RefreshTokens, NEW u \in RefreshTokens, Replaces(t, u) PROVE x = y
  <2>1. Usable(u) BY <1>0, <1>5 DEF Replaces, Issued, SessionsOK, TokenStates
  <2> QED BY <1>0, <1>a, <1>b, <1>5, <2>1, RowsAfter
<1> QED BY <1>1, <1>2, <1>3, <1>4, <1>5, RowsMove

LEMMA EndedKept ==
  ASSUME SessionsInv, SessionsNext, NEW s \in RefreshTokens, Ended(s)
  PROVE  Ended(s)'
<1>0. /\ SessionsOK /\ TokensBelong
      /\ \A t \in RefreshTokens : token[t].session \in TokenNames /\ token[t].state \in TokenStates
  BY DEF SessionsInv, SessionsOK
<1>a. PICK w \in RefreshTokens : token[w].session = s BY DEF Ended, TokensOf
<1>b. \A x \in RefreshTokens : token[x].session = s => token[x].state \notin {"live", "expired"}
  BY DEF Ended, Unrevoked, TokensOf
<1>c. Issued(w) /\ Issued(s)
  BY <1>0, <1>a, NoTokenAssumption DEF TokensBelong, Issued, TokenNames
<1>d. SUFFICES ASSUME NEW x \in RefreshTokens
               PROVE  /\ token'[x].session = s => token'[x].state \notin {"live", "expired"}
                      /\ token'[w].session = s
  BY DEF Ended, Unrevoked, TokensOf
<1>1. CASE UNCHANGED token BY <1>1, <1>a, <1>b
<1>2. ASSUME NEW t \in RefreshTokens, Lapses(t) \/ Revokes(t) \/ Begins(t)
      PROVE  /\ token'[x].session = s => token'[x].state \notin {"live", "expired"}
             /\ token'[w].session = s
  <2>1. CASE Lapses(t) BY <1>0, <1>a, <1>b, <2>1, RowsAfter DEF Lapses
  <2>2. CASE Revokes(t) BY <1>0, <1>a, <1>b, <2>2, RowsAfter
  <2>3. CASE Begins(t)
    <3>1. t # s /\ t # w BY <1>c, <2>3 DEF Begins
    <3> QED BY <1>0, <1>a, <1>b, <2>3, <3>1, RowsAfter
  <2> QED BY <1>2, <2>1, <2>2, <2>3
<1>3. ASSUME NEW t \in RefreshTokens, NEW u \in RefreshTokens, Replaces(t, u)
      PROVE  /\ token'[x].session = s => token'[x].state \notin {"live", "expired"}
             /\ token'[w].session = s
  <2>1. t # w /\ token[u].session # s
    BY <1>0, <1>b, <1>c, <1>3 DEF Replaces, Issued, TokenStates
  <2> QED BY <1>0, <1>a, <1>b, <1>3, <2>1, RowsAfter
<1> QED BY <1>1, <1>2, <1>3, RowsMove

LEMMA IssuedKept ==
  ASSUME SessionsInv, SessionsNext, NEW t \in RefreshTokens, Issued(t)
  PROVE  Issued(t)'
<1>1. SessionsOK BY DEF SessionsInv
<1> QED BY <1>1, RowsMove, RowsAfter DEF Issued

\* What TokensHeld says of a call.
CallHeld(r) ==
  /\ r.of # NoToken => Issued(r.of)
  /\ r.at \in {"logout", "rotate", "rotating", "session", "issued"} => r.of # NoToken
  /\ r.at \in {"issued", "rotated"} => r.new # NoToken /\ Issued(r.new)
  /\ r.at = "rotating" => r.new # NoToken /\ ~Issued(r.new)

\* A step that issues no token but the actor's own keeps what the others hold.
LEMMA OthersHold ==
  ASSUME SessionsInv, SessionsNext, NEW c \in Calls,
         \A d \in Calls \ {c} : call'[d] = call[d],
         \A d \in Calls \ {c} : CallAt(d, "rotating") => token'[call[d].new].state = "unused"
  PROVE  \A d \in Calls \ {c} : CallHeld(call[d])'
<1>1. /\ SessionsOK /\ TokensHeld BY DEF SessionsInv
<1>2. SUFFICES ASSUME NEW d \in Calls \ {c} PROVE CallHeld(call[d])'
  OBVIOUS
<1>3. CallHeld(call[d]) BY <1>1 DEF TokensHeld, CallHeld, CallAt
<1>4. call[d].of \in TokenNames /\ call[d].new \in TokenNames BY <1>1 DEF SessionsOK
<1>5. call'[d] = call[d] OBVIOUS
<1>6. \A t \in TokenNames : t # NoToken /\ Issued(t) => Issued(t)'
  BY IssuedKept DEF TokenNames
<1> QED BY <1>3, <1>4, <1>5, <1>6 DEF CallHeld, CallAt, Issued

LEMMA HoldingKept == ASSUME SessionsInv, SessionsNext PROVE TokensHeld'
<1>0. /\ SessionsOK /\ TokensHeld /\ TokensBelong BY DEF SessionsInv
<1>a. /\ jar \in TokenNames /\ bearer \in TokenNames
      /\ \A d \in Calls : call[d].of \in TokenNames /\ call[d].new \in TokenNames
      /\ \A d \in Calls : CallHeld(call[d])
      /\ jar # NoToken => Issued(jar)
      /\ bearer # NoToken => Issued(bearer)
  BY <1>0 DEF SessionsOK, TokensHeld, CallHeld, CallAt
<1>b. \A t \in TokenNames : t # NoToken /\ Issued(t) => Issued(t)'
  BY IssuedKept DEF TokenNames
<1>c. \A d, e \in Calls :
        d # e /\ CallAt(d, "rotating") /\ CallAt(e, "rotating") => call[d].new # call[e].new
  BY <1>0 DEF TokensHeld
\* It is enough to look at the call that moves.
<1>d. ASSUME NEW c \in Calls, NEW row \in CallRows, call' = [call EXCEPT ![c] = row],
             \A d \in Calls \ {c} : CallAt(d, "rotating") => token'[call[d].new].state = "unused",
             jar' \in {jar, NoToken} \/ (jar' \in TokenNames /\ Issued(jar)'),
             bearer' \in {bearer, NoToken} \/ (bearer' \in TokenNames /\ Issued(bearer)'),
             CallHeld(call[c])',
             row.at = "rotating" =>
               \A d \in Calls \ {c} : CallAt(d, "rotating") => row.new # call[d].new
      PROVE  TokensHeld'
  <2>1. call'[c] = row /\ \A d \in Calls \ {c} : call'[d] = call[d]
    BY <1>0, <1>d DEF SessionsOK
  <2>2. \A d \in Calls : CallHeld(call[d])' BY <1>d, <2>1, OthersHold
  <2>3. (jar # NoToken => Issued(jar))' BY <1>a, <1>b, <1>d
  <2>4. (bearer # NoToken => Issued(bearer))' BY <1>a, <1>b, <1>d
  <2>5. (\A d, e \in Calls :
           d # e /\ CallAt(d, "rotating") /\ CallAt(e, "rotating") => call[d].new # call[e].new)'
    BY <1>c, <1>d, <2>1 DEF CallAt
  <2> QED BY <2>2, <2>3, <2>4, <2>5 DEF TokensHeld, CallHeld, CallAt
<1>e. ASSUME UNCHANGED token
      PROVE  /\ \A d \in Calls : CallAt(d, "rotating") => token'[call[d].new].state = "unused"
             /\ \A t : Issued(t)' <=> Issued(t)
  BY <1>a, <1>e DEF CallHeld, CallAt, Issued
\* A call that ends, or goes to a step where it holds no replacement.
<1>f. ASSUME NEW c \in Calls, CallEnds(c), UNCHANGED token,
             jar' \in {jar, NoToken} \/ (jar' \in TokenNames /\ Issued(jar)'),
             bearer' \in {bearer, NoToken} \/ (bearer' \in TokenNames /\ Issued(bearer)')
      PROVE  TokensHeld'
  <2>1. IdleCall \in CallRows BY DEF IdleCall, CallRows, CallSteps, TokenNames
  <2>2. call'[c] = IdleCall BY <1>0, <1>f DEF CallEnds, SessionsOK
  <2>3. CallHeld(call[c])' BY <2>2 DEF CallHeld, IdleCall
  <2> QED BY <1>d, <1>e, <1>f, <2>1, <2>3 DEF CallEnds, IdleCall
<1>g. ASSUME NEW c \in Calls, UNCHANGED <<token, Browser>>,
             NEW step \in {"member", "unauthorized", "served", "invalid", "cleared"}, CallGoes(c, step)
      PROVE  TokensHeld'
  <2>1. [call[c] EXCEPT !.at = step] \in CallRows
    BY <1>0 DEF SessionsOK, CallRows, CallSteps
  <2>2. call' = [call EXCEPT ![c] = [call[c] EXCEPT !.at = step]]
    BY <1>0, <1>g DEF CallGoes, SessionsOK
  <2>3. call'[c] = [call[c] EXCEPT !.at = step] BY <1>0, <2>2 DEF SessionsOK
  <2>4. CallHeld(call[c])' BY <1>0, <1>a, <1>e, <1>g, <2>3 DEF CallHeld, SessionsOK, Browser
  <2>5. [call[c] EXCEPT !.at = step].at = step BY <1>0 DEF SessionsOK
  <2> QED BY <1>d, <1>e, <1>g, <2>1, <2>2, <2>4, <2>5 DEF Browser
\* A call that brings a token that was issued.
<1>h. ASSUME NEW c \in Calls, UNCHANGED token, NEW row \in CallRows, call' = [call EXCEPT ![c] = row],
             row.at \in {"logout", "rotate", "session"}, row.of # NoToken, Issued(row.of),
             jar' = jar \/ (jar' \in TokenNames /\ Issued(jar)'),
             bearer' = bearer \/ (bearer' \in TokenNames /\ Issued(bearer)')
      PROVE  TokensHeld'
  <2>1. call'[c] = row BY <1>0, <1>h DEF SessionsOK
  <2>2. CallHeld(call[c])' BY <1>e, <1>h, <2>1 DEF CallHeld
  <2> QED BY <1>d, <1>e, <1>h, <2>2
<1>1. ASSUME NEW t \in RefreshTokens, ExpireToken(t) PROVE TokensHeld'
  <2>1. \A x \in RefreshTokens : Issued(x)' <=> Issued(x)
    BY <1>0, <1>1, RowsAfter DEF ExpireToken, Lapses, Issued
  <2> QED BY <1>0, <1>1, <1>a, <2>1 DEF ExpireToken, Browser, TokensHeld, CallAt, TokenNames
<1>2. ASSUME NEW c \in Calls, IssueSession(c) PROVE TokensHeld'
  <2> DEFINE row == [IdleCall EXCEPT !.at = "issued", !.of = FreshToken, !.new = FreshToken]
  <2>1. /\ FreshToken \in RefreshTokens /\ Begins(FreshToken)
        /\ \A d \in Calls : call[d].new # FreshToken
    BY <1>2, FreshTokenIsNew DEF IssueSession, Begins
  <2>2. \A x \in RefreshTokens : Issued(x)' <=> Issued(x) \/ x = FreshToken
    BY <1>0, <2>1, RowsAfter DEF Issued
  <2>3. row \in CallRows BY <2>1 DEF IdleCall, CallRows, CallSteps, TokenNames
  <2>4. call'[c] = row BY <1>0, <1>2 DEF IssueSession, SessionsOK
  <2>5. CallHeld(call[c])' BY <2>1, <2>2, <2>4, NoTokenAssumption DEF CallHeld, IdleCall
  <2>6. \A d \in Calls : CallAt(d, "rotating") => token'[call[d].new].state = "unused"
    BY <1>a, <2>1, <2>2 DEF CallHeld, CallAt, TokenNames, Issued
  <2> QED BY <1>2, <1>d, <2>3, <2>5, <2>6 DEF IssueSession, IdleCall, Browser
<1>3. ASSUME NEW c \in Calls,
             Login(c) \/ Logout(c) \/ LoseLogout(c) \/ RefreshRejected(c) \/ LoseAnswer(c)
      PROVE  TokensHeld'
  <2>1. UNCHANGED token /\ CallEnds(c)
    BY <1>3 DEF Login, Logout, LoseLogout, RefreshRejected, LoseAnswer
  <2>2. CASE Login(c)
    <3>1. jar' = call[c].new /\ Issued(jar)' /\ bearer' = call[c].of /\ Issued(bearer)'
      BY <1>a, <2>1, <2>2 DEF Login, CallHeld, CallAt, Issued
    <3> QED BY <1>a, <1>f, <2>1, <3>1
  <2>3. CASE Logout(c) \/ LoseLogout(c) \/ RefreshRejected(c) \/ LoseAnswer(c)
    BY <1>f, <2>1, <2>3 DEF Logout, LoseLogout, RefreshRejected, LoseAnswer, Browser
  <2> QED BY <1>3, <2>2, <2>3
<1>4. ASSUME NEW c \in Calls, SendLogout(c) \/ RestoreSession(c) PROVE TokensHeld'
  <2>1. ASSUME NEW step \in {"logout", "rotate"}
        PROVE  /\ [IdleCall EXCEPT !.at = step, !.of = jar] \in CallRows
               /\ [IdleCall EXCEPT !.at = step, !.of = jar].at = step
               /\ [IdleCall EXCEPT !.at = step, !.of = jar].of = jar
    BY <1>a DEF IdleCall, CallRows, CallSteps, TokenNames
  <2> QED BY <1>4, <1>a, <1>h, <2>1 DEF SendLogout, RestoreSession, Browser
<1>5. ASSUME NEW c \in Calls, RevokeRefreshToken(c) PROVE TokensHeld'
  <2>1. call[c].of \in RefreshTokens /\ Revokes(call[c].of)
    BY <1>a, <1>5 DEF RevokeRefreshToken, CallHeld, CallAt, TokenNames, Revokes
  <2>2. \A x \in RefreshTokens : Issued(x)' <=> Issued(x)
    BY <1>0, <2>1, RowsAfter DEF Issued, Revokes
  <2>3. /\ [call[c] EXCEPT !.at = "cleared"] \in CallRows
        /\ call' = [call EXCEPT ![c] = [call[c] EXCEPT !.at = "cleared"]]
        /\ call'[c] = [call[c] EXCEPT !.at = "cleared"]
    BY <1>0, <1>5 DEF RevokeRefreshToken, CallGoes, SessionsOK, CallRows, CallSteps
  <2>4. CallHeld(call[c])' BY <1>0, <1>a, <2>2, <2>3 DEF CallHeld, SessionsOK, TokenNames
  <2>5. \A d \in Calls : CallAt(d, "rotating") => token'[call[d].new].state = "unused"
    BY <1>a, <2>2 DEF CallHeld, CallAt, TokenNames, Issued
  <2>6. [call[c] EXCEPT !.at = "cleared"].at = "cleared" BY <1>0 DEF SessionsOK
  <2>7. jar' = jar /\ bearer' = bearer BY <1>5 DEF RevokeRefreshToken, Browser
  <2> QED BY <1>d, <2>3, <2>4, <2>5, <2>6, <2>7
<1>6. ASSUME NEW c \in Calls, NEW s \in RefreshTokens, NEW first \in BOOLEAN, UNCHANGED token, Issued(s),
             call' = [call EXCEPT ![c] = Sent(s, first)],
             jar' = jar \/ (jar' \in TokenNames /\ Issued(jar)'),
             bearer' = bearer \/ (bearer' \in TokenNames /\ Issued(bearer)')
      PROVE  TokensHeld'
  <2>1. Ended(s) \in BOOLEAN BY DEF Ended
  <2>2. Sent(s, first) \in CallRows /\ Sent(s, first).at = "session" /\ Sent(s, first).of = s
    BY <2>1 DEF Sent, IdleCall, CallRows, CallSteps, TokenNames
  <2> QED BY <1>6, <1>h, <2>2, NoTokenAssumption
<1>7. ASSUME NEW c \in Calls, SendCall(c) PROVE TokensHeld'
  BY <1>6, <1>7, <1>a DEF SendCall, Browser, TokenNames
<1>8. ASSUME NEW c \in Calls, Session(c) \/ Authorize(c) \/ AnswerCall(c) PROVE TokensHeld'
  <2>1. CASE CallEnds(c) BY <1>8, <1>f, <2>1 DEF Session, Authorize, AnswerCall, Browser
  <2>2. CASE jar # NoToken /\ call' = [call EXCEPT ![c] = [IdleCall EXCEPT !.at = "rotate", !.of = jar, !.first = FALSE]]
    <3>1. [IdleCall EXCEPT !.at = "rotate", !.of = jar, !.first = FALSE] \in CallRows
      BY <1>a DEF IdleCall, CallRows, CallSteps, TokenNames
    <3> QED BY <1>8, <1>a, <1>h, <2>2, <3>1 DEF Session, Authorize, AnswerCall, Browser, IdleCall
  <2> QED BY <1>8, <1>g, <2>1, <2>2 DEF Session, Authorize, AnswerCall
<1>9. ASSUME NEW c \in Calls, RotateRead(c) PROVE TokensHeld'
  <2>1. CASE CallGoes(c, "invalid") BY <1>9, <1>g, <2>1 DEF RotateRead
  <2>2. CASE ~CallGoes(c, "invalid")
    <3> DEFINE row == [call[c] EXCEPT !.at = "rotating", !.new = FreshToken]
    <3>1. /\ FreshToken \in RefreshTokens /\ ~Issued(FreshToken)
          /\ \A d \in Calls : call[d].new # FreshToken
          /\ UNCHANGED <<token, Browser>> /\ CallAt(c, "rotate")
      BY <1>9, <2>2, FreshTokenIsNew DEF RotateRead
    <3>2. row \in CallRows BY <1>0, <3>1 DEF SessionsOK, CallRows, CallSteps, TokenNames
    <3>3. call' = [call EXCEPT ![c] = row] /\ call'[c] = row
      BY <1>0, <1>9, <2>2 DEF RotateRead, SessionsOK
    <3>4. row.at = "rotating" /\ row.of = call[c].of /\ row.new = FreshToken
      BY <1>0 DEF SessionsOK
    <3>5. CallHeld(call[c])'
      BY <1>a, <1>e, <3>1, <3>3, <3>4, NoTokenAssumption DEF CallHeld, CallAt
    <3> HIDE DEF row
    <3> QED BY <1>d, <1>e, <3>1, <3>2, <3>3, <3>4, <3>5 DEF Browser
  <2> QED BY <2>1, <2>2
<1>10. ASSUME NEW c \in Calls, RotateCommit(c) PROVE TokensHeld'
  <2>1. CASE CallGoes(c, "invalid") /\ UNCHANGED token BY <1>10, <1>g, <2>1 DEF RotateCommit
  <2>2. CASE RotateTx(c)
    <3> DEFINE row == [call[c] EXCEPT !.at = "rotated"]
    <3>1. /\ call[c].of \in RefreshTokens /\ Issued(call[c].of)
          /\ call[c].new \in RefreshTokens /\ ~Issued(call[c].new)
      BY <1>a, <1>10 DEF RotateCommit, CallHeld, CallAt, TokenNames
    <3>2. Replaces(call[c].new, call[c].of) BY <2>2, <3>1 DEF RotateTx, Replaces
    <3>3. \A x \in RefreshTokens : Issued(x)' <=> Issued(x) \/ x = call[c].new
      BY <1>0, <3>1, <3>2, RowsAfter DEF Issued
    <3>4. row \in CallRows BY <1>0 DEF SessionsOK, CallRows, CallSteps
    <3>5. call' = [call EXCEPT ![c] = row] /\ call'[c] = row
      BY <1>0, <2>2 DEF RotateTx, CallGoes, SessionsOK
    <3>6. row.at = "rotated" /\ row.of = call[c].of /\ row.new = call[c].new BY <1>0 DEF SessionsOK
    <3>7. CallHeld(call[c])' BY <3>1, <3>3, <3>5, <3>6, NoTokenAssumption DEF CallHeld
    <3>8. \A d \in Calls \ {c} : CallAt(d, "rotating") => token'[call[d].new].state = "unused"
      BY <1>10, <1>a, <1>c, <3>3 DEF RotateCommit, CallHeld, CallAt, TokenNames, Issued
    <3>9. jar' = jar /\ bearer' = bearer BY <1>10 DEF RotateCommit, Browser
    <3> HIDE DEF row
    <3> QED BY <1>d, <3>4, <3>5, <3>6, <3>7, <3>8, <3>9
  <2> QED BY <1>10, <2>1, <2>2 DEF RotateCommit
<1>11. ASSUME NEW c \in Calls, Refreshed(c) PROVE TokensHeld'
  <2>1. call[c].new \in RefreshTokens /\ Issued(call[c].new) /\ call[c].first \in BOOLEAN
    BY <1>0, <1>a, <1>11 DEF Refreshed, CallHeld, CallAt, TokenNames, SessionsOK
  <2> DEFINE s == token[call[c].new].session
  <2>2. s \in RefreshTokens /\ Issued(s)
    BY <1>0, <2>1, NoTokenAssumption DEF TokensBelong, SessionsOK, TokenNames
  <2>3. jar' = call[c].new /\ bearer' = s /\ UNCHANGED token
        /\ call' = [call EXCEPT ![c] = Sent(s, call[c].first)]
    BY <1>11 DEF Refreshed
  <2> HIDE DEF s
  <2>4. Issued(jar)' /\ Issued(bearer)' BY <2>1, <2>2, <2>3 DEF Issued
  <2> QED BY <1>6, <2>1, <2>2, <2>3, <2>4 DEF TokenNames
<1> QED BY <1>1, <1>2, <1>3, <1>4, <1>5, <1>7, <1>8, <1>9, <1>10, <1>11 DEF SessionsNext

\* A call that was late when it was sent is answered 401 when its session is read.
LEMMA LateKept == ASSUME SessionsInv, SessionsNext PROVE LateIsEnded'
<1>0. /\ SessionsOK /\ TokensHeld /\ LateIsEnded BY DEF SessionsInv
<1>a. \A d \in Calls : call[d].late \in BOOLEAN /\ call[d].of \in TokenNames
  BY <1>0 DEF SessionsOK
<1> DEFINE Late(r) == r.late => \/ r.at = "session" /\ r.of # NoToken /\ Ended(r.of)
                                \/ r.at = "unauthorized"
<1>b. \A d \in Calls : Late(call[d])
  BY <1>0 DEF LateIsEnded, TokensHeld, CallAt
<1>c. \A t \in TokenNames : t # NoToken /\ Ended(t) => Ended(t)'
  BY EndedKept DEF TokenNames
\* It is enough to look at the call that moves.
<1>d. ASSUME NEW c \in Calls, NEW row, call' = [call EXCEPT ![c] = row],
             row.late => (row.at = "session" /\ Ended(row.of)') \/ row.at = "unauthorized"
      PROVE  LateIsEnded'
  <2>1. call'[c] = row /\ \A d \in Calls \ {c} : call'[d] = call[d]
    BY <1>0, <1>d DEF SessionsOK
  <2>2. SUFFICES ASSUME NEW d \in Calls \ {c}, call[d].late
                 PROVE  \/ call[d].at = "session" /\ Ended(call[d].of)'
                        \/ call[d].at = "unauthorized"
    BY <1>d, <2>1 DEF LateIsEnded, CallAt
  <2>3. CASE call[d].at = "session" /\ call[d].of # NoToken /\ Ended(call[d].of)
    <3>1. \A t \in TokenNames : t = call[d].of => Ended(t)' BY <1>c, <2>3
    <3>2. call'[d].of = call[d].of /\ call[d].of \in TokenNames BY <1>a, <2>1
    <3> QED BY <2>3, <3>1, <3>2 DEF Ended, TokensOf, Unrevoked
  <2> QED BY <1>b, <2>2, <2>3
\* A call that keeps its token and is not late is not late afterwards.
<1>e. ASSUME NEW c \in Calls, NEW step, CallGoes(c, step), ~call[c].late \/ step = "unauthorized"
      PROVE  LateIsEnded'
  <2>1. call' = [call EXCEPT ![c] = [call[c] EXCEPT !.at = step]] BY <1>0, <1>e DEF CallGoes, SessionsOK
  <2>2. /\ [call[c] EXCEPT !.at = step].late = call[c].late
        /\ [call[c] EXCEPT !.at = step].at = step
    BY <1>0 DEF SessionsOK
  <2> QED BY <1>d, <1>e, <2>1, <2>2
<1>f. ASSUME NEW c \in Calls, NEW row, call' = [call EXCEPT ![c] = row], ~row.late
      PROVE  LateIsEnded'
  BY <1>d, <1>f
<1>g. ASSUME NEW c \in Calls, CallEnds(c) PROVE LateIsEnded'
  <2>1. ~IdleCall.late BY DEF IdleCall
  <2> QED BY <1>f, <1>g, <2>1 DEF CallEnds
<1>h. ASSUME NEW c \in Calls, NEW s \in RefreshTokens, NEW first \in BOOLEAN, call' = [call EXCEPT ![c] = Sent(s, first)]
      PROVE  LateIsEnded'
  <2>1. Sent(s, first).late = Ended(s) /\ Sent(s, first).at = "session" /\ Sent(s, first).of = s
    BY DEF Sent, IdleCall
  <2>2. Ended(s) => Ended(s)' BY EndedKept
  <2> QED BY <1>d, <1>h, <2>1, <2>2
<1>1. ASSUME NEW t \in RefreshTokens, ExpireToken(t) PROVE LateIsEnded'
  <2>1. call' = call BY <1>1 DEF ExpireToken
  <2>2. \A d \in Calls : call[d].late =>
          (call[d].at = "session" /\ Ended(call[d].of)') \/ call[d].at = "unauthorized"
    <3>1. SUFFICES ASSUME NEW d \in Calls, call[d].late, call[d].at # "unauthorized"
                   PROVE  call[d].at = "session" /\ Ended(call[d].of)'
      OBVIOUS
    <3>2. call[d].at = "session" /\ call[d].of # NoToken /\ Ended(call[d].of) BY <1>b, <3>1
    <3>3. \A x \in TokenNames : x = call[d].of => Ended(x)' BY <1>c, <3>2
    <3> QED BY <1>a, <2>1, <3>2, <3>3 DEF Ended, TokensOf, Unrevoked
  <2> QED BY <2>1, <2>2 DEF LateIsEnded, CallAt
<1>2. ASSUME NEW c \in Calls, IssueSession(c) \/ SendLogout(c) \/ RestoreSession(c) PROVE LateIsEnded'
  <2>1. \A s \in TokenNames :
          /\ [IdleCall EXCEPT !.at = "issued", !.of = s, !.new = s].late = FALSE
          /\ [IdleCall EXCEPT !.at = "logout", !.of = s].late = FALSE
          /\ [IdleCall EXCEPT !.at = "rotate", !.of = s].late = FALSE
    BY DEF IdleCall
  <2>2. FreshToken \in TokenNames \/ ~IssueSession(c)
    BY FreshTokenIsNew DEF IssueSession, TokenNames
  <2>3. jar \in TokenNames BY <1>0 DEF SessionsOK
  <2> QED BY <1>2, <1>f, <2>1, <2>2, <2>3 DEF IssueSession, SendLogout, RestoreSession
<1>3. ASSUME NEW c \in Calls,
             Login(c) \/ Logout(c) \/ LoseLogout(c) \/ RefreshRejected(c) \/ LoseAnswer(c)
      PROVE  LateIsEnded'
  BY <1>3, <1>g DEF Login, Logout, LoseLogout, RefreshRejected, LoseAnswer
<1>4. ASSUME NEW c \in Calls, RevokeRefreshToken(c) \/ Authorize(c) \/ RotateCommit(c) PROVE LateIsEnded'
  <2>1. ~call[c].late BY <1>4, <1>b DEF RevokeRefreshToken, Authorize, RotateCommit, CallAt
  <2> QED BY <1>4, <1>e, <1>g, <2>1 DEF RevokeRefreshToken, Authorize, RotateCommit, RotateTx
<1>5. ASSUME NEW c \in Calls, SendCall(c) PROVE LateIsEnded'
  BY <1>5, <1>0, <1>h DEF SendCall, SessionsOK, TokenNames
\* No token of a session that ended is live.
<1>6. ASSUME NEW c \in Calls, Session(c) PROVE LateIsEnded'
  <2>1. Ended(call[c].of) => ~IsAccessSessionActive(call[c].of)
    BY DEF Ended, IsAccessSessionActive, Unrevoked
  <2>2. call[c].late => ~IsAccessSessionActive(call[c].of)
    BY <1>6, <1>b, <2>1 DEF Session, CallAt
  <2> QED BY <1>6, <1>a, <1>e, <2>2 DEF Session
<1>7. ASSUME NEW c \in Calls, AnswerCall(c) PROVE LateIsEnded'
  <2>1. [IdleCall EXCEPT !.at = "rotate", !.of = jar, !.first = FALSE].late = FALSE BY DEF IdleCall
  <2> QED BY <1>7, <1>f, <1>g, <2>1 DEF AnswerCall
<1>8. ASSUME NEW c \in Calls, RotateRead(c) PROVE LateIsEnded'
  <2>1. ~call[c].late BY <1>8, <1>b DEF RotateRead, CallAt
  <2>2. CASE CallGoes(c, "invalid") BY <1>e, <2>1, <2>2
  <2>3. CASE ~CallGoes(c, "invalid")
    <3>1. call' = [call EXCEPT ![c] = [call[c] EXCEPT !.at = "rotating", !.new = FreshToken]]
      BY <1>0, <1>8, <2>3 DEF RotateRead, SessionsOK
    <3>2. [call[c] EXCEPT !.at = "rotating", !.new = FreshToken].late = call[c].late
      BY <1>0 DEF SessionsOK
    <3> QED BY <1>a, <1>f, <2>1, <3>1, <3>2
  <2> QED BY <2>2, <2>3
<1>9. ASSUME NEW c \in Calls, Refreshed(c) PROVE LateIsEnded'
  <2>1. call[c].new \in RefreshTokens /\ Issued(call[c].new) /\ call[c].first \in BOOLEAN
    BY <1>0, <1>9 DEF Refreshed, TokensHeld, CallAt, TokenNames, SessionsOK
  <2>2. token[call[c].new].session \in RefreshTokens
    BY <1>0, <2>1 DEF SessionsInv, TokensBelong, SessionsOK, TokenNames
  <2> QED BY <1>9, <1>h, <2>1, <2>2 DEF Refreshed
<1> QED BY <1>1, <1>2, <1>3, <1>4, <1>5, <1>6, <1>7, <1>8, <1>9 DEF SessionsNext

-----------------------------------------------------------------------------

LEMMA SessionsInvariant == SessionsSpec => []SessionsInv
<1>1. ASSUME SessionsInv, [SessionsNext]_sessions PROVE SessionsInv'
  <2>1. CASE SessionsNext
    BY <1>1, <2>1, SessionsTypes, BelongingKept, HoldingKept, OneTokenKept, LateKept DEF SessionsInv
  <2>2. CASE UNCHANGED sessions
    BY <1>1, <2>2 DEF sessions, SessionsInv, SessionsOK, TokensBelong, TokensHeld, OneRefreshToken,
         LateIsEnded, Issued, Unrevoked, TokensOf, Ended, CallAt
  <2> QED BY <1>1, <2>1, <2>2
<1> QED BY SessionsInitial, <1>1, PTL DEF SessionsSpec

\* The rows, the browser and the calls have their types.
THEOREM SessionsTypeCorrect == SessionsSpec => []SessionsOK
<1>1. SessionsInv => SessionsOK BY DEF SessionsInv
<1> QED BY SessionsInvariant, <1>1, PTL

\* However many calls rotate tokens at once, a session keeps one usable token.
THEOREM OneRefreshTokenHolds == SessionsSpec => []OneRefreshToken
<1>1. SessionsInv => OneRefreshToken BY DEF SessionsInv
<1> QED BY SessionsInvariant, <1>1, PTL

\* No rotation that was on its way brings back a session that ended.
THEOREM SessionsStayEnded == SessionsSpec => EndedStaysEnded
<1> DEFINE Stays == \A s \in RefreshTokens : Ended(s) => Ended(s)'
<1>1. ASSUME SessionsInv, [SessionsNext]_sessions PROVE [Stays]_sessions
  BY <1>1, EndedKept
<1> QED BY SessionsInvariant, <1>1, PTL DEF SessionsSpec, EndedStaysEnded

\* A call sent after its session ended is not served.
THEOREM LateCallsRefused == SessionsSpec => []LateIsRefused
<1>1. SessionsInv => LateIsRefused BY DEF SessionsInv, LateIsEnded, LateIsRefused, CallAt
<1> QED BY SessionsInvariant, <1>1, PTL
=============================================================================

--------------------------- MODULE Organizations ---------------------------
(***************************************************************************)
(* One organization's roles and members, and the requests of its           *)
(* administrators, whose own permissions are what the same tables say.     *)
(*                                                                         *)
(* A request is authorized first and changes the tables later, in one      *)
(* READ COMMITTED transaction: other transactions commit between its       *)
(* statements.  Permission keys are grouped by what they allow.  Role      *)
(* names, emails and the activity log are left out, and members are added  *)
(* with a role.  An update that gives only a name changes nothing here.    *)
(***************************************************************************)
EXTENDS FiniteSets

CONSTANTS
  Roles, Owner,      \* roles; Owner is the system role "Organization Owner"
  Members,           \* users that are or can become members
  Root,              \* the member that bootstrapped the organization
  Changes,           \* requests in flight
  PermissionSets     \* the sets of permissions that requests ask for

Permissions == {"create", "update", "delete", "manage", "add", "status", "assign"}

ASSUME OrganizationsAssumption ==
  /\ Owner \in Roles /\ Root \in Members
  /\ PermissionSets \subseteq SUBSET Permissions

VARIABLES
  role,         \* Role and RolePermission: whether it exists, its permissions
  membership,   \* Membership.status
  memberRole,   \* MemberRole: pairs of a member and a role
  change,       \* where each request is
  mixed         \* ghost: roles whose last update had crossed another one

organizations == <<role, membership, memberRole, change, mixed>>

MemberStatuses == {"INVITED", "ACTIVE", "DISABLED"}
ChangeSteps == {"idle", "create", "update", "updating", "delete", "counted",
                "add", "adding", "status", "assign", "assigning"}

\* name: whether updateRole is given one too.  replaced: the permission rows that the
\* running update has deleted; crossed: the updates that ran beside it.
Names == {"given", "none"}
Wanted(step, r, m, p) ==
  [at |-> step, role |-> r, member |-> m, wants |-> p, name |-> "none",
   replaced |-> {}, crossed |-> {}]
FreeChange == Wanted("idle", Owner, Root, {})

OrganizationsOK ==
  /\ role \in [Roles -> [exists : BOOLEAN, permissions : SUBSET Permissions]]
  /\ membership \in [Members -> MemberStatuses \cup {"absent"}]
  /\ memberRole \subseteq Members \X Roles
  /\ change \in [Changes -> [at : ChangeSteps, role : Roles, member : Members,
                             wants : SUBSET Permissions, name : Names,
                             replaced : SUBSET Permissions, crossed : SUBSET Changes]]
  /\ mixed \subseteq Roles

\* What bootstrap-super-admin leaves: the owner role with every permission.
BootstrapSuperAdmin ==
  /\ role = [r \in Roles |-> [exists |-> r = Owner,
                              permissions |-> IF r = Owner THEN Permissions ELSE {}]]
  /\ membership = [m \in Members |-> IF m = Root THEN "ACTIVE" ELSE "absent"]
  /\ memberRole = {<<Root, Owner>>}

OrganizationsInit ==
  BootstrapSuperAdmin /\ change = [q \in Changes |-> FreeChange] /\ mixed = {}

OrganizationTables == <<role, membership, memberRole, mixed>>
ChangeEnds(q) == change' = [change EXCEPT ![q] = FreeChange]
ChangeAt(q, step) == change[q].at = step

\* authorize and findUserAccess: an ACTIVE member, through any of its roles.
FindUserAccess(m) == UNION {role[r].permissions : r \in {r \in Roles : <<m, r>> \in memberRole}}
Authorized(permission) ==
  \E m \in Members : membership[m] = "ACTIVE" /\ permission \in FindUserAccess(m)

\* The routes: a request that is authorized goes on to the service.
Asks(q, request) == ChangeAt(q, "idle") /\ change' = [change EXCEPT ![q] = request] /\ UNCHANGED OrganizationTables

PostRole(q, r, p) ==
  /\ Authorized("create") /\ (p # {} => Authorized("manage"))
  /\ Asks(q, Wanted("create", r, Root, p))
PatchRole(q, r, p, name) ==
  /\ Authorized("update") /\ Authorized("manage")
  /\ Asks(q, [Wanted("update", r, Root, p) EXCEPT !.name = name])
DeleteRoleRoute(q, r) == Authorized("delete") /\ Asks(q, Wanted("delete", r, Root, {}))
PostMember(q, m, r) == Authorized("add") /\ Asks(q, Wanted("add", r, m, {}))
PatchMember(q, m) == Authorized("status") /\ Asks(q, Wanted("status", Owner, m, {}))
PostMemberRole(q, m, r) == Authorized("assign") /\ Asks(q, Wanted("assign", r, m, {}))

-----------------------------------------------------------------------------
(* The service.  A statement that does not find what it needs ends the        *)
(* request and rolls its transaction back.                                    *)

ChangeRefused(q) == ChangeEnds(q) /\ UNCHANGED OrganizationTables

\* A new role has an id that no request knows yet.
FreshRole(r) == \A q \in Changes : change[q].role = r => ChangeAt(q, "create")

CreateRole(q) ==
  /\ ChangeAt(q, "create")
  /\ \/ /\ ~role[change[q].role].exists /\ FreshRole(change[q].role)
        /\ role' = [role EXCEPT ![change[q].role] = [exists |-> TRUE, permissions |-> change[q].wants]]
        /\ ChangeEnds(q) /\ UNCHANGED <<membership, memberRole, mixed>>
     \/ role[change[q].role].exists /\ ChangeRefused(q)

\* Who holds the row of a role: the update of a row locks it until the commit.
\* An update without a name writes no row and locks nothing.  (The first form is
\* a table whose rows are not locked.)
Updating(q, r) == ChangeAt(q, "updating") /\ change[q].role = r
Unlocked(r) == TRUE
Named(q) == change[q].name = "given"
Lockable(r) == \A q \in Changes : ~(Updating(q, r) /\ Named(q))

\* Two updates of a role cross when one of them has locked nothing.
Crosses(q, other) ==
  other # q /\ Updating(other, change[q].role) /\ ~(Named(q) /\ Named(other))

\* updateRole: look the role up, lock its row, delete its permissions ...
UpdateRole(q) ==
  LET r == change[q].role IN
  /\ ChangeAt(q, "update")
  /\ \/ /\ role[r].exists /\ r # Owner /\ (Named(q) => Lockable(r))
        /\ change' = [other \in Changes |->
             IF other = q
             THEN [change[q] EXCEPT !.at = "updating", !.replaced = role[r].permissions,
                                    !.crossed = {w \in Changes : Crosses(q, w)}]
             ELSE [change[other] EXCEPT !.crossed = IF Crosses(q, other) THEN @ \cup {q} ELSE @]]
        /\ UNCHANGED OrganizationTables
     \/ (~role[r].exists \/ r = Owner) /\ ChangeRefused(q)

\* ... and insert the new ones.  A row that another transaction has inserted in
\* between was not deleted, and cannot be inserted twice.
InsertPermissions(q) ==
  LET r == change[q].role
      left == role[r].permissions \ change[q].replaced
  IN
  /\ ChangeAt(q, "updating")
  /\ \/ /\ role[r].exists /\ left \cap change[q].wants = {}
        /\ role' = [role EXCEPT ![r].permissions = left \cup change[q].wants]
        /\ mixed' = IF change[q].crossed = {} THEN mixed \ {r} ELSE mixed \cup {r}
        /\ change' = [other \in Changes |->
             IF other = q THEN FreeChange
             ELSE IF Updating(other, r) THEN [change[other] EXCEPT !.replaced = @ \ change[q].wants]
             ELSE change[other]]
        /\ UNCHANGED <<membership, memberRole>>
     \/ (~role[r].exists \/ left \cap change[q].wants # {}) /\ ChangeRefused(q)

\* deleteRole: no system role, and no role that is assigned ...
Unassigned(r) == \A m \in Members : <<m, r>> \notin memberRole
CountAssignments(q) ==
  LET r == change[q].role IN
  /\ ChangeAt(q, "delete")
  /\ \/ /\ role[r].exists /\ r # Owner /\ Unassigned(r)
        /\ change' = [change EXCEPT ![q].at = "counted"] /\ UNCHANGED OrganizationTables
     \/ ~(role[r].exists /\ r # Owner /\ Unassigned(r)) /\ ChangeRefused(q)

\* ... and the delete, which takes assignments made since with it.
DeleteRole(q) ==
  LET r == change[q].role IN
  /\ ChangeAt(q, "counted") /\ Lockable(r)
  /\ role' = [role EXCEPT ![r] = [exists |-> FALSE, permissions |-> {}]]
  /\ memberRole' = {pair \in memberRole : pair[2] # r}
  /\ ChangeEnds(q) /\ UNCHANGED <<membership, mixed>>

\* addMember and assignRole look the role up and insert later.
FindRole(q, found) ==
  \/ /\ role[change[q].role].exists
     /\ change' = [change EXCEPT ![q].at = found] /\ UNCHANGED OrganizationTables
  \/ ~role[change[q].role].exists /\ ChangeRefused(q)

AddMember(q) ==
  LET m == change[q].member IN
  \/ ChangeAt(q, "add") /\ FindRole(q, "adding")
  \/ /\ ChangeAt(q, "adding")
     /\ \/ /\ membership[m] = "absent" /\ role[change[q].role].exists
           /\ membership' = [membership EXCEPT ![m] = "INVITED"]
           /\ memberRole' = memberRole \cup {<<m, change[q].role>>}
           /\ ChangeEnds(q) /\ UNCHANGED <<role, mixed>>
        \/ (membership[m] # "absent" \/ ~role[change[q].role].exists) /\ ChangeRefused(q)

AssignRole(q) ==
  LET m == change[q].member IN
  \/ /\ ChangeAt(q, "assign") /\ membership[m] # "absent" /\ FindRole(q, "assigning")
  \/ /\ ChangeAt(q, "assign") /\ membership[m] = "absent" /\ ChangeRefused(q)
  \/ /\ ChangeAt(q, "assigning")
     /\ \/ /\ role[change[q].role].exists
           /\ memberRole' = memberRole \cup {<<m, change[q].role>>}
           /\ ChangeEnds(q) /\ UNCHANGED <<role, membership, mixed>>
        \/ ~role[change[q].role].exists /\ ChangeRefused(q)

UpdateMemberStatus(q, status) ==
  /\ ChangeAt(q, "status")
  /\ \/ /\ membership[change[q].member] # "absent"
        /\ membership' = [membership EXCEPT ![change[q].member] = status]
        /\ ChangeEnds(q) /\ UNCHANGED <<role, memberRole, mixed>>
     \/ membership[change[q].member] = "absent" /\ ChangeRefused(q)

Request(q) ==
  \/ \E r \in Roles :
       \/ DeleteRoleRoute(q, r)
       \/ \E p \in PermissionSets :
            PostRole(q, r, p) \/ \E name \in Names : PatchRole(q, r, p, name)
       \/ \E m \in Members : PostMember(q, m, r) \/ PostMemberRole(q, m, r)
  \/ \E m \in Members : PatchMember(q, m)

OrganizationsNext ==
  \E q \in Changes :
    \/ Request(q) \/ CreateRole(q) \/ UpdateRole(q) \/ InsertPermissions(q)
    \/ CountAssignments(q) \/ DeleteRole(q) \/ AddMember(q) \/ AssignRole(q)
    \/ \E status \in MemberStatuses : UpdateMemberStatus(q, status)

OrganizationsSpec == OrganizationsInit /\ [][OrganizationsNext]_organizations

-----------------------------------------------------------------------------
\* The permissions of a role are those that one request asked for: updates at the
\* same time do not mix, unless one of them gave no name.  Such an update may leave
\* the union of both, until a later one that crosses no other replaces it.
RoleIsOneRequest ==
  \A r \in Roles \ mixed : role[r].permissions \in PermissionSets \cup {{}, Permissions}
=============================================================================

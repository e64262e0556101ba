-------------------------------- MODULE Staff --------------------------------
(***************************************************************************)
(* Staff and their roles: StaffService, RolesService (the permissions of a *)
(* role aside), SystemService.fixStaffGlobalRoles and the trash's case of  *)
(* a staff profile.  A member of staff is a user with a profile; the user's*)
(* global_role, in another table, decides whether the portal lets them in. *)
(* One step per database statement.                                        *)
(*                                                                         *)
(* A user stands for an e-mail address; a profile is found by its user,    *)
(* which is unique, but has an id of its own: a request holds the id, and  *)
(* loses its row when that is deleted, whatever is inserted after.  Users  *)
(* and roles that were deleted may come again once no request holds them.  *)
(***************************************************************************)
EXTENDS Integers, FiniteSets

CONSTANTS
  Requests,   \* slots for requests in flight
  Users,      \* users that may come to exist
  Roles,      \* custom roles that may come to exist
  Landlords,
  System,     \* the platform, landlord_id null: what a SAAS_ADMIN acts for
  MaxStaff,   \* max_staff of the landlords' plan
  None

Bosses == Landlords \cup {System}

ASSUME StaffAssumption ==
  /\ IsFiniteSet(Requests) /\ Requests # {}
  /\ IsFiniteSet(Users)
  /\ System \notin Landlords
  /\ MaxStaff \in Nat
  /\ None \notin Bosses \cup Roles \cup Users

VARIABLES
  user,     \* users.global_role, or "none"
  profile,  \* staff_profiles by user
  role,     \* custom_roles.landlord_id, or None if there is no such role
  req       \* requests in flight

vars == <<user, profile, role, req>>

-----------------------------------------------------------------------------
GlobalRole == {"TENANT", "LANDLORD", "STAFF", "SAAS_ADMIN"}

NoProfile == [boss |-> None, role |-> None]
Profile   == [boss : Bosses, role : Roles] \cup {NoProfile}

\* users: whom the repair of all has still to repair; lost: the profile the
\* request has read is deleted; alone: no other request since this one came.
Idle    == [pc |-> "idle", boss |-> None, user |-> None, role |-> None,
            users |-> {}, lost |-> FALSE, alone |-> TRUE]
Pcs     == {"idle", "addRole", "addFind", "addCreate", "addCheck", "addPromote", "addInsert",
            "removeProfile", "removeRevert", "fix", "repair", "roleCount", "roleDelete"}
Request == [pc : Pcs, boss : Bosses \cup {None}, user : Users \cup {None},
            role : Roles \cup {None}, users : SUBSET Users, lost : BOOLEAN, alone : BOOLEAN]

TypeOK ==
  /\ user \in [Users -> GlobalRole \cup {"none"}]
  /\ profile \in [Users -> Profile]
  /\ role \in [Roles -> Bosses \cup {None}]
  /\ req \in [Requests -> Request]

Init ==
  /\ user = [u \in Users |-> "none"]
  /\ profile = [u \in Users |-> NoProfile]
  /\ role = [k \in Roles |-> None]
  /\ req = [r \in Requests |-> Idle]

IsUser(u)  == user[u] # "none"
IsStaff(u) == profile[u] # NoProfile

At(r, pc)   == req[r].pc = pc
Finish(r)   == req' = [req EXCEPT ![r] = Idle]
Goto(r, pc) == req' = [req EXCEPT ![r].pc = pc]

\* A check that throws: the request goes on only if the test holds.
Check(r, test, pc) == IF test THEN Goto(r, pc) ELSE Finish(r)

\* A request comes in: it and those in flight are no longer alone.
Busy(r) == \E o \in Requests \ {r} : ~ At(o, "idle")
Disturbed(o) == IF At(o, "idle") THEN req[o] ELSE [req[o] EXCEPT !.alone = FALSE]
Disturb == req' = [o \in Requests |-> Disturbed(o)]
Begin(r, new) ==
  /\ At(r, "idle")
  /\ req' = [o \in Requests |-> IF o = r THEN [new EXCEPT !.alone = ~ Busy(r)]
                                ELSE Disturbed(o)]

\* The global_role of those who work for a boss.
TargetRole(b) == IF b = System THEN "SAAS_ADMIN" ELSE "STAFF"

StaffOf(b) == {u \in Users : profile[u].boss = b}

-----------------------------------------------------------------------------
(* addStaff *)

\* Mutant: the plan's number is reached, not exceeded.
WithinLimit_OffByOne(b) == Cardinality(StaffOf(b)) <= MaxStaff

WithinLimit(b) == Cardinality(StaffOf(b)) < MaxStaff

AddStaff(r, b, u, k) ==
  /\ b \in Landlords => WithinLimit(b)
  /\ Begin(r, [Idle EXCEPT !.pc = "addRole", !.boss = b, !.user = u, !.role = k])
  /\ UNCHANGED <<user, profile, role>>

\* Mutant: the role is looked up by its id alone.
RoleIsOf_Any(k, b) == role[k] # None

RoleIsOf(k, b) == role[k] = b

AddRole(r) ==
  /\ At(r, "addRole")
  /\ Check(r, RoleIsOf(req[r].role, req[r].boss), "addFind")
  /\ UNCHANGED <<user, profile, role>>

AddFind(r) ==
  /\ At(r, "addFind")
  /\ Goto(r, IF IsUser(req[r].user) THEN "addCheck" ELSE "addCreate")
  /\ UNCHANGED <<user, profile, role>>

\* The e-mail address is unique.
AddCreate(r) ==
  LET u == req[r].user IN
  /\ At(r, "addCreate")
  /\ Check(r, ~ IsUser(u), "addInsert")
  /\ user' = IF IsUser(u) THEN user ELSE [user EXCEPT ![u] = TargetRole(req[r].boss)]
  /\ UNCHANGED <<profile, role>>

AddCheck(r) ==
  /\ At(r, "addCheck")
  /\ Check(r, ~ IsStaff(req[r].user), "addPromote")
  /\ UNCHANGED <<user, profile, role>>

\* Mutant: an existing user keeps the role they had.
SetRole_Kept(u, g) == user' = user

SetRole(u, g) == user' = IF IsUser(u) THEN [user EXCEPT ![u] = g] ELSE user

AddPromote(r) ==
  LET u == req[r].user IN
  /\ At(r, "addPromote")
  /\ Check(r, IsUser(u), "addInsert")
  /\ SetRole(u, TargetRole(req[r].boss))
  /\ UNCHANGED <<profile, role>>

\* Mutant: role_id is not passed on.
NewProfile_NoRole(q) == [boss |-> q.boss, role |-> None]

NewProfile(q) == [boss |-> q.boss, role |-> q.role]

\* One profile per user; user and role must exist.
AddInsert(r) ==
  LET u == req[r].user IN
  /\ At(r, "addInsert")
  /\ profile' = IF IsUser(u) /\ ~ IsStaff(u) /\ role[req[r].role] # None
                  THEN [profile EXCEPT ![u] = NewProfile(req[r])]
                  ELSE profile
  /\ Finish(r)
  /\ UNCHANGED <<user, role>>

-----------------------------------------------------------------------------
(* removeStaff, fixStaffAccess, fixStaffGlobalRoles and the trash *)

\* A landlord finds only their own staff, the platform everybody's.
Finds(b, u) == IsStaff(u) /\ b \in {profile[u].boss, System}

RemoveStaff(r, b, u) ==
  /\ Finds(b, u)
  /\ Begin(r, [Idle EXCEPT !.pc = "removeProfile", !.boss = b, !.user = u])
  /\ UNCHANGED <<user, profile, role>>

\* Profiles are deleted: the requests that hold one of them have lost it.
Forget(R, gone) ==
  [o \in Requests |-> IF R[o].pc = "removeProfile" /\ R[o].user \in gone
                      THEN [R[o] EXCEPT !.lost = TRUE] ELSE R[o]]

RemoveProfile(r) ==
  LET u == req[r].user IN
  /\ At(r, "removeProfile")
  /\ IF req[r].lost
       THEN Finish(r) /\ UNCHANGED profile
       ELSE /\ profile' = [profile EXCEPT ![u] = NoProfile]
            /\ req' = Forget([req EXCEPT ![r].pc = "removeRevert"], {u})
  /\ UNCHANGED <<user, role>>

RemoveRevert(r) ==
  /\ At(r, "removeRevert")
  /\ user' = IF IsUser(req[r].user) THEN [user EXCEPT ![req[r].user] = "TENANT"] ELSE user
  /\ Finish(r)
  /\ UNCHANGED <<profile, role>>

FixAccess(r, b, u) ==
  /\ Finds(b, u)
  /\ Begin(r, [Idle EXCEPT !.pc = "fix", !.boss = b, !.user = u])
  /\ UNCHANGED <<user, profile, role>>

\* What the caller's staff should be, whoever's staff the user is.
Fix(r) ==
  /\ At(r, "fix")
  /\ SetRole(req[r].user, TargetRole(req[r].boss))
  /\ Finish(r)
  /\ UNCHANGED <<profile, role>>

\* The portal lets the user in.
LetIn(u) == user[u] \in {"STAFF", "SAAS_ADMIN"}

LockedOut == {u \in Users : profile[u].boss \in Landlords /\ ~ LetIn(u)}

RepairAll(r) ==
  /\ LockedOut # {}
  /\ Begin(r, [Idle EXCEPT !.pc = "repair", !.users = LockedOut])
  /\ UNCHANGED <<user, profile, role>>

Remaining(r, u) == IF IsUser(u) THEN req[r].users \ {u} ELSE {}

RepairOne(r) ==
  \E u \in req[r].users :
    /\ At(r, "repair")
    /\ user' = IF IsUser(u) THEN [user EXCEPT ![u] = "STAFF"] ELSE user
    /\ IF Remaining(r, u) = {} THEN Finish(r)
       ELSE req' = [req EXCEPT ![r].users = Remaining(r, u)]
    /\ UNCHANGED <<profile, role>>

\* The trash deletes a profile and leaves the user's role.
PurgeProfile(u) ==
  /\ IsStaff(u)
  /\ profile' = [profile EXCEPT ![u] = NoProfile]
  /\ req' = Forget([o \in Requests |-> Disturbed(o)], {u})
  /\ UNCHANGED <<user, role>>

-----------------------------------------------------------------------------
(* createRole and deleteRole *)

CreateRole(b, k) ==
  /\ role[k] = None
  /\ \A o \in Requests : req[o].role # k
  /\ role' = [role EXCEPT ![k] = b]
  /\ Disturb
  /\ UNCHANGED <<user, profile>>

DeleteRole(r, b, k) ==
  /\ role[k] = b
  /\ Begin(r, [Idle EXCEPT !.pc = "roleCount", !.boss = b, !.role = k])
  /\ UNCHANGED <<user, profile, role>>

InUse(k) == \E u \in Users : profile[u].role = k

RoleCount(r) ==
  /\ At(r, "roleCount")
  /\ Check(r, ~ InUse(req[r].role), "roleDelete")
  /\ UNCHANGED <<user, profile, role>>

\* A role that is assigned by now is kept by the profile's foreign key.
RoleDelete(r) ==
  /\ At(r, "roleDelete")
  /\ role' = IF InUse(req[r].role) THEN role ELSE [role EXCEPT ![req[r].role] = None]
  /\ Finish(r)
  /\ UNCHANGED <<user, profile>>

-----------------------------------------------------------------------------
(* Users come and go: register, which takes any role, and deleteUser, which *)
(* takes the profile along.                                                 *)

Register(u, g) ==
  /\ ~ IsUser(u)
  /\ \A o \in Requests : req[o].user # u \/ req[o].pc \in {"addRole", "addFind", "addCreate"}
  /\ \A o \in Requests : u \notin req[o].users
  /\ user' = [user EXCEPT ![u] = g]
  /\ Disturb
  /\ UNCHANGED <<profile, role>>

DeleteUser(u) ==
  /\ IsUser(u)
  /\ user' = [user EXCEPT ![u] = "none"]
  /\ profile' = [profile EXCEPT ![u] = NoProfile]
  /\ req' = Forget([o \in Requests |-> Disturbed(o)], {u})
  /\ UNCHANGED role

\* A statement fails or the server restarts.
Abort(r) ==
  /\ ~ At(r, "idle")
  /\ Finish(r)
  /\ UNCHANGED <<user, profile, role>>

-----------------------------------------------------------------------------
\* The routes of StaffController that write: add, remove and fix-access.
StaffRoutes(r) ==
  \E b \in Bosses, u \in Users :
    (\E k \in Roles : AddStaff(r, b, u, k)) \/ RemoveStaff(r, b, u) \/ FixAccess(r, b, u)

\* These, the route of RolesController that deletes a role, and fix-staff-roles.
Arrive(r) ==
  \/ StaffRoutes(r)
  \/ \E b \in Bosses, k \in Roles : DeleteRole(r, b, k)
  \/ RepairAll(r)

Advance(r) ==
  \/ AddRole(r)
  \/ AddFind(r)
  \/ AddCreate(r)
  \/ AddCheck(r)
  \/ AddPromote(r)
  \/ AddInsert(r)
  \/ RemoveProfile(r)
  \/ RemoveRevert(r)
  \/ Fix(r)
  \/ RepairOne(r)
  \/ RoleCount(r)
  \/ RoleDelete(r)

Around ==
  \/ \E b \in Bosses, k \in Roles : CreateRole(b, k)
  \/ \E u \in Users : PurgeProfile(u) \/ DeleteUser(u)
  \/ \E u \in Users, g \in GlobalRole : Register(u, g)

Next ==
  \/ \E r \in Requests : Arrive(r) \/ Advance(r) \/ Abort(r)
  \/ Around

Spec == Init /\ [][Next]_vars
-----------------------------------------------------------------------------
(* Properties. *)

\* A member of staff is a user, and the role they have is one of their boss's,
\* however the role is checked, deleted and assigned by requests that overlap
\* (addStaff, deleteRole).
RolesAreTheBosses ==
  \A u \in Users : IsStaff(u) => IsUser(u) /\ role[profile[u].role] = profile[u].boss

\* The limit of the plan is counted before the profile is inserted: requests
\* that overlap pass it together, by one less than they are and no more
\* (enforceStaffLimit).
StaffLimitBound ==
  \A b \in Landlords :
    Cardinality(StaffOf(b)) <= MaxStaff + Cardinality(Requests) - 1

\* A request that runs alone, even if it stops half-way, locks no member of staff
\* out: of profile and role, addStaff writes the role first and removeStaff last.
LocksNobodyOut(r) ==
  (Advance(r) \/ Abort(r)) /\ ~ At(r, "idle") /\ req[r].alone =>
    \A u \in Users : IsStaff(u)' /\ ~ LetIn(u)' => IsStaff(u) /\ ~ LetIn(u)

AloneLocksNobodyOut == [][\A r \in Requests : LocksNobodyOut(r)]_vars
=============================================================================

------------------------------ MODULE Accounts ------------------------------
(***************************************************************************)
(* User accounts: register of AuthService, create, update, delete and      *)
(* bulkDelete of LandlordsService and TenantsService, toggleActive and     *)
(* deleteUser of UsersService, and the trash's cases of users.  One step   *)
(* per database statement, one per transaction.                            *)
(*                                                                         *)
(* A user stands for an e-mail address, used once.  Names, passwords, codes*)
(* and changes of the address are no part of the state; global_role stays  *)
(* what it was made (module Staff changes it).  The agreements that        *)
(* deactivation counts and foreign keys look at are signed, activated,     *)
(* billed, ended and deleted, in single steps but for the signing; these   *)
(* steps do what some request of module Leases or of the trash may do.  A  *)
(* landlord's properties are module Premises'; they go with the landlord.  *)
(***************************************************************************)
EXTENDS Integers, FiniteSets

CONSTANTS
  Requests,  \* slots for requests in flight
  Users,     \* users that may come to exist
  Leases,    \* rows of rental_agreements that may come to exist
  None

\* STAFF stands for SAAS_ADMIN, too: to these services the two are alike.
GlobalRole == {"TENANT", "LANDLORD", "STAFF"}

ASSUME AccountsAssumption == None \notin Users \cup GlobalRole

VARIABLES
  account,   \* users, with their landlord profile
  lease,     \* rental_agreements
  req,       \* requests in flight
  stopped    \* users whose registration stopped between its two inserts

vars == <<account, lease, req, stopped>>

-----------------------------------------------------------------------------
NoAccount == [phase |-> "none", role |-> None, profile |-> FALSE]
Account   == [phase : {"none", "active", "inactive", "gone"},
              role : GlobalRole \cup {None}, profile : BOOLEAN]

\* papers: an invoice or the record of a deposit refers to the agreement.
NoLease == [status |-> "none", landlord |-> None, tenant |-> None, papers |-> FALSE]
Lease   == [status : {"none", "DRAFT", "ACTIVE", "OVER", "gone"},
            landlord : Users \cup {None}, tenant : Users \cup {None}, papers : BOOLEAN]

Idle    == [pc |-> "idle", users |-> {}, role |-> None, landlord |-> None,
            value |-> FALSE]
Pcs     == {"idle", "createUser", "createProfile", "createBoth", "setActive", "countLandlord",
            "findLandlords", "suspendLandlords", "countTenant", "suspendTenants",
            "deleteUser", "sign"}
Request == [pc : Pcs, users : SUBSET Users, role : GlobalRole \cup {None},
            landlord : Users \cup {None}, value : BOOLEAN]

TypeOK ==
  /\ account \in [Users -> Account]
  /\ \A u \in Users : account[u].role = None <=> account[u].phase \in {"none", "gone"}
  /\ \A u \in Users : account[u].profile => account[u].role # None
  /\ lease \in [Leases -> Lease]
  /\ req \in [Requests -> Request]
  /\ stopped \subseteq Users

Init ==
  /\ account = [u \in Users |-> NoAccount]
  /\ lease = [l \in Leases |-> NoLease]
  /\ req = [r \in Requests |-> Idle]
  /\ stopped = {}

Exists(u)     == account[u].phase \in {"active", "inactive"}
IsLandlord(u) == account[u].profile
IsTenant(u)   == Exists(u) /\ account[u].role = "TENANT"
Live(l)       == lease[l].status \notin {"none", "gone"}

At(r, pc)   == req[r].pc = pc
Finish(r)   == req' = [req EXCEPT ![r] = Idle]
Goto(r, pc) == req' = [req EXCEPT ![r].pc = pc]

\* A check that throws: the request goes on only if the test holds.
Check(r, test, pc) == IF test THEN Goto(r, pc) ELSE Finish(r)

\* A request comes in.
Begin(r, new) == At(r, "idle") /\ req' = [req EXCEPT ![r] = new]

-----------------------------------------------------------------------------
(* register, and create of landlords and tenants: is there a user with the *)
(* address; if not, the password is hashed and the user inserted.           *)

Fresh(u) == account[u].phase = "none"

NewAccount(g) == [phase |-> "active", role |-> g, profile |-> FALSE]

Register(r, u, g) ==
  /\ Fresh(u)
  /\ Begin(r, [Idle EXCEPT !.pc = "createUser", !.users = {u}, !.role = g])
  /\ UNCHANGED <<account, lease, stopped>>

CreateTenant(r, u) == Register(r, u, "TENANT")

CreateLandlord(r, u) ==
  /\ Fresh(u)
  /\ Begin(r, [Idle EXCEPT !.pc = "createBoth", !.users = {u}])
  /\ UNCHANGED <<account, lease, stopped>>

\* The address is unique; the profile is another insert.
CreateUser(r) ==
  \E u \in req[r].users :
    /\ At(r, "createUser")
    /\ account' = IF Fresh(u) THEN [account EXCEPT ![u] = NewAccount(req[r].role)]
                  ELSE account
    /\ Check(r, Fresh(u) /\ req[r].role = "LANDLORD", "createProfile")
    /\ UNCHANGED <<lease, stopped>>

CreateProfile(r) ==
  \E u \in req[r].users :
    /\ At(r, "createProfile")
    /\ account' = IF Exists(u) THEN [account EXCEPT ![u].profile = TRUE] ELSE account
    /\ Finish(r)
    /\ UNCHANGED <<lease, stopped>>

\* Mutant: the transaction commits without the profile.
BothAccount_NoProfile == NewAccount("LANDLORD")

BothAccount == [NewAccount("LANDLORD") EXCEPT !.profile = TRUE]

CreateBoth(r) ==
  \E u \in req[r].users :
    /\ At(r, "createBoth")
    /\ account' = IF Fresh(u) THEN [account EXCEPT ![u] = BothAccount] ELSE account
    /\ Finish(r)
    /\ UNCHANGED <<lease, stopped>>

-----------------------------------------------------------------------------
(* Deactivation *)

\* toggleActive, and update of a tenant, look at no agreement.
SetActive(r, u, value) ==
  /\ Begin(r, [Idle EXCEPT !.pc = "setActive", !.users = {u}, !.value = value])
  /\ UNCHANGED <<account, lease, stopped>>

ToggleActive(r, u, value) == Exists(u) /\ SetActive(r, u, value)
UpdateTenant(r, u, value) == IsTenant(u) /\ SetActive(r, u, value)

\* Mutant: a user who is gone by now comes back.
WithPhase_Upsert(S, phase) ==
  [u \in Users |-> IF u \in S THEN [account[u] EXCEPT !.phase = phase] ELSE account[u]]

WithPhase(S, phase) ==
  [u \in Users |-> IF u \in S /\ Exists(u) THEN [account[u] EXCEPT !.phase = phase]
                   ELSE account[u]]

WriteActive(r) ==
  /\ At(r, "setActive")
  /\ account' = WithPhase(req[r].users, IF req[r].value THEN "active" ELSE "inactive")
  /\ Finish(r)
  /\ UNCHANGED <<lease, stopped>>

LetBy(S) == {l \in Leases : lease[l].landlord \in S}
LetTo(S) == {l \in Leases : lease[l].tenant \in S}

NoneActive(C) == \A l \in C : lease[l].status # "ACTIVE"

DeleteLandlord(r, u) ==
  /\ IsLandlord(u)
  /\ Begin(r, [Idle EXCEPT !.pc = "countLandlord", !.users = {u}])
  /\ UNCHANGED <<account, lease, stopped>>

CountLandlord(r) ==
  /\ At(r, "countLandlord")
  /\ Check(r, NoneActive(LetBy(req[r].users)), "suspendLandlords")
  /\ UNCHANGED <<account, lease, stopped>>

\* In bulk, agreements are counted before the landlords are looked up.
DeleteLandlords(r, S) ==
  /\ NoneActive(LetBy(S))
  /\ Begin(r, [Idle EXCEPT !.pc = "findLandlords", !.users = S])
  /\ UNCHANGED <<account, lease, stopped>>

FindLandlords(r) ==
  /\ At(r, "findLandlords")
  /\ req' = [req EXCEPT ![r].pc = "suspendLandlords",
                        ![r].users = {u \in @ : IsLandlord(u)}]
  /\ UNCHANGED <<account, lease, stopped>>

SuspendLandlords(r) ==
  /\ At(r, "suspendLandlords")
  /\ account' = WithPhase(req[r].users, "inactive")
  /\ Finish(r)
  /\ UNCHANGED <<lease, stopped>>

DeleteTenant(r, u) ==
  /\ IsTenant(u)
  /\ Begin(r, [Idle EXCEPT !.pc = "countTenant", !.users = {u}])
  /\ UNCHANGED <<account, lease, stopped>>

CountTenant(r) ==
  /\ At(r, "countTenant")
  /\ Check(r, NoneActive(LetTo(req[r].users)), "suspendTenants")
  /\ UNCHANGED <<account, lease, stopped>>

DeleteTenants(r, S) ==
  /\ NoneActive(LetTo(S))
  /\ Begin(r, [Idle EXCEPT !.pc = "suspendTenants", !.users = S])
  /\ UNCHANGED <<account, lease, stopped>>

SuspendTenants(r) ==
  /\ At(r, "suspendTenants")
  /\ account' = WithPhase({u \in req[r].users : IsTenant(u)}, "inactive")
  /\ Finish(r)
  /\ UNCHANGED <<lease, stopped>>

-----------------------------------------------------------------------------
(* Deletion for good: deleteUser, and the trash, which restores or deletes  *)
(* any user, inactive or not.                                               *)

Restore(u) ==
  /\ Exists(u)
  /\ account' = WithPhase({u}, "active")
  /\ UNCHANGED <<lease, req, stopped>>

\* No agreement but those in C, deleted before, names the user.
Released(u, C) == \A l \in Leases \ C : Live(l) => u \notin {lease[l].landlord, lease[l].tenant}

\* Mutant: invoices and deposits go with their agreement.
KeysAllow_Cascade(u, C) == Released(u, C)

KeysAllow(u, C) == Released(u, C) /\ \A l \in C : ~ lease[l].papers

\* Mutant: the landlord profile stays.
Erased_Profile(u) == [account[u] EXCEPT !.phase = "gone", !.role = None]

Erased(u) == [NoAccount EXCEPT !.phase = "gone"]

Without(C) == [l \in Leases |-> IF l \in C THEN [NoLease EXCEPT !.status = "gone"]
                               ELSE lease[l]]

\* The user goes with the landlord profile, and the agreements C before them.
Erase(u, C) ==
  IF Exists(u) /\ KeysAllow(u, C)
    THEN /\ account' = [account EXCEPT ![u] = Erased(u)]
         /\ lease' = Without(C)
    ELSE UNCHANGED <<account, lease>>

DeleteUser(r, u) ==
  /\ NoneActive(LetTo({u}))
  /\ Begin(r, [Idle EXCEPT !.pc = "deleteUser", !.users = {u}])
  /\ UNCHANGED <<account, lease, stopped>>

EraseUser(r) ==
  /\ At(r, "deleteUser")
  /\ \E u \in req[r].users : Erase(u, {})
  /\ Finish(r)
  /\ UNCHANGED stopped

Purge(u, C) ==
  /\ Exists(u)
  /\ Erase(u, C)
  /\ UNCHANGED <<req, stopped>>

DoomedOfLandlord(u) == IF IsLandlord(u) THEN LetBy({u}) ELSE {}

PurgeUser(u)     == Purge(u, {})
PurgeLandlord(u) == Purge(u, DoomedOfLandlord(u))
PurgeTenant(u)   == Purge(u, LetTo({u}))

\* A statement fails or the server restarts.
Abort(r) ==
  /\ ~ At(r, "idle")
  /\ stopped' = IF At(r, "createProfile") THEN stopped \cup req[r].users ELSE stopped
  /\ Finish(r)
  /\ UNCHANGED <<account, lease>>

-----------------------------------------------------------------------------
(* What the agreements do meanwhile.                                        *)

\* The tenant is looked up, active, by a first statement; others follow.
SignStart(r, b, t) ==
  /\ IsLandlord(b)
  /\ IsTenant(t) /\ account[t].phase = "active"
  /\ Begin(r, [Idle EXCEPT !.pc = "sign", !.users = {t}, !.landlord = b])
  /\ UNCHANGED <<account, lease, stopped>>

Sign(r) ==
  \E t \in req[r].users, l \in Leases :
    LET b == req[r].landlord IN
    /\ At(r, "sign")
    /\ lease[l].status = "none"
    /\ lease' = IF Exists(t) /\ IsLandlord(b)
                  THEN [lease EXCEPT ![l] = [status |-> "DRAFT", landlord |-> b,
                                             tenant |-> t, papers |-> FALSE]]
                  ELSE lease
    /\ Finish(r)
    /\ UNCHANGED <<account, stopped>>

Change(l, new) ==
  /\ Live(l)
  /\ lease' = [lease EXCEPT ![l] = new]
  /\ UNCHANGED <<account, req, stopped>>

\* The DRAFT was read before: this write may meet a later status.
Activate(l) == Change(l, [lease[l] EXCEPT !.status = "ACTIVE"])

\* By hand, whatever the status.
Bill(l) == Change(l, [lease[l] EXCEPT !.papers = TRUE])

\* Notice or expiry, or termination with the record of a deposit.
End(l, refund) ==
  /\ lease[l].status \in {"ACTIVE", "OVER"}
  /\ Change(l, [lease[l] EXCEPT !.status = "OVER", !.papers = @ \/ refund])

\* The trash deletes an agreement with all that refers to it, or those of a room,
\* a floor or a property with their invoices.
DeleteLeases(C) ==
  /\ \A l \in C : Live(l)
  /\ lease' = Without(C)
  /\ UNCHANGED <<account, req, stopped>>

-----------------------------------------------------------------------------
\* The routes of LandlordsController, TenantsController and UsersController that
\* create, suspend or delete accounts. The model leaves out the columns that the
\* remaining ones change: names, bank details, the password.
LandlordRoutes(r) ==
  \/ \E u \in Users : CreateLandlord(r, u) \/ DeleteLandlord(r, u)
  \/ \E S \in SUBSET Users : DeleteLandlords(r, S)

TenantRoutes(r) ==
  \/ \E u \in Users : CreateTenant(r, u) \/ DeleteTenant(r, u)
  \/ \E u \in Users, v \in BOOLEAN : UpdateTenant(r, u, v)
  \/ \E S \in SUBSET Users : DeleteTenants(r, S)

UserRoutes(r) ==
  \E u \in Users : DeleteUser(r, u) \/ \E v \in BOOLEAN : ToggleActive(r, u, v)

\* These, registration, and the lease an invited tenant signs.
Arrive(r) ==
  \/ \E u \in Users, g \in GlobalRole : Register(r, u, g)
  \/ LandlordRoutes(r) \/ TenantRoutes(r) \/ UserRoutes(r)
  \/ \E b, t \in Users : SignStart(r, b, t)

Advance(r) ==
  \/ CreateUser(r)
  \/ CreateProfile(r)
  \/ CreateBoth(r)
  \/ WriteActive(r)
  \/ CountLandlord(r)
  \/ FindLandlords(r)
  \/ SuspendLandlords(r)
  \/ CountTenant(r)
  \/ SuspendTenants(r)
  \/ EraseUser(r)
  \/ Sign(r)

LeaseStep(l) == Activate(l) \/ Bill(l) \/ (\E refund \in BOOLEAN : End(l, refund))

Trash(u) == Restore(u) \/ PurgeUser(u) \/ PurgeLandlord(u) \/ PurgeTenant(u)

Next ==
  \/ \E r \in Requests : Arrive(r) \/ Advance(r) \/ Abort(r)
  \/ \E u \in Users : Trash(u)
  \/ \E l \in Leases : LeaseStep(l)
  \/ \E C \in SUBSET Leases : DeleteLeases(C)

Spec == Init /\ [][Next]_vars
-----------------------------------------------------------------------------
(* Properties. *)

\* A LANDLORD without a landlord profile, for whom every page of the portal fails
\* and whose address is taken, comes only of a registration that is under way or
\* was stopped: create and the deletions write both or none.
HalfMadeOnlyByStop ==
  \A u \in Users :
    Exists(u) /\ account[u].role = "LANDLORD" /\ ~ IsLandlord(u) =>
      \/ u \in stopped
      \/ \E r \in Requests : At(r, "createProfile") /\ u \in req[r].users

\* When a user is deleted for good, by whichever of the five ways, no agreement
\* with an invoice or the record of a deposit goes along, theirs or not: only the
\* foreign keys of the schema see to it.
Leaves(u) == account[u].phase # "gone" /\ account'[u].phase = "gone"

PapersOutliveAccounts ==
  [][(\E u \in Users : Leaves(u)) => \A l \in Leases : lease[l].papers => lease'[l].papers]_vars

\* The trash deletes a user once, with all their agreements, or nothing; an
\* agreement may be deleted without them.
Soft == INSTANCE SoftDelete WITH
  Items   <- Users,
  Below   <- [u \in Users |-> {u}],
  Records <- Leases,
  phase   <- [u \in Users |-> CASE account[u].phase = "active" -> "listed"
                                [] account[u].phase = "inactive" -> "archived"
                                [] OTHER -> account[u].phase],
  anchors <- [l \in Leases |-> IF Live(l) THEN {lease[l].landlord, lease[l].tenant} ELSE {}]

ImplementsSoftDelete == Soft!Spec
=============================================================================

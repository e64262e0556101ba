--------------------------- MODULE AccountsProofs ---------------------------
(***************************************************************************)
(* Theorems about Accounts for any requests, users and agreements.         *)
(***************************************************************************)
EXTENDS Accounts, TLAPS

\* The program counters of requests that are about one user.
OneUserPcs == {"createUser", "createProfile", "createBoth", "setActive"}

\* What a request has in hand.
Sound(q) ==
  /\ q.pc \in OneUserPcs => \A u, v \in q.users : u = v
  /\ q.pc = "createUser" => q.role \in GlobalRole
  /\ q.pc = "sign" => q.landlord \in Users

RequestInv == \A r \in Requests : Sound(req[r])

\* An agreement that is not there is the empty record.
LeaseInv ==
  \A l \in Leases : ~ Live(l) =>
    lease[l].landlord = None /\ lease[l].tenant = None /\ lease[l].papers = FALSE

\* What every step relies on; HalfMadeOnlyByStop is preserved given this.
Base == TypeOK /\ RequestInv /\ LeaseInv

IInv == Base /\ HalfMadeOnlyByStop

-----------------------------------------------------------------------------
(* Records of requests. *)

OthersKeep(r) == \A o \in Requests \ {r} : req'[o] = req[o]

\* Request r alone takes a step, after which it is sound.
Handles(r) == req' \in [Requests -> Request] /\ OthersKeep(r) /\ Sound(req'[r])

LEMMA IdleTyped == Idle \in Request /\ Idle.pc = "idle" /\ Sound(Idle)
  BY DEF Idle, Request, Pcs, Sound, OneUserPcs

LEMMA BeginStep ==
  ASSUME TypeOK, NEW r \in Requests, NEW new \in Request, Sound(new), Begin(r, new)
  PROVE  Handles(r)
  BY DEF TypeOK, Begin, Handles, OthersKeep

LEMMA FinishStep ==
  ASSUME TypeOK, NEW r \in Requests, Finish(r)
  PROVE  Handles(r) /\ req'[r] = Idle
  BY IdleTyped DEF TypeOK, Finish, OthersKeep, Handles

LEMMA GotoStep ==
  ASSUME TypeOK, NEW r \in Requests, NEW pc \in Pcs, Goto(r, pc)
  PROVE  /\ req' \in [Requests -> Request] /\ OthersKeep(r)
         /\ req'[r].pc = pc
         /\ req'[r].users = req[r].users
         /\ req'[r].role = req[r].role
         /\ req'[r].landlord = req[r].landlord
<1>1. [req[r] EXCEPT !.pc = pc] \in Request
  BY DEF TypeOK, Request
<1>2. req' = [req EXCEPT ![r] = [req[r] EXCEPT !.pc = pc]]
  BY DEF Goto, TypeOK
<1>3. req[r] \in Request
  BY DEF TypeOK
<1> QED
  BY <1>1, <1>2, <1>3 DEF TypeOK, OthersKeep, Request

\* A check on the way to a statement about several users.
LEMMA CheckStep ==
  ASSUME TypeOK, NEW r \in Requests, NEW test, NEW pc \in {"suspendLandlords", "suspendTenants"},
         Check(r, test, pc)
  PROVE  Handles(r)
<1>1. CASE Finish(r)
  BY <1>1, FinishStep
<1>2. CASE Goto(r, pc)
  <2>1. pc \in Pcs
    BY DEF Pcs
  <2> QED
    BY <1>2, <2>1, GotoStep DEF Handles, Sound, OneUserPcs
<1> QED
  BY <1>1, <1>2 DEF Check

-----------------------------------------------------------------------------
(* Who takes a step. *)

LEMMA ArriveStep ==
  ASSUME Base, NEW r \in Requests, Arrive(r)
  PROVE  Handles(r) /\ At(r, "idle") /\ UNCHANGED <<account, lease, stopped>>
<1> SUFFICES \E new \in Request : Sound(new) /\ Begin(r, new) /\ UNCHANGED <<account, lease, stopped>>
  BY BeginStep DEF Base, Begin
<1> USE DEF Idle, Request, Pcs, Sound, OneUserPcs
<1>1. CASE \E u \in Users, g \in GlobalRole : Register(r, u, g)
  BY <1>1 DEF Register
<1>2. CASE \E u \in Users : CreateTenant(r, u)
  BY <1>2 DEF CreateTenant, Register, GlobalRole
<1>3. CASE \E u \in Users : CreateLandlord(r, u)
  BY <1>3 DEF CreateLandlord
<1>4. CASE \E u \in Users, v \in BOOLEAN : ToggleActive(r, u, v) \/ UpdateTenant(r, u, v)
  BY <1>4 DEF ToggleActive, UpdateTenant, SetActive
<1>5. CASE \E u \in Users : DeleteLandlord(r, u)
  BY <1>5 DEF DeleteLandlord
<1>6. CASE \E u \in Users : DeleteTenant(r, u)
  BY <1>6 DEF DeleteTenant
<1>7. CASE \E u \in Users : DeleteUser(r, u)
  BY <1>7 DEF DeleteUser
<1>8. CASE \E S \in SUBSET Users : DeleteLandlords(r, S)
  BY <1>8 DEF DeleteLandlords
<1>9. CASE \E S \in SUBSET Users : DeleteTenants(r, S)
  BY <1>9 DEF DeleteTenants
<1>10. CASE \E b, t \in Users : SignStart(r, b, t)
  BY <1>10 DEF SignStart
<1> QED
  BY <1>1, <1>2, <1>3, <1>4, <1>5, <1>6, <1>7, <1>8, <1>9, <1>10
  DEF Arrive, LandlordRoutes, TenantRoutes, UserRoutes

LEMMA CreateUserTask ==
  ASSUME Base, NEW r \in Requests, CreateUser(r)
  PROVE  /\ Handles(r)
         /\ \A u \in req[r].users : Fresh(u) /\ req[r].role = "LANDLORD" =>
              req'[r].pc = "createProfile" /\ req'[r].users = req[r].users
<1> PICK u \in req[r].users :
      At(r, "createUser") /\ Check(r, Fresh(u) /\ req[r].role = "LANDLORD", "createProfile")
  BY DEF CreateUser
<1>1. \A v \in req[r].users : v = u
  BY DEF Base, RequestInv, Sound, OneUserPcs, At
<1>2. CASE Fresh(u) /\ req[r].role = "LANDLORD"
  <2>1. Goto(r, "createProfile") /\ "createProfile" \in Pcs
    BY <1>2 DEF Check, Pcs
  <2> QED
    BY <1>1, <2>1, GotoStep DEF Base, Handles, Sound
<1>3. CASE ~ (Fresh(u) /\ req[r].role = "LANDLORD")
  BY <1>1, <1>3, FinishStep DEF Base, Check
<1> QED
  BY <1>2, <1>3

LEMMA FindLandlordsTask ==
  ASSUME Base, NEW r \in Requests, FindLandlords(r)
  PROVE  Handles(r)
<1> DEFINE q == [req[r] EXCEPT !.pc = "suspendLandlords",
                               !.users = {u \in req[r].users : IsLandlord(u)}]
<1>1. req[r] \in Request
  BY DEF Base, TypeOK
<1>2. q \in Request /\ q.pc = "suspendLandlords"
  BY <1>1 DEF Request, Pcs
<1>3. req' = [req EXCEPT ![r] = q]
  BY DEF FindLandlords, Base, TypeOK
<1> HIDE DEF q
<1> QED
  BY <1>2, <1>3 DEF Base, TypeOK, Handles, OthersKeep, Sound, OneUserPcs

LEMMA AdvanceTask ==
  ASSUME Base, NEW r \in Requests, Advance(r) \/ Abort(r)
  PROVE  Handles(r)
<1> USE DEF Base
<1>1. CASE CreateUser(r)
  BY <1>1, CreateUserTask
<1>2. CASE CreateProfile(r)
  BY <1>2, FinishStep DEF CreateProfile
<1>3. CASE CreateBoth(r)
  BY <1>3, FinishStep DEF CreateBoth
<1>4. CASE WriteActive(r)
  BY <1>4, FinishStep DEF WriteActive
<1>5. CASE CountLandlord(r)
  BY <1>5, CheckStep DEF CountLandlord
<1>6. CASE FindLandlords(r)
  BY <1>6, FindLandlordsTask
<1>7. CASE SuspendLandlords(r)
  BY <1>7, FinishStep DEF SuspendLandlords
<1>8. CASE CountTenant(r)
  BY <1>8, CheckStep DEF CountTenant
<1>9. CASE SuspendTenants(r)
  BY <1>9, FinishStep DEF SuspendTenants
<1>10. CASE EraseUser(r)
  BY <1>10, FinishStep DEF EraseUser
<1>11. CASE Sign(r)
  BY <1>11, FinishStep DEF Sign
<1>12. CASE Abort(r)
  BY <1>12, FinishStep DEF Abort
<1> QED
  BY <1>1, <1>2, <1>3, <1>4, <1>5, <1>6, <1>7, <1>8, <1>9, <1>10, <1>11, <1>12 DEF Advance

LEMMA OtherTask ==
  ASSUME \/ \E u \in Users : Trash(u)
         \/ \E l \in Leases : LeaseStep(l)
         \/ \E C \in SUBSET Leases : DeleteLeases(C)
  PROVE  UNCHANGED <<req, stopped>>
  BY DEF Trash, Restore, PurgeUser, PurgeLandlord, PurgeTenant, Purge,
         LeaseStep, Activate, Bill, End, Change, DeleteLeases

LEMMA RequestStep ==
  ASSUME Base, Next
  PROVE  req' \in [Requests -> Request] /\ RequestInv'
<1>1. CASE \E r \in Requests : Handles(r)
  BY <1>1 DEF Base, Handles, OthersKeep, RequestInv
<1>2. CASE UNCHANGED req
  BY <1>2 DEF Base, TypeOK, RequestInv
<1> QED
  BY <1>1, <1>2, ArriveStep, AdvanceTask, OtherTask DEF Next

-----------------------------------------------------------------------------
(* What a step does to an account and to an agreement. *)

Made(u)      == \E g \in GlobalRole : account'[u] = NewAccount(g)
Switched(u)  == \E p \in {"active", "inactive"} : account'[u] = [account[u] EXCEPT !.phase = p]
Completed(u) == account'[u] = [account[u] EXCEPT !.profile = TRUE]

Evolves(u) ==
  \/ account'[u] = account[u]
  \/ Fresh(u) /\ (Made(u) \/ account'[u] = BothAccount)
  \/ Exists(u) /\ (Switched(u) \/ Completed(u) \/ account'[u] = Erased(u))

AccountsEvolve == account' = [u \in Users |-> account'[u]] /\ \A u \in Users : Evolves(u)

Signed(l) ==
  \E b, t \in Users :
    lease'[l] = [status |-> "DRAFT", landlord |-> b, tenant |-> t, papers |-> FALSE]

\* The agreement goes on with the same parties and no less paper.
Proceeds(l) ==
  /\ lease'[l] \in Lease
  /\ lease'[l].status \in {"DRAFT", "ACTIVE", "OVER"}
  /\ lease'[l].landlord = lease[l].landlord
  /\ lease'[l].tenant = lease[l].tenant
  /\ lease[l].papers => lease'[l].papers

Shredded(l) == lease'[l] = [NoLease EXCEPT !.status = "gone"]

Moves(l) ==
  \/ lease'[l] = lease[l]
  \/ ~ Live(l) /\ Signed(l)
  \/ Live(l) /\ Proceeds(l)
  \/ Shredded(l)

LeasesMove == lease' = [l \in Leases |-> lease'[l]] /\ \A l \in Leases : Moves(l)

PapersKept == \A l \in Leases : lease[l].papers => lease'[l].papers

LEMMA WithoutMoves ==
  ASSUME NEW C \in SUBSET Leases, lease' = Without(C)
  PROVE  LeasesMove
  BY DEF Without, LeasesMove, Moves, Shredded

LEMMA NothingChanges ==
  ASSUME Base
  PROVE  /\ UNCHANGED account => AccountsEvolve
         /\ UNCHANGED lease => LeasesMove
  BY DEF Base, TypeOK, AccountsEvolve, Evolves, LeasesMove, Moves

LEMMA CreateUserEvolves ==
  ASSUME Base, NEW r \in Requests, CreateUser(r)
  PROVE  AccountsEvolve /\ UNCHANGED lease
<1> PICK u \in req[r].users :
      /\ At(r, "createUser")
      /\ account' = IF Fresh(u) THEN [account EXCEPT ![u] = NewAccount(req[r].role)] ELSE account
  BY DEF CreateUser
<1>1. req[r].role \in GlobalRole /\ u \in Users
  BY DEF Base, RequestInv, Sound, At, TypeOK, Request
<1> QED
  BY <1>1, NothingChanges DEF CreateUser, Base, TypeOK, AccountsEvolve, Evolves, Made

LEMMA CreateProfileEvolves ==
  ASSUME Base, NEW r \in Requests, CreateProfile(r)
  PROVE  AccountsEvolve /\ UNCHANGED lease
<1> PICK u \in req[r].users :
      account' = IF Exists(u) THEN [account EXCEPT ![u].profile = TRUE] ELSE account
  BY DEF CreateProfile
<1>1. u \in Users
  BY DEF Base, TypeOK, Request
<1>2. CASE Exists(u)
  <2>1. account' = [account EXCEPT ![u] = [account[u] EXCEPT !.profile = TRUE]]
    BY <1>2 DEF Base, TypeOK
  <2> QED
    BY <1>1, <1>2, <2>1 DEF CreateProfile, Base, TypeOK, AccountsEvolve, Evolves, Completed
<1> QED
  BY <1>2, NothingChanges DEF CreateProfile

LEMMA CreateBothEvolves ==
  ASSUME Base, NEW r \in Requests, CreateBoth(r)
  PROVE  AccountsEvolve /\ UNCHANGED lease
<1> PICK u \in req[r].users :
      account' = IF Fresh(u) THEN [account EXCEPT ![u] = BothAccount] ELSE account
  BY DEF CreateBoth
<1> QED
  BY NothingChanges DEF CreateBoth, Base, TypeOK, AccountsEvolve, Evolves

LEMMA WithPhaseEvolves ==
  ASSUME Base, NEW S, NEW p \in {"active", "inactive"}, account' = WithPhase(S, p)
  PROVE  AccountsEvolve
<1>1. account' = [u \in Users |-> IF u \in S /\ Exists(u) THEN [account[u] EXCEPT !.phase = p]
                                  ELSE account[u]]
  BY DEF WithPhase
<1> QED
  BY <1>1 DEF AccountsEvolve, Evolves, Switched

\* The agreements that a deletion for good takes along have no papers.
LEMMA EraseMoves ==
  ASSUME Base, NEW u \in Users, NEW C \in SUBSET Leases, Erase(u, C)
  PROVE  AccountsEvolve /\ LeasesMove /\ PapersKept
<1>1. CASE Exists(u) /\ KeysAllow(u, C)
  <2>1. account' = [account EXCEPT ![u] = Erased(u)] /\ lease' = Without(C)
    BY <1>1 DEF Erase
  <2>2. AccountsEvolve
    BY <1>1, <2>1 DEF Base, TypeOK, AccountsEvolve, Evolves
  <2>3. \A l \in Leases : l \notin C => lease'[l] = lease[l]
    BY <2>1 DEF Without
  <2>4. PapersKept
    BY <1>1, <2>3 DEF KeysAllow, PapersKept
  <2> QED
    BY <2>1, <2>2, <2>4, WithoutMoves
<1>2. CASE ~ (Exists(u) /\ KeysAllow(u, C))
  BY <1>2, NothingChanges DEF Erase, PapersKept
<1> QED
  BY <1>1, <1>2

\* In the trash, a user is deleted with the agreements C, all of them theirs.
PurgeOf(u, C) == C \subseteq {l \in Leases : u \in {lease[l].landlord, lease[l].tenant}}

LEMMA TrashCases ==
  ASSUME NEW u \in Users, Trash(u)
  PROVE  Restore(u) \/ \E C \in SUBSET Leases : PurgeOf(u, C) /\ Purge(u, C)
  BY DEF Trash, PurgeUser, PurgeLandlord, PurgeTenant, PurgeOf, DoomedOfLandlord, LetBy, LetTo

LEMMA SignMoves ==
  ASSUME Base, NEW r \in Requests, Sign(r)
  PROVE  LeasesMove /\ UNCHANGED account
<1> PICK t \in req[r].users, l \in Leases :
      /\ At(r, "sign")
      /\ lease[l].status = "none"
      /\ lease' = IF Exists(t) /\ IsLandlord(req[r].landlord)
                    THEN [lease EXCEPT ![l] = [status |-> "DRAFT", landlord |-> req[r].landlord,
                                               tenant |-> t, papers |-> FALSE]]
                    ELSE lease
  BY DEF Sign
<1>1. t \in Users /\ req[r].landlord \in Users
  BY DEF Base, RequestInv, Sound, At, TypeOK, Request
<1> QED
  BY <1>1, NothingChanges DEF Sign, Base, TypeOK, Live, LeasesMove, Moves, Signed

LEMMA LeaseStepProceeds ==
  ASSUME Base, NEW l \in Leases, LeaseStep(l)
  PROVE  /\ Live(l) /\ Proceeds(l)
         /\ \A k \in Leases \ {l} : lease'[k] = lease[k]
         /\ lease' = [k \in Leases |-> lease'[k]]
         /\ UNCHANGED account
<1>1. lease[l] \in Lease
  BY DEF Base, TypeOK
<1>2. ASSUME NEW new \in Lease, new.status \in {"DRAFT", "ACTIVE", "OVER"},
             new.landlord = lease[l].landlord, new.tenant = lease[l].tenant,
             lease[l].papers => new.papers, Change(l, new)
      PROVE  /\ Live(l) /\ Proceeds(l)
             /\ \A k \in Leases \ {l} : lease'[k] = lease[k]
             /\ lease' = [k \in Leases |-> lease'[k]]
             /\ UNCHANGED account
  BY <1>2 DEF Change, Base, TypeOK, Proceeds
<1>3. CASE Activate(l)
  <2> DEFINE new == [lease[l] EXCEPT !.status = "ACTIVE"]
  <2>1. /\ new \in Lease /\ new.status = "ACTIVE" /\ new.papers = lease[l].papers
        /\ new.landlord = lease[l].landlord /\ new.tenant = lease[l].tenant
    BY <1>1 DEF Lease
  <2>2. Change(l, new)
    BY <1>3 DEF Activate
  <2> HIDE DEF new
  <2> QED
    BY <1>2, <2>1, <2>2
<1>4. CASE Bill(l)
  <2> DEFINE new == [lease[l] EXCEPT !.papers = TRUE]
  <2>1. /\ new \in Lease /\ new.status = lease[l].status /\ new.papers
        /\ new.landlord = lease[l].landlord /\ new.tenant = lease[l].tenant
    BY <1>1 DEF Lease
  <2>2. Change(l, new)
    BY <1>4 DEF Bill
  <2>3. lease[l].status \in {"DRAFT", "ACTIVE", "OVER"}
    BY <1>1, <1>4 DEF Bill, Change, Live, Lease
  <2> HIDE DEF new
  <2> QED
    BY <1>2, <2>1, <2>2, <2>3
<1>5. ASSUME NEW refund \in BOOLEAN, End(l, refund)
      PROVE  \E new \in Lease :
               /\ new.status = "OVER" /\ (lease[l].papers => new.papers)
               /\ new.landlord = lease[l].landlord /\ new.tenant = lease[l].tenant
               /\ Change(l, new)
  <2> DEFINE new == [lease[l] EXCEPT !.status = "OVER", !.papers = lease[l].papers \/ refund]
  <2>1. /\ new \in Lease /\ new.status = "OVER" /\ (lease[l].papers => new.papers)
        /\ new.landlord = lease[l].landlord /\ new.tenant = lease[l].tenant
    BY <1>1 DEF Lease
  <2>2. Change(l, new)
    BY <1>5 DEF End
  <2> HIDE DEF new
  <2> QED
    BY <2>1, <2>2
<1>6. CASE \E refund \in BOOLEAN : End(l, refund)
  BY <1>2, <1>5, <1>6
<1> QED
  BY <1>3, <1>4, <1>6 DEF LeaseStep

LEMMA LeaseStepMoves ==
  ASSUME Base, NEW l \in Leases, LeaseStep(l)
  PROVE  LeasesMove /\ UNCHANGED account
  BY LeaseStepProceeds DEF LeasesMove, Moves

LEMMA TablesStep ==
  ASSUME Base, Next
  PROVE  AccountsEvolve /\ LeasesMove /\ (UNCHANGED account \/ PapersKept)
<1> USE NothingChanges DEF PapersKept
<1>1. CASE \E r \in Requests : Arrive(r)
  BY <1>1, ArriveStep
<1>2. ASSUME NEW r \in Requests, Advance(r)
      PROVE  AccountsEvolve /\ LeasesMove /\ (UNCHANGED account \/ PapersKept)
  <2>1. CASE CreateUser(r)
    BY <2>1, CreateUserEvolves
  <2>2. CASE CreateProfile(r)
    BY <2>2, CreateProfileEvolves
  <2>3. CASE CreateBoth(r)
    BY <2>3, CreateBothEvolves
  <2>4. CASE WriteActive(r)
    <3>1. (IF req[r].value THEN "active" ELSE "inactive") \in {"active", "inactive"}
      OBVIOUS
    <3> QED
      BY <2>4, <3>1, WithPhaseEvolves DEF WriteActive
  <2>5. CASE CountLandlord(r) \/ FindLandlords(r) \/ CountTenant(r)
    BY <2>5 DEF CountLandlord, FindLandlords, CountTenant
  <2>6. CASE SuspendLandlords(r)
    BY <2>6, WithPhaseEvolves DEF SuspendLandlords
  <2>7. CASE SuspendTenants(r)
    BY <2>7, WithPhaseEvolves DEF SuspendTenants
  <2>8. CASE EraseUser(r)
    <3>1. req[r].users \subseteq Users
      BY DEF Base, TypeOK, Request
    <3> QED
      BY <2>8, <3>1, EraseMoves DEF EraseUser
  <2>9. CASE Sign(r)
    BY <2>9, SignMoves
  <2> QED
    BY <1>2, <2>1, <2>2, <2>3, <2>4, <2>5, <2>6, <2>7, <2>8, <2>9 DEF Advance
<1>3. CASE \E r \in Requests : Abort(r)
  BY <1>3 DEF Abort
<1>4. CASE \E u \in Users : Restore(u)
  BY <1>4, WithPhaseEvolves DEF Restore
<1>5. CASE \E u \in Users, C \in SUBSET Leases : Purge(u, C)
  BY <1>5, EraseMoves DEF Purge
<1>6. CASE \E l \in Leases : LeaseStep(l)
  BY <1>6, LeaseStepMoves
<1>7. CASE \E C \in SUBSET Leases : DeleteLeases(C)
  BY <1>7, WithoutMoves DEF DeleteLeases
<1> QED
  BY <1>1, <1>2, <1>3, <1>4, <1>5, <1>6, <1>7, TrashCases DEF Next

-----------------------------------------------------------------------------
(* Types. *)

LEMMA AccountsTyped ==
  ASSUME Base, AccountsEvolve
  PROVE  /\ account' \in [Users -> Account]
         /\ \A u \in Users : account'[u].role = None <=> account'[u].phase \in {"none", "gone"}
         /\ \A u \in Users : account'[u].profile => account'[u].role # None
<1> SUFFICES ASSUME NEW u \in Users
             PROVE  /\ account'[u] \in Account
                    /\ account'[u].role = None <=> account'[u].phase \in {"none", "gone"}
                    /\ account'[u].profile => account'[u].role # None
  BY DEF AccountsEvolve
<1>1. /\ account[u] \in Account
      /\ account[u].role = None <=> account[u].phase \in {"none", "gone"}
      /\ account[u].profile => account[u].role # None
  BY DEF Base, TypeOK
<1>2. None \notin GlobalRole
  BY AccountsAssumption
<1>3. Evolves(u)
  BY DEF AccountsEvolve
<1> USE DEF Account
<1>4. CASE account'[u] = account[u]
  BY <1>1, <1>4
<1>5. CASE Made(u)
  BY <1>2, <1>5 DEF Made, NewAccount
<1>6. CASE account'[u] = BothAccount
  BY <1>2, <1>6 DEF BothAccount, NewAccount, GlobalRole
<1>7. CASE Exists(u) /\ Switched(u)
  BY <1>1, <1>7 DEF Exists, Switched
<1>8. CASE Exists(u) /\ Completed(u)
  BY <1>1, <1>8 DEF Exists, Completed
<1>9. CASE account'[u] = Erased(u)
  BY <1>9 DEF Erased, NoAccount
<1> QED
  BY <1>3, <1>4, <1>5, <1>6, <1>7, <1>8, <1>9 DEF Evolves

LEMMA LeasesTyped ==
  ASSUME Base, LeasesMove
  PROVE  lease' \in [Leases -> Lease] /\ LeaseInv'
<1> SUFFICES ASSUME NEW l \in Leases
             PROVE  /\ lease'[l] \in Lease
                    /\ ~ Live(l)' => /\ lease'[l].landlord = None
                                     /\ lease'[l].tenant = None
                                     /\ lease'[l].papers = FALSE
  BY DEF LeasesMove, LeaseInv
<1>1. lease[l] \in Lease /\ Moves(l)
  BY DEF Base, TypeOK, LeasesMove
<1>2. CASE lease'[l] = lease[l]
  BY <1>1, <1>2 DEF Base, LeaseInv, Live
<1>3. CASE Signed(l)
  BY <1>3 DEF Signed, Lease, Live
<1>4. CASE Proceeds(l)
  BY <1>4 DEF Proceeds, Live
<1>5. CASE Shredded(l)
  BY <1>5 DEF Shredded, NoLease, Lease, Live
<1> QED
  BY <1>1, <1>2, <1>3, <1>4, <1>5 DEF Moves

LEMMA StoppedTyped ==
  ASSUME Base, Next
  PROVE  stopped' \subseteq Users
<1>1. \A r \in Requests : req[r].users \subseteq Users
  BY DEF Base, TypeOK, Request
<1>2. CASE \E r \in Requests : Abort(r)
  BY <1>1, <1>2 DEF Abort, Base, TypeOK
<1>3. CASE \E r \in Requests : Advance(r)
  BY <1>3 DEF Advance, CreateUser, CreateProfile, CreateBoth, WriteActive, CountLandlord,
       FindLandlords, SuspendLandlords, CountTenant, SuspendTenants, EraseUser, Sign, Base, TypeOK
<1> QED
  BY <1>2, <1>3, ArriveStep, OtherTask DEF Next, Base, TypeOK

LEMMA BaseStep ==
  ASSUME Base, [Next]_vars
  PROVE  Base'
<1>1. CASE Next
  BY <1>1, RequestStep, TablesStep, AccountsTyped, LeasesTyped, StoppedTyped DEF Base, TypeOK
<1>2. CASE UNCHANGED vars
  BY <1>2 DEF vars, Base, TypeOK, RequestInv, Sound, LeaseInv, Live
<1> QED
  BY <1>1, <1>2

-----------------------------------------------------------------------------
(* Half-made landlords. *)

HalfMade(u)    == Exists(u) /\ account[u].role = "LANDLORD" /\ ~ IsLandlord(u)
Registering(u) == \E r \in Requests : At(r, "createProfile") /\ u \in req[r].users

\* A landlord who is half-made after a step was so before it, or is new.
LEMMA HalfMadeOrNew ==
  ASSUME Base, AccountsEvolve, NEW u \in Users, HalfMade(u)'
  PROVE  HalfMade(u) \/ (Fresh(u) /\ account'[u] = NewAccount("LANDLORD"))
<1>1. account[u] \in Account /\ (Exists(u) => account[u].role # None) /\ Evolves(u)
  BY DEF Base, TypeOK, Exists, AccountsEvolve
<1>2. Exists(u)' /\ account'[u].role = "LANDLORD" /\ ~ account'[u].profile
  BY DEF HalfMade, IsLandlord
<1>3. CASE account'[u] = account[u]
  BY <1>2, <1>3 DEF HalfMade, Exists, IsLandlord
<1>4. CASE Fresh(u) /\ Made(u)
  <2>1. PICK g \in GlobalRole : account'[u] = NewAccount(g)
    BY <1>4 DEF Made
  <2>2. g = "LANDLORD"
    BY <1>2, <2>1 DEF NewAccount
  <2> QED
    BY <1>4, <2>1, <2>2
<1>5. CASE account'[u] = BothAccount
  BY <1>2, <1>5 DEF BothAccount, NewAccount
<1>6. CASE Exists(u) /\ Switched(u)
  BY <1>1, <1>2, <1>6 DEF HalfMade, Exists, IsLandlord, Switched, Account
<1>7. CASE Completed(u)
  BY <1>1, <1>2, <1>7 DEF Completed, Account
<1>8. CASE account'[u] = Erased(u)
  BY <1>2, <1>8 DEF Erased, NoAccount, Exists
<1> QED
  BY <1>1, <1>3, <1>4, <1>5, <1>6, <1>7, <1>8 DEF Evolves

LEMMA NewByCreateUser ==
  ASSUME Base, Next, NEW u \in Users, Fresh(u), account'[u] = NewAccount("LANDLORD")
  PROVE  \E r \in Requests : CreateUser(r) /\ u \in req[r].users /\ req[r].role = "LANDLORD"
<1>1. account'[u] # account[u]
  BY DEF Fresh, NewAccount
<1>2. ~ Exists(u)
  BY DEF Fresh, Exists
<1>3. \A S, p : account' # WithPhase(S, p)
  BY <1>1, <1>2 DEF WithPhase
<1>4. \A r \in Requests : ~ Arrive(r) /\ ~ Abort(r)
  BY <1>1, ArriveStep DEF Abort
<1>5. \A v \in Users : \A C : ~ Erase(v, C)
  BY <1>1, <1>2 DEF Erase, Base, TypeOK
<1>6. \A v \in Users : ~ Trash(v)
  BY <1>3, <1>5 DEF Trash, Restore, Purge, PurgeUser, PurgeLandlord, PurgeTenant
<1>7. \A l \in Leases : ~ LeaseStep(l)
  BY <1>1 DEF LeaseStep, Activate, Bill, End, Change
<1>7a. \A C \in SUBSET Leases : ~ DeleteLeases(C)
  BY <1>1 DEF DeleteLeases
<1>8. PICK r \in Requests : Advance(r)
  BY <1>4, <1>6, <1>7, <1>7a DEF Next
<1>9. req[r].users \subseteq Users
  BY DEF Base, TypeOK, Request
<1>10. ~ CreateProfile(r)
  BY <1>1, <1>2, <1>9 DEF CreateProfile, Base, TypeOK
<1>11. ~ CreateBoth(r)
  <2>1. NewAccount("LANDLORD") # BothAccount
    BY DEF NewAccount, BothAccount
  <2> QED
    BY <1>1, <1>9, <2>1 DEF CreateBoth, Base, TypeOK
<1>12. CreateUser(r)
  BY <1>1, <1>3, <1>5, <1>8, <1>9, <1>10, <1>11 DEF Advance, WriteActive, CountLandlord, FindLandlords,
     SuspendLandlords, CountTenant, SuspendTenants, EraseUser, Sign
<1>13. PICK v \in req[r].users :
         account' = IF Fresh(v) THEN [account EXCEPT ![v] = NewAccount(req[r].role)] ELSE account
  BY <1>12 DEF CreateUser
<1>14. v = u /\ req[r].role = "LANDLORD"
  BY <1>1, <1>9, <1>13 DEF Base, TypeOK, NewAccount
<1> QED
  BY <1>12, <1>14

LEMMA RegistrationGoesOn ==
  ASSUME Base, Next, NEW u \in Users, Registering(u), HalfMade(u), HalfMade(u)'
  PROVE  Registering(u)' \/ u \in stopped'
<1> PICK r \in Requests : At(r, "createProfile") /\ u \in req[r].users
  BY DEF Registering
<1>1. ASSUME NEW o \in Requests \ {r}, Handles(o) PROVE Registering(u)'
  BY <1>1 DEF Handles, OthersKeep, Registering, At
<1>2. CASE UNCHANGED req
  BY <1>2 DEF Registering, At
<1>3. ~ Arrive(r)
  BY ArriveStep DEF At
<1>4. CASE Abort(r)
  BY <1>4 DEF Abort
<1>5. ~ Advance(r)
  <2>1. ~ CreateProfile(r)
    <3>1. \A v \in req[r].users : v = u
      BY DEF Base, RequestInv, Sound, OneUserPcs, At
    <3>2. account[u] \in Account /\ Exists(u) /\ ~ account'[u].profile
      BY DEF HalfMade, IsLandlord, Base, TypeOK
    <3>3. SUFFICES ASSUME CreateProfile(r) PROVE FALSE
      OBVIOUS
    <3>4. account' = [account EXCEPT ![u].profile = TRUE]
      BY <3>1, <3>2, <3>3 DEF CreateProfile
    <3>5. account'[u].profile
      BY <3>2, <3>4 DEF Base, TypeOK, Account
    <3> QED
      BY <3>2, <3>5
  <2> QED
    BY <2>1 DEF Advance, CreateUser, CreateBoth, WriteActive, CountLandlord, FindLandlords,
       SuspendLandlords, CountTenant, SuspendTenants, EraseUser, Sign, At
<1> QED
  BY <1>1, <1>2, <1>3, <1>4, <1>5, ArriveStep, AdvanceTask, OtherTask DEF Next

LEMMA StoppedGrows ==
  ASSUME Base, Next
  PROVE  stopped \subseteq stopped'
<1>1. CASE \E r \in Requests : Advance(r)
  BY <1>1 DEF Advance, CreateUser, CreateProfile, CreateBoth, WriteActive, CountLandlord,
       FindLandlords, SuspendLandlords, CountTenant, SuspendTenants, EraseUser, Sign
<1> QED
  BY <1>1, ArriveStep, OtherTask DEF Next, Abort

LEMMA HalfMadeStep ==
  ASSUME Base, HalfMadeOnlyByStop, Next
  PROVE  HalfMadeOnlyByStop'
<1> SUFFICES ASSUME NEW u \in Users, HalfMade(u)'
             PROVE  u \in stopped' \/ Registering(u)'
  BY DEF HalfMadeOnlyByStop, HalfMade, Registering
<1>1. CASE HalfMade(u)
  <2>1. u \in stopped \/ Registering(u)
    BY <1>1 DEF HalfMadeOnlyByStop, HalfMade, Registering
  <2> QED
    BY <1>1, <2>1, RegistrationGoesOn, StoppedGrows
<1>2. CASE Fresh(u) /\ account'[u] = NewAccount("LANDLORD")
  BY <1>2, NewByCreateUser, CreateUserTask DEF Registering, At
<1> QED
  BY <1>1, <1>2, TablesStep, HalfMadeOrNew

-----------------------------------------------------------------------------
(* The theorems. *)

LEMMA InitInv == Init => IInv
<1> SUFFICES ASSUME Init PROVE IInv
  OBVIOUS
<1>1. TypeOK
  BY IdleTyped DEF Init, TypeOK, NoAccount, Account, NoLease, Lease
<1>2. RequestInv
  BY IdleTyped DEF Init, RequestInv
<1>3. LeaseInv
  BY DEF Init, LeaseInv, NoLease
<1>4. HalfMadeOnlyByStop
  BY DEF Init, HalfMadeOnlyByStop, NoAccount, Exists
<1> QED
  BY <1>1, <1>2, <1>3, <1>4 DEF IInv, Base

LEMMA NextInv == IInv /\ [Next]_vars => IInv'
<1> SUFFICES ASSUME IInv, [Next]_vars PROVE IInv'
  OBVIOUS
<1>1. CASE UNCHANGED vars
  BY <1>1, BaseStep DEF IInv, vars, HalfMadeOnlyByStop, Exists, IsLandlord, At
<1> QED
  BY <1>1, BaseStep, HalfMadeStep DEF IInv

LEMMA InvAlways == Spec => []IInv
  BY InitInv, NextInv, PTL DEF Spec

\* The tables and requests keep their types: a user has a global role as long as
\* they exist, and only then a landlord profile (register, create, deletions).
THEOREM TypeCorrect == Spec => []TypeOK
<1>1. IInv => TypeOK
  BY DEF IInv, Base
<1> QED
  BY <1>1, InvAlways, PTL

\* Only a registration that stopped, or is under way, leaves a landlord without
\* profile (register's two inserts; create, and the deletions).
THEOREM WholeUnlessStopped == Spec => []HalfMadeOnlyByStop
<1>1. IInv => HalfMadeOnlyByStop
  BY DEF IInv
<1> QED
  BY <1>1, InvAlways, PTL

\* No deletion of a user takes an agreement that has papers (deleteUser and
\* permanentDelete against the foreign keys): whichever step makes an account go,
\* it can only be one whose keys allow it.
THEOREM PapersStay == Spec => PapersOutliveAccounts
<1>1. (\E u \in Users : Leaves(u)) => account' # account
  BY DEF Leaves
<1>2. IInv /\ [Next]_vars =>
        [(\E u \in Users : Leaves(u)) => \A l \in Leases : lease[l].papers => lease'[l].papers]_vars
  BY <1>1, TablesStep DEF IInv, PapersKept
<1> QED
  BY <1>2, InvAlways, PTL DEF Spec, PapersOutliveAccounts

-----------------------------------------------------------------------------
(* The trash of Accounts implements SoftDelete. *)

PhaseOf == [u \in Users |-> CASE account[u].phase = "active" -> "listed"
                              [] account[u].phase = "inactive" -> "archived"
                              [] OTHER -> account[u].phase]
AnchorsOf == [l \in Leases |-> IF Live(l) THEN {lease[l].landlord, lease[l].tenant} ELSE {}]

\* A step that SoftDelete allows, or none.
SoftStep == Soft!Next \/ UNCHANGED <<PhaseOf, AnchorsOf>>

\* The phase of one user follows that of the account.
PhaseAs(a) == CASE a.phase = "active" -> "listed"
                [] a.phase = "inactive" -> "archived"
                [] OTHER -> a.phase

LEMMA PhaseFacts ==
  ASSUME TypeOK, NEW u \in Users
  PROVE  /\ PhaseOf[u] = PhaseAs(account[u])
         /\ PhaseOf[u] = "none" <=> Fresh(u)
         /\ PhaseOf[u] \in {"listed", "archived"} <=> Exists(u)
  BY DEF TypeOK, Account, PhaseOf, PhaseAs, Fresh, Exists

LEMMA PhaseNext ==
  /\ PhaseOf' = [u \in Users |-> PhaseAs(account'[u])]
  /\ \A a : a.phase = "active" => PhaseAs(a) = "listed"
  /\ \A a : a.phase = "inactive" => PhaseAs(a) = "archived"
  /\ \A a : a.phase = "gone" => PhaseAs(a) = "gone"
  BY DEF PhaseOf, PhaseAs

LEMMA AnchorsKept ==
  ASSUME UNCHANGED lease
  PROVE  UNCHANGED AnchorsOf
  BY DEF AnchorsOf, Live

LEMMA PhaseKept ==
  ASSUME UNCHANGED account
  PROVE  UNCHANGED PhaseOf
  BY DEF PhaseOf

LEMMA CreateMaps ==
  ASSUME TypeOK, NEW u \in Users, Fresh(u), NEW a, a.phase = "active",
         account' = [account EXCEPT ![u] = a], UNCHANGED lease
  PROVE  SoftStep
<1>1. PhaseOf' = [PhaseOf EXCEPT ![u] = "listed"]
  BY PhaseFacts, PhaseNext DEF TypeOK, PhaseOf
<1>2. PhaseOf[u] = "none"
  BY PhaseFacts
<1>3. Soft!Create(u)
  BY <1>1, <1>2, AnchorsKept DEF Soft!Create, PhaseOf, AnchorsOf
<1> QED
  BY <1>3 DEF SoftStep, Soft!Next

LEMMA ArchiveMaps ==
  ASSUME TypeOK, NEW S \in SUBSET Users, account' = WithPhase(S, "inactive"), UNCHANGED lease
  PROVE  SoftStep
<1> PICK T \in SUBSET Users : T = {u \in S : Exists(u)}
  OBVIOUS
<1>1. \A u \in Users : PhaseAs(account'[u]) = IF u \in T THEN "archived" ELSE PhaseOf[u]
  <2> TAKE u \in Users
  <2>1. account[u] \in Account
    BY DEF TypeOK
  <2>2. CASE u \in T
    <3>1. account'[u] = [account[u] EXCEPT !.phase = "inactive"]
      BY <2>2 DEF WithPhase
    <3>2. account'[u].phase = "inactive"
      BY <2>1, <3>1 DEF Account
    <3> QED
      BY <2>2, <3>2, PhaseNext
  <2>3. CASE u \notin T
    BY <2>3, PhaseFacts DEF WithPhase
  <2> QED
    BY <2>2, <2>3
<1>2. PhaseOf' = [i \in Users |-> IF i \in T THEN "archived" ELSE PhaseOf[i]]
  BY <1>1, PhaseNext
<1>3. \A u \in T : PhaseOf[u] \in {"listed", "archived"}
  BY PhaseFacts
<1>4. Soft!Archive(T)
  BY <1>2, <1>3, AnchorsKept DEF Soft!Archive, Soft!There, PhaseOf, AnchorsOf
<1> QED
  BY <1>4 DEF SoftStep, Soft!Next

LEMMA RestoreMaps ==
  ASSUME TypeOK, NEW S \in SUBSET Users, \A u, v \in S : u = v,
         account' = WithPhase(S, "active"), UNCHANGED lease
  PROVE  SoftStep
<1>1. CASE \E u \in S : Exists(u)
  <2> PICK u \in S : Exists(u)
    BY <1>1
  <2>1. account' = [account EXCEPT ![u] = [account[u] EXCEPT !.phase = "active"]]
    BY DEF TypeOK, WithPhase
  <2>2. account'[u].phase = "active"
    BY <2>1 DEF TypeOK, Account
  <2>3. \A v \in Users : PhaseAs(account'[v]) = IF v = u THEN "listed" ELSE PhaseOf[v]
    BY <2>1, <2>2, PhaseFacts, PhaseNext DEF TypeOK
  <2>4. PhaseOf' = [PhaseOf EXCEPT ![u] = "listed"]
    BY <2>3, PhaseNext DEF PhaseOf
  <2>5. PhaseOf[u] \in {"listed", "archived"}
    BY PhaseFacts
  <2>6. Soft!Restore(u)
    BY <2>4, <2>5, AnchorsKept DEF Soft!Restore, Soft!There, PhaseOf, AnchorsOf
  <2> QED
    BY <2>6 DEF SoftStep, Soft!Next
<1>2. CASE \A u \in S : ~ Exists(u)
  <2>1. UNCHANGED account
    BY <1>2 DEF TypeOK, WithPhase
  <2> QED
    BY <2>1, PhaseKept, AnchorsKept DEF SoftStep
<1> QED
  BY <1>1, <1>2

\* What is left on the users when the agreements C are taken away.
LEMMA AnchorsWithout ==
  ASSUME NEW C \in SUBSET Leases, lease' = Without(C)
  PROVE  AnchorsOf' = [l \in Leases |-> IF l \in C THEN {} ELSE AnchorsOf[l]]
<1>1. \A l \in C : lease'[l].status = "gone"
  BY DEF Without, NoLease
<1>2. \A l \in Leases \ C : lease'[l] = lease[l]
  BY DEF Without
<1> QED
  BY <1>1, <1>2 DEF AnchorsOf, Live

LEMMA DiscardMaps ==
  ASSUME NEW C \in SUBSET Leases, DeleteLeases(C)
  PROVE  SoftStep
<1>1. UNCHANGED PhaseOf
  BY PhaseKept DEF DeleteLeases
<1>2. AnchorsOf' = [l \in Leases |-> IF l \in C THEN {} ELSE AnchorsOf[l]]
  BY AnchorsWithout DEF DeleteLeases
<1>3. Soft!Discard(C)
  BY <1>1, <1>2 DEF Soft!Discard, PhaseOf, AnchorsOf
<1> QED
  BY <1>3 DEF SoftStep, Soft!Next

LEMMA EraseMaps ==
  ASSUME Base, NEW u \in Users, NEW C \in SUBSET Leases, PurgeOf(u, C), Erase(u, C)
  PROVE  SoftStep
<1>1. CASE Exists(u) /\ KeysAllow(u, C)
  <2>1. account' = [account EXCEPT ![u] = Erased(u)] /\ lease' = Without(C)
    BY <1>1 DEF Erase
  <2>2. Erased(u).phase = "gone"
    BY DEF Erased, NoAccount
  <2>3. \A v \in Users : PhaseAs(account'[v]) = IF v = u THEN "gone" ELSE PhaseOf[v]
    BY <2>1, <2>2, PhaseFacts, PhaseNext DEF Base, TypeOK
  <2>4. PhaseOf[u] \in {"listed", "archived"}
    BY <1>1, PhaseFacts DEF Base
  <2>5. PICK S \in SUBSET Users : S = {u}
    OBVIOUS
  <2>6. UNION {[v \in Users |-> {v}][i] : i \in S} = {u}
    BY <2>5
  <2>7. PhaseOf' = [v \in Users |-> IF v \in {u} \cap {w \in Users : PhaseOf[w] \in {"listed", "archived"}}
                                    THEN "gone" ELSE PhaseOf[v]]
    BY <2>3, <2>4, PhaseNext
  <2>8. \A l \in Leases : AnchorsOf'[l] = IF AnchorsOf[l] \cap {u} = {} THEN AnchorsOf[l] ELSE {}
    <3> TAKE l \in Leases
    <3>1. AnchorsOf'[l] = IF l \in C THEN {} ELSE AnchorsOf[l]
      BY <2>1, AnchorsWithout
    <3>2. l \in C => AnchorsOf[l] = {} \/ u \in AnchorsOf[l]
      BY DEF PurgeOf, AnchorsOf
    <3>3. l \notin C => u \notin AnchorsOf[l]
      BY <1>1 DEF KeysAllow, Released, AnchorsOf
    <3> QED
      BY <3>1, <3>2, <3>3
  <2>9. AnchorsOf' = [l \in Leases |-> IF AnchorsOf[l] \cap {u} = {} THEN AnchorsOf[l] ELSE {}]
    BY <2>8 DEF AnchorsOf
  <2>10. Soft!Purge(S)
    BY <2>4, <2>5, <2>6, <2>7, <2>9 DEF Soft!Purge, Soft!There, PhaseOf, AnchorsOf
  <2> QED
    BY <2>10 DEF SoftStep, Soft!Next
<1>2. CASE ~ (Exists(u) /\ KeysAllow(u, C))
  BY <1>2, PhaseKept, AnchorsKept DEF Erase, SoftStep
<1> QED
  BY <1>1, <1>2

LEMMA SignMaps ==
  ASSUME Base, NEW r \in Requests, Sign(r)
  PROVE  SoftStep
<1>0. req[r].landlord \in Users
  BY DEF Base, RequestInv, Sound, At, Sign
<1> PICK b \in Users : b = req[r].landlord
  BY <1>0
<1> PICK t \in req[r].users, l \in Leases :
      /\ At(r, "sign")
      /\ lease[l].status = "none"
      /\ lease' = IF Exists(t) /\ IsLandlord(b)
                    THEN [lease EXCEPT ![l] = [status |-> "DRAFT", landlord |-> b,
                                               tenant |-> t, papers |-> FALSE]]
                    ELSE lease
  BY DEF Sign
<1>1. t \in Users
  BY DEF Base, TypeOK, Request
<1>2. UNCHANGED account
  BY DEF Sign
<1>3. CASE Exists(t) /\ IsLandlord(b)
  <2>1. lease' = [lease EXCEPT ![l] = [status |-> "DRAFT", landlord |-> b,
                                       tenant |-> t, papers |-> FALSE]]
    BY <1>3
  <2>2. Exists(b)
    BY <1>1, <1>3 DEF Base, TypeOK, IsLandlord, Exists, Account
  <2>3. {b, t} \in SUBSET Users /\ \A u \in {b, t} : PhaseOf[u] \in {"listed", "archived"}
    BY <1>1, <1>3, <2>2, PhaseFacts DEF Base
  <2>4. AnchorsOf[l] = {}
    BY DEF AnchorsOf, Live
  <2>5. \A k \in Leases : AnchorsOf'[k] = IF k = l THEN {b, t} ELSE AnchorsOf[k]
    <3> TAKE k \in Leases
    <3>1. lease'[k] = IF k = l THEN [status |-> "DRAFT", landlord |-> b,
                                     tenant |-> t, papers |-> FALSE]
                      ELSE lease[k]
      BY <2>1 DEF Base, TypeOK
    <3>2. CASE k = l
      <4>1. lease'[l].status = "DRAFT" /\ lease'[l].landlord = b /\ lease'[l].tenant = t
        BY <3>1, <3>2
      <4> QED
        BY <3>2, <4>1 DEF AnchorsOf, Live
    <3>3. CASE k # l
      BY <3>1, <3>3 DEF AnchorsOf, Live
    <3> QED
      BY <3>2, <3>3
  <2>6. AnchorsOf' = [AnchorsOf EXCEPT ![l] = {b, t}]
    BY <2>5 DEF AnchorsOf
  <2>7. Soft!Hang(l, {b, t})
    BY <1>2, <2>3, <2>4, <2>6, PhaseKept DEF Soft!Hang, Soft!There, PhaseOf, AnchorsOf
  <2> QED
    BY <2>3, <2>7 DEF SoftStep, Soft!Next
<1>4. CASE ~ (Exists(t) /\ IsLandlord(b))
  BY <1>2, <1>4, PhaseKept, AnchorsKept DEF SoftStep
<1> QED
  BY <1>3, <1>4

LEMMA LeaseStepMaps ==
  ASSUME Base, NEW l \in Leases, LeaseStep(l)
  PROVE  UNCHANGED <<PhaseOf, AnchorsOf>>
<1>1. UNCHANGED PhaseOf
  BY LeaseStepProceeds, PhaseKept
<1>2. \A k \in Leases : AnchorsOf'[k] = AnchorsOf[k]
  BY LeaseStepProceeds DEF AnchorsOf, Live, Proceeds
<1> QED
  BY <1>1, <1>2 DEF AnchorsOf

LEMMA ProfileMaps ==
  ASSUME Base, NEW r \in Requests, CreateProfile(r)
  PROVE  UNCHANGED <<PhaseOf, AnchorsOf>>
<1> PICK u \in req[r].users :
      account' = IF Exists(u) THEN [account EXCEPT ![u].profile = TRUE] ELSE account
  BY DEF CreateProfile
<1>1. \A v \in Users : account'[v].phase = account[v].phase
  <2>1. account' = [account EXCEPT ![u] = [account[u] EXCEPT !.profile = TRUE]] \/ account' = account
    BY DEF Base, TypeOK
  <2> QED
    BY <2>1 DEF Base, TypeOK, Account
<1> QED
  BY <1>1, AnchorsKept DEF PhaseOf, CreateProfile

LEMMA StepMaps ==
  ASSUME Base, Next
  PROVE  SoftStep
<1> USE PhaseKept, AnchorsKept DEF SoftStep
<1>1. CASE \E r \in Requests : Arrive(r) \/ Abort(r)
  BY <1>1, ArriveStep DEF Abort
<1>2. ASSUME NEW r \in Requests, Advance(r) PROVE SoftStep
  <2>0. req[r].users \subseteq Users /\ TypeOK
    BY DEF Base, TypeOK, Request
  <2>1. CASE CreateUser(r)
    <3>1. PICK u \in req[r].users : 
            account' = IF Fresh(u) THEN [account EXCEPT ![u] = NewAccount(req[r].role)] ELSE account
      BY <2>1 DEF CreateUser
    <3>2. NewAccount(req[r].role).phase = "active" /\ UNCHANGED lease
      BY <2>1 DEF NewAccount, CreateUser
    <3> QED
      BY <2>0, <3>1, <3>2, CreateMaps
  <2>2. CASE CreateProfile(r)
    BY <2>2, ProfileMaps
  <2>3. CASE CreateBoth(r)
    <3>1. PICK u \in req[r].users : 
            account' = IF Fresh(u) THEN [account EXCEPT ![u] = BothAccount] ELSE account
      BY <2>3 DEF CreateBoth
    <3>2. BothAccount.phase = "active" /\ UNCHANGED lease
      BY <2>3 DEF NewAccount, BothAccount, CreateBoth
    <3> QED
      BY <2>0, <3>1, <3>2, CreateMaps
  <2>4. CASE WriteActive(r)
    <3>1. \A u, v \in req[r].users : u = v
      BY <2>4 DEF WriteActive, Base, RequestInv, Sound, OneUserPcs, At
    <3>2. CASE req[r].value
      BY <2>0, <2>4, <3>1, <3>2, RestoreMaps DEF WriteActive
    <3>3. CASE ~ req[r].value
      BY <2>0, <2>4, <3>3, ArchiveMaps DEF WriteActive
    <3> QED
      BY <3>2, <3>3
  <2>5. CASE CountLandlord(r) \/ FindLandlords(r) \/ CountTenant(r)
    BY <2>5 DEF CountLandlord, FindLandlords, CountTenant
  <2>6. CASE SuspendLandlords(r)
    BY <2>0, <2>6, ArchiveMaps DEF SuspendLandlords
  <2>7. CASE SuspendTenants(r)
    <3>1. {u \in req[r].users : IsTenant(u)} \in SUBSET Users
      BY <2>0
    <3> QED
      BY <2>0, <2>7, <3>1, ArchiveMaps DEF SuspendTenants
  <2>8. CASE EraseUser(r)
    <3>1. PICK u \in req[r].users : Erase(u, {})
      BY <2>8 DEF EraseUser
    <3> QED
      BY <2>0, <3>1, EraseMaps DEF PurgeOf
  <2>9. CASE Sign(r)
    BY <2>9, SignMaps
  <2> QED
    BY <1>2, <2>1, <2>2, <2>3, <2>4, <2>5, <2>6, <2>7, <2>8, <2>9 DEF Advance
<1>3. ASSUME NEW u \in Users, Restore(u) PROVE SoftStep
  <2>1. \A v, w \in {u} : v = w
    OBVIOUS
  <2> QED
    BY <1>3, <2>1, RestoreMaps DEF Restore, Base
<1>4. ASSUME NEW u \in Users, NEW C \in SUBSET Leases, PurgeOf(u, C), Purge(u, C) PROVE SoftStep
  BY <1>4, EraseMaps DEF Purge
<1>5. CASE \E l \in Leases : LeaseStep(l)
  BY <1>5, LeaseStepMaps
<1>6. CASE \E C \in SUBSET Leases : DeleteLeases(C)
  BY <1>6, DiscardMaps
<1> QED
  BY <1>1, <1>2, <1>3, <1>4, <1>5, <1>6, TrashCases DEF Next

\* Accounts implements SoftDelete: whatever overlaps, a user is deleted for good
\* once, with every agreement that names them, or not at all, and an agreement
\* leaves with its parties or by itself.
THEOREM TrashImplemented == Spec => ImplementsSoftDelete
<1>1. Init => Soft!Init
  BY DEF Init, Soft!Init, NoAccount, NoLease, Live
<1>2. IInv /\ [Next]_vars => [Soft!Next]_<<PhaseOf, AnchorsOf>>
  <2>1. CASE UNCHANGED vars
    BY <2>1, PhaseKept, AnchorsKept DEF vars
  <2> QED
    BY <2>1, StepMaps DEF IInv, SoftStep
<1> QED
  BY <1>1, <1>2, InvAlways, PTL DEF Spec, ImplementsSoftDelete, Soft!Spec, Soft!vars, PhaseOf, AnchorsOf
=============================================================================

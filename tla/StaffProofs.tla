---------------------------- MODULE StaffProofs ----------------------------
(***************************************************************************)
(* Theorems about Staff for every finite number of requests and users and  *)
(* any roles, landlords and limit.                                         *)
(***************************************************************************)
EXTENDS Staff, FiniteSetTheorems, TLAPS

\* The program counters of addStaff, and those past the check of the role.
AddPcs     == {"addRole", "addFind", "addCreate", "addCheck", "addPromote", "addInsert"}
CheckedPcs == AddPcs \ {"addRole"}

\* What a request for an addition has in hand: a role that was its boss's may
\* have been deleted since, but no other boss has it.
Sound(q) ==
  /\ q.pc \in AddPcs => q.boss \in Bosses /\ q.user \in Users /\ q.role \in Roles
  /\ q.pc \in CheckedPcs => role[q.role] \in {q.boss, None}

RequestInv == \A r \in Requests : Sound(req[r])

\* The requests that add staff to a boss.
Adders(b) == {r \in Requests : req[r].pc \in AddPcs /\ req[r].boss = b}

\* Members and those about to become one: a request that passes the limit finds
\* one member less than allowed, and adds one.
LimitInv ==
  \A b \in Landlords :
    Cardinality(StaffOf(b)) + Cardinality(Adders(b)) <= MaxStaff + Cardinality(Requests) - 1

IInv == TypeOK /\ RequestInv /\ RolesAreTheBosses /\ LimitInv

-----------------------------------------------------------------------------
(* Records of requests. *)

\* The same request, up to what it knows of others.
SameTask(p, q) ==
  p \in Request /\ p.pc = q.pc /\ p.boss = q.boss /\ p.user = q.user /\ p.role = q.role

OthersKeep(r) == \A o \in Requests \ {r} : SameTask(req'[o], req[o])
AllKeep       == \A o \in Requests : SameTask(req'[o], req[o])

LEMMA IdleTyped == Idle \in Request /\ Idle.pc = "idle"
  BY DEF Idle, Request, Pcs

LEMMA RecordTyped ==
  ASSUME NEW q \in Request
  PROVE  /\ \A v \in BOOLEAN : SameTask([q EXCEPT !.alone = v], q)
         /\ SameTask([q EXCEPT !.lost = TRUE], q)
         /\ SameTask(q, q)
         /\ \A S \in SUBSET Users : SameTask([q EXCEPT !.users = S], q)
  BY DEF SameTask, Request

LEMMA DisturbedSame ==
  ASSUME TypeOK, NEW o \in Requests
  PROVE  SameTask(Disturbed(o), req[o])
  BY RecordTyped DEF TypeOK, Disturbed

LEMMA ForgetSame ==
  ASSUME NEW R \in [Requests -> Request], NEW gone, NEW o \in Requests
  PROVE  SameTask(Forget(R, gone)[o], R[o])
  BY RecordTyped DEF Forget

LEMMA BeginStep ==
  ASSUME TypeOK, NEW r \in Requests, NEW new \in Request, Begin(r, new)
  PROVE  /\ req' \in [Requests -> Request]
         /\ OthersKeep(r)
         /\ SameTask(req'[r], new)
<1>1. SameTask([new EXCEPT !.alone = ~ Busy(r)], new)
  BY RecordTyped DEF Busy
<1>2. \A o \in Requests : SameTask(Disturbed(o), req[o])
  BY DisturbedSame
<1> QED
  BY <1>1, <1>2 DEF Begin, OthersKeep, SameTask

LEMMA FinishStep ==
  ASSUME TypeOK, NEW r \in Requests, Finish(r)
  PROVE  req' \in [Requests -> Request] /\ OthersKeep(r) /\ req'[r] = Idle
  BY IdleTyped, RecordTyped DEF TypeOK, Finish, OthersKeep

LEMMA GotoStep ==
  ASSUME TypeOK, NEW r \in Requests, NEW pc \in Pcs, Goto(r, pc)
  PROVE  /\ req' \in [Requests -> Request]
         /\ OthersKeep(r)
         /\ req'[r].pc = pc
         /\ req'[r].boss = req[r].boss
         /\ req'[r].user = req[r].user
         /\ req'[r].role = req[r].role
<1>1. [req[r] EXCEPT !.pc = pc] \in Request
  BY DEF TypeOK, Request
<1>2. req' = [req EXCEPT ![r] = [req[r] EXCEPT !.pc = pc]]
  BY DEF Goto, TypeOK
<1>3. req[r] \in Request
  BY DEF TypeOK
<1> QED
  BY <1>1, <1>2, <1>3, RecordTyped DEF TypeOK, OthersKeep, Request

LEMMA DisturbStep ==
  ASSUME TypeOK, Disturb
  PROVE  req' \in [Requests -> Request] /\ AllKeep
<1>1. \A o \in Requests : SameTask(Disturbed(o), req[o])
  BY DisturbedSame
<1> QED
  BY <1>1 DEF Disturb, AllKeep, SameTask

LEMMA ForgetStep ==
  ASSUME TypeOK, NEW gone, req' = Forget([o \in Requests |-> Disturbed(o)], gone)
  PROVE  req' \in [Requests -> Request] /\ AllKeep
<1> DEFINE R == [o \in Requests |-> Disturbed(o)]
<1>1. \A o \in Requests : SameTask(R[o], req[o])
  BY DisturbedSame
<1>2. R \in [Requests -> Request]
  BY <1>1 DEF SameTask
<1>3. \A o \in Requests : SameTask(Forget(R, gone)[o], R[o])
  BY <1>2, ForgetSame
<1>4. req' = Forget(R, gone)
  OBVIOUS
<1> HIDE DEF R
<1>5. \A o \in Requests : SameTask(req'[o], req[o])
  BY <1>1, <1>3, <1>4 DEF SameTask
<1>6. req' = [o \in Requests |-> req'[o]]
  BY <1>4 DEF Forget
<1> QED
  BY <1>5, <1>6 DEF AllKeep, SameTask

-----------------------------------------------------------------------------
(* Counting members and additions. *)

LEMMA FiniteParts ==
  ASSUME NEW b
  PROVE  /\ IsFiniteSet(StaffOf(b)) /\ Cardinality(StaffOf(b)) \in Nat
         /\ IsFiniteSet(Adders(b)) /\ Cardinality(Adders(b)) \in Nat
         /\ Cardinality(Adders(b)) <= Cardinality(Requests)
         /\ Cardinality(Requests) \in Nat /\ Cardinality(Requests) >= 1
<1>1. StaffOf(b) \subseteq Users /\ Adders(b) \subseteq Requests
  BY DEF StaffOf, Adders
<1>2. IsFiniteSet(StaffOf(b)) /\ IsFiniteSet(Adders(b))
  BY <1>1, FS_Subset, StaffAssumption
<1>3. Cardinality(Adders(b)) <= Cardinality(Requests)
  BY <1>1, FS_Subset, StaffAssumption
<1>4. Cardinality(Requests) \in Nat /\ Cardinality(Requests) # 0
  BY FS_CardinalityType, FS_EmptySet, StaffAssumption
<1> QED
  BY <1>2, <1>3, <1>4, FS_CardinalityType

\* No new member and no new addition.
LEMMA FewerKeepsLimit ==
  ASSUME LimitInv,
         NEW b \in Landlords,
         StaffOf(b)' \subseteq StaffOf(b),
         Adders(b)' \subseteq Adders(b)
  PROVE  Cardinality(StaffOf(b))' + Cardinality(Adders(b))'
           <= MaxStaff + Cardinality(Requests) - 1
<1> DEFINE S == StaffOf(b)
           T == StaffOf(b)'
           A == Adders(b)
           B == Adders(b)'
<1>1. IsFiniteSet(S) /\ IsFiniteSet(A) /\ Cardinality(S) \in Nat /\ Cardinality(A) \in Nat
      /\ Cardinality(Requests) \in Nat
  BY FiniteParts
<1>2. T \subseteq S /\ B \subseteq A
  OBVIOUS
<1>3. Cardinality(S) + Cardinality(A) <= MaxStaff + Cardinality(Requests) - 1
  BY DEF LimitInv
<1> HIDE DEF S, T, A, B
<1>4. IsFiniteSet(T) /\ Cardinality(T) <= Cardinality(S)
  BY <1>1, <1>2, FS_Subset
<1>5. IsFiniteSet(B) /\ Cardinality(B) <= Cardinality(A)
  BY <1>1, <1>2, FS_Subset
<1>6. Cardinality(T) \in Nat /\ Cardinality(B) \in Nat
  BY <1>4, <1>5, FS_CardinalityType
<1>7. Cardinality(T) + Cardinality(B) <= MaxStaff + Cardinality(Requests) - 1
  BY <1>1, <1>3, <1>4, <1>5, <1>6, StaffAssumption
<1> QED
  BY <1>7 DEF T, B

-----------------------------------------------------------------------------
(* Steps that write users at most. *)

KeepUsers ==
  /\ user' \in [Users -> GlobalRole \cup {"none"}]
  /\ \A u \in Users : IsUser(u) => user'[u] # "none"

LEMMA WriteUser ==
  ASSUME TypeOK, NEW u, NEW g \in GlobalRole,
         user' = user \/ user' = [user EXCEPT ![u] = g]
  PROVE  KeepUsers
  BY DEF TypeOK, KeepUsers, IsUser, GlobalRole

LEMMA TargetTyped == \A b : TargetRole(b) \in GlobalRole
  BY DEF TargetRole, GlobalRole

\* A request goes on, with no more of an addition than it had.
LEMMA QuietStep ==
  ASSUME IInv, NEW r \in Requests,
         KeepUsers, UNCHANGED <<profile, role>>,
         req' \in [Requests -> Request], OthersKeep(r), Sound(req'[r]),
         req'[r].pc \in AddPcs => req[r].pc \in AddPcs /\ req'[r].boss = req[r].boss
  PROVE  IInv'
<1>1. TypeOK'
  BY DEF IInv, TypeOK, KeepUsers
<1>2. RequestInv'
  BY DEF IInv, RequestInv, Sound, OthersKeep, SameTask
<1>3. RolesAreTheBosses'
  BY DEF IInv, RolesAreTheBosses, KeepUsers, IsUser, IsStaff
<1>4. LimitInv'
  <2> SUFFICES ASSUME NEW b \in Landlords
               PROVE  Cardinality(StaffOf(b))' + Cardinality(Adders(b))'
                        <= MaxStaff + Cardinality(Requests) - 1
    BY DEF LimitInv
  <2>1. StaffOf(b)' \subseteq StaffOf(b)
    BY DEF StaffOf
  <2>2. Adders(b)' \subseteq Adders(b)
    BY DEF Adders, OthersKeep, SameTask
  <2> QED
    BY <2>1, <2>2, FewerKeepsLimit DEF IInv
<1> QED
  BY <1>1, <1>2, <1>3, <1>4 DEF IInv

LEMMA FinishIsQuiet ==
  ASSUME IInv, NEW r \in Requests, KeepUsers, UNCHANGED <<profile, role>>, Finish(r)
  PROVE  IInv'
<1>1. req' \in [Requests -> Request] /\ OthersKeep(r) /\ req'[r] = Idle
  BY FinishStep DEF IInv
<1>2. Sound(req'[r]) /\ req'[r].pc \notin AddPcs
  BY <1>1, IdleTyped DEF Sound, AddPcs, CheckedPcs
<1> QED
  BY <1>1, <1>2, QuietStep

\* On to a statement of the same operation.
LEMMA GotoIsQuiet ==
  ASSUME IInv, NEW r \in Requests, NEW pc \in Pcs, KeepUsers, UNCHANGED <<profile, role>>,
         Goto(r, pc),
         pc \in AddPcs => req[r].pc \in AddPcs,
         pc \in CheckedPcs => role[req[r].role] \in {req[r].boss, None}
  PROVE  IInv'
<1>1. /\ req' \in [Requests -> Request] /\ OthersKeep(r)
      /\ req'[r].pc = pc /\ req'[r].boss = req[r].boss
      /\ req'[r].user = req[r].user /\ req'[r].role = req[r].role
  BY GotoStep DEF IInv
<1>2. Sound(req'[r])
  BY <1>1 DEF IInv, RequestInv, Sound
<1> QED
  BY <1>1, <1>2, QuietStep

LEMMA CheckIsQuiet ==
  ASSUME IInv, NEW r \in Requests, NEW pc \in Pcs, NEW test, KeepUsers,
         UNCHANGED <<profile, role>>, Check(r, test, pc),
         pc \in AddPcs => req[r].pc \in AddPcs,
         test /\ pc \in CheckedPcs => role[req[r].role] \in {req[r].boss, None}
  PROVE  IInv'
<1>1. CASE Goto(r, pc) /\ test
  BY <1>1, GotoIsQuiet
<1>2. CASE Finish(r)
  BY <1>2, FinishIsQuiet
<1> QED
  BY <1>1, <1>2 DEF Check

\* The arrival of a request for something else.
LEMMA BeginIsQuiet ==
  ASSUME IInv, NEW r \in Requests, NEW new \in Request, new.pc \notin AddPcs,
         Begin(r, new), UNCHANGED <<user, profile, role>>
  PROVE  IInv'
<1>1. req' \in [Requests -> Request] /\ OthersKeep(r) /\ SameTask(req'[r], new)
  BY BeginStep DEF IInv
<1>2. Sound(req'[r]) /\ req'[r].pc \notin AddPcs
  BY <1>1 DEF Sound, SameTask, CheckedPcs
<1>3. KeepUsers
  BY DEF IInv, TypeOK, KeepUsers, IsUser
<1> QED
  BY <1>1, <1>2, <1>3, QuietStep

-----------------------------------------------------------------------------
(* The additions. *)

LEMMA AddStaffKeeps ==
  ASSUME IInv, NEW r \in Requests, NEW b \in Bosses, NEW u \in Users, NEW k \in Roles,
         AddStaff(r, b, u, k)
  PROVE  IInv'
<1> DEFINE new == [Idle EXCEPT !.pc = "addRole", !.boss = b, !.user = u, !.role = k]
<1>1. new \in Request /\ new.pc = "addRole" /\ new.boss = b /\ new.user = u /\ new.role = k
  BY DEF Idle, Request, Pcs
<1>2. Begin(r, new) /\ UNCHANGED <<user, profile, role>>
  BY DEF AddStaff
<1> HIDE DEF new
<1>3. req' \in [Requests -> Request] /\ OthersKeep(r) /\ SameTask(req'[r], new)
  BY <1>1, <1>2, BeginStep DEF IInv
<1>4. req'[r].pc = "addRole" /\ req'[r].boss = b /\ req'[r].user = u /\ req'[r].role = k
  BY <1>1, <1>3 DEF SameTask
<1>5. TypeOK' /\ RolesAreTheBosses'
  BY <1>2, <1>3 DEF IInv, TypeOK, RolesAreTheBosses, IsUser, IsStaff
<1>6. RequestInv'
  BY <1>2, <1>3, <1>4 DEF IInv, RequestInv, Sound, OthersKeep, SameTask, CheckedPcs
<1>7. ASSUME NEW c \in Landlords
      PROVE  Cardinality(StaffOf(c))' + Cardinality(Adders(c))'
               <= MaxStaff + Cardinality(Requests) - 1
  <2>1. StaffOf(c)' = StaffOf(c)
    BY <1>2 DEF StaffOf
  <2>2. CASE c = b
    <3>1. Cardinality(StaffOf(c)) < MaxStaff
      BY <2>2 DEF AddStaff, WithinLimit
    <3>2. Cardinality(StaffOf(c)) \in Nat
      BY FiniteParts
    <3>3. Adders(c)' \subseteq Requests
      BY DEF Adders
    <3>4. Cardinality(Adders(c)') <= Cardinality(Requests) /\ Cardinality(Adders(c)') \in Nat
      BY <3>3, FS_Subset, FS_CardinalityType, StaffAssumption
    <3>5. Cardinality(Requests) \in Nat
      BY FiniteParts
    <3> QED
      BY <2>1, <3>1, <3>2, <3>4, <3>5, StaffAssumption
  <2>3. CASE c # b
    <3>1. Adders(c)' \subseteq Adders(c)
      BY <1>3, <1>4, <2>3 DEF Adders, OthersKeep, SameTask
    <3> QED
      BY <2>1, <3>1, FewerKeepsLimit DEF IInv
  <2> QED
    BY <2>2, <2>3
<1> QED
  BY <1>5, <1>6, <1>7 DEF IInv, LimitInv

LEMMA AddInsertKeeps ==
  ASSUME IInv, NEW r \in Requests, AddInsert(r)
  PROVE  IInv'
<1> DEFINE q == req[r]
           u == req[r].user
           b == req[r].boss
           k == req[r].role
<1>1. q \in Request /\ q.pc = "addInsert" /\ b \in Bosses /\ u \in Users /\ k \in Roles
      /\ role[k] \in {b, None}
  BY DEF AddInsert, At, IInv, TypeOK, RequestInv, Sound, AddPcs, CheckedPcs
<1>2. req' \in [Requests -> Request] /\ OthersKeep(r) /\ req'[r] = Idle
  BY FinishStep DEF IInv, AddInsert
<1>3. UNCHANGED <<user, role>>
  BY DEF AddInsert
<1>4. \/ UNCHANGED profile
      \/ /\ IsUser(u) /\ role[k] = b
         /\ profile' = [profile EXCEPT ![u] = NewProfile(q)]
  BY <1>1 DEF AddInsert
<1>5. NewProfile(q) \in Profile /\ NewProfile(q).boss = b /\ NewProfile(q).role = k
  BY <1>1 DEF NewProfile, Profile
<1>6. TypeOK'
  BY <1>2, <1>3, <1>4, <1>5 DEF IInv, TypeOK
<1>7. RequestInv'
  BY <1>2, <1>3, IdleTyped DEF IInv, RequestInv, Sound, OthersKeep, SameTask, AddPcs, CheckedPcs
<1>8. RolesAreTheBosses'
  BY <1>1, <1>3, <1>4, <1>5 DEF IInv, TypeOK, RolesAreTheBosses, IsUser, IsStaff
<1>9. ASSUME NEW c \in Landlords
      PROVE  Cardinality(StaffOf(c))' + Cardinality(Adders(c))'
               <= MaxStaff + Cardinality(Requests) - 1
  <2>1. Adders(c)' \subseteq Adders(c) \ {r}
    BY <1>2, IdleTyped DEF Adders, OthersKeep, SameTask, AddPcs
  <2>2. CASE c # b
    <3>1. StaffOf(c)' \subseteq StaffOf(c)
      BY <1>1, <1>4, <1>5, <2>2 DEF StaffOf, IInv, TypeOK
    <3> QED
      BY <2>1, <3>1, FewerKeepsLimit DEF IInv
  <2>3. CASE c = b
    <3>1. StaffOf(c)' \subseteq StaffOf(c) \cup {u}
      BY <1>1, <1>4, <1>5 DEF StaffOf, IInv, TypeOK
    <3>2. r \in Adders(c)
      BY <1>1, <2>3 DEF Adders, AddPcs
    <3>3. /\ IsFiniteSet(StaffOf(c)) /\ Cardinality(StaffOf(c)) \in Nat
          /\ IsFiniteSet(Adders(c)) /\ Cardinality(Adders(c)) \in Nat
          /\ Cardinality(Requests) \in Nat
      BY FiniteParts
    <3>4. /\ IsFiniteSet(StaffOf(c) \cup {u})
          /\ Cardinality(StaffOf(c) \cup {u}) <= Cardinality(StaffOf(c)) + 1
      <4> DEFINE S == StaffOf(c)
      <4>1. IsFiniteSet(S \cup {u}) /\ Cardinality(S \cup {u}) \in {Cardinality(S), Cardinality(S) + 1}
        BY <3>3, FS_AddElement
      <4>2. Cardinality(S) \in Nat
        BY <3>3
      <4> HIDE DEF S, u
      <4>3. Cardinality(S \cup {u}) <= Cardinality(S) + 1
        BY <4>1, <4>2
      <4> QED
        BY <4>1, <4>3 DEF S
    <3>5. Cardinality(StaffOf(c)') <= Cardinality(StaffOf(c) \cup {u})
          /\ Cardinality(StaffOf(c) \cup {u}) \in Nat /\ Cardinality(StaffOf(c)') \in Nat
      BY <3>1, <3>4, FS_Subset, FS_CardinalityType
    <3>6. /\ IsFiniteSet(Adders(c) \ {r})
          /\ Cardinality(Adders(c) \ {r}) = Cardinality(Adders(c)) - 1
      BY <3>2, <3>3, FS_RemoveElement
    <3>7. Cardinality(Adders(c)') <= Cardinality(Adders(c)) - 1
          /\ Cardinality(Adders(c)') \in Nat
      BY <2>1, <3>6, FS_Subset, FS_CardinalityType
    <3>8. Cardinality(StaffOf(c)) + Cardinality(Adders(c))
            <= MaxStaff + Cardinality(Requests) - 1
      BY DEF IInv, LimitInv
    <3> HIDE DEF u
    <3> QED
      BY <3>3, <3>4, <3>5, <3>7, <3>8, StaffAssumption
  <2> QED
    BY <2>2, <2>3
<1> QED
  BY <1>6, <1>7, <1>8, <1>9 DEF IInv, LimitInv

-----------------------------------------------------------------------------
(* Profiles, roles and users that go and come. *)

\* Profiles only go; everything a request for an addition has in hand stays.
LEMMA LossKeeps ==
  ASSUME IInv, NEW gone \in SUBSET Users,
         user' \in [Users -> GlobalRole \cup {"none"}],
         \A u \in Users \ gone : user'[u] = user[u],
         profile' = [u \in Users |-> IF u \in gone THEN NoProfile ELSE profile[u]],
         role' = role,
         req' \in [Requests -> Request],
         \A r \in Requests : Sound(req'[r]),
         \A r \in Requests : req'[r].pc \in AddPcs =>
                              req[r].pc \in AddPcs /\ req'[r].boss = req[r].boss
  PROVE  IInv'
<1>1. NoProfile \in Profile /\ NoProfile.boss = None
  BY DEF Profile, NoProfile
<1>2. TypeOK'
  BY <1>1 DEF IInv, TypeOK
<1>3. RequestInv'
  BY DEF RequestInv, Sound
<1>4. RolesAreTheBosses'
  BY DEF IInv, RolesAreTheBosses, IsUser, IsStaff
<1>5. ASSUME NEW b \in Landlords
      PROVE  Cardinality(StaffOf(b))' + Cardinality(Adders(b))'
               <= MaxStaff + Cardinality(Requests) - 1
  <2>1. b # None
    BY StaffAssumption DEF Bosses
  <2>2. StaffOf(b)' \subseteq StaffOf(b)
    BY <1>1, <2>1 DEF StaffOf
  <2>3. Adders(b)' \subseteq Adders(b)
    BY DEF Adders
  <2> QED
    BY <2>2, <2>3, FewerKeepsLimit DEF IInv
<1> QED
  BY <1>2, <1>3, <1>4, <1>5 DEF IInv, LimitInv

LEMMA RemoveProfileKeeps ==
  ASSUME IInv, NEW r \in Requests, RemoveProfile(r)
  PROVE  IInv'
<1> DEFINE u == req[r].user
<1>1. TypeOK /\ req[r] \in Request /\ req[r].pc = "removeProfile"
  BY DEF RemoveProfile, At, IInv, TypeOK
<1>2. CASE req[r].lost
  <2>1. KeepUsers
    BY <1>1 DEF TypeOK, KeepUsers, IsUser, RemoveProfile
  <2> QED
    BY <1>2, <2>1, FinishIsQuiet DEF RemoveProfile
<1>3. CASE ~ req[r].lost
  <2> DEFINE R == [req EXCEPT ![r].pc = "removeRevert"]
             gone == {u} \cap Users
  <2>1. [req[r] EXCEPT !.pc = "removeRevert"] \in Request
    BY <1>1 DEF Request, Pcs
  <2>2. R = [req EXCEPT ![r] = [req[r] EXCEPT !.pc = "removeRevert"]]
    BY <1>1 DEF TypeOK
  <2>3. R \in [Requests -> Request]
    BY <1>1, <2>1, <2>2 DEF TypeOK
  <2>4. R[r].pc = "removeRevert" /\ \A o \in Requests \ {r} : R[o] = req[o]
    BY <1>1, <2>2 DEF TypeOK, Request
  <2>5. /\ req' = Forget(R, {u})
        /\ profile' = [profile EXCEPT ![u] = NoProfile]
        /\ UNCHANGED <<user, role>>
    BY <1>3 DEF RemoveProfile
  <2> HIDE DEF R
  <2>6. \A o \in Requests : SameTask(req'[o], R[o])
    BY <2>3, <2>5, ForgetSame
  <2>7. req' \in [Requests -> Request]
    BY <2>5, <2>6 DEF Forget, SameTask
  <2>8. ASSUME NEW o \in Requests
        PROVE  /\ Sound(req'[o])
               /\ req'[o].pc \in AddPcs => req[o].pc \in AddPcs /\ req'[o].boss = req[o].boss
    BY <2>4, <2>6 DEF IInv, RequestInv, Sound, SameTask, AddPcs, CheckedPcs
  <2>9. profile' = [x \in Users |-> IF x \in gone THEN NoProfile ELSE profile[x]]
    BY <1>1, <2>5 DEF TypeOK
  <2> QED
    BY <1>1, <2>5, <2>7, <2>8, <2>9, LossKeeps DEF TypeOK
<1> QED
  BY <1>2, <1>3

LEMMA AllKeepIsSound ==
  ASSUME IInv, AllKeep
  PROVE  \A r \in Requests :
           /\ Sound(req'[r])
           /\ req'[r].pc \in AddPcs => req[r].pc \in AddPcs /\ req'[r].boss = req[r].boss
  BY DEF IInv, RequestInv, Sound, AllKeep, SameTask

LEMMA PurgeProfileKeeps ==
  ASSUME IInv, NEW u \in Users, PurgeProfile(u)
  PROVE  IInv'
<1>1. req' \in [Requests -> Request] /\ AllKeep
  BY ForgetStep DEF PurgeProfile, IInv
<1>2. profile' = [x \in Users |-> IF x \in {u} THEN NoProfile ELSE profile[x]]
  BY DEF PurgeProfile, IInv, TypeOK
<1>3. /\ user' \in [Users -> GlobalRole \cup {"none"}]
      /\ \A x \in Users \ {u} : user'[x] = user[x]
      /\ role' = role
  BY DEF PurgeProfile, IInv, TypeOK
<1>4. \A q \in Requests :
        /\ Sound(req'[q])
        /\ req'[q].pc \in AddPcs => req[q].pc \in AddPcs /\ req'[q].boss = req[q].boss
  BY <1>1, AllKeepIsSound
<1>5. {u} \in SUBSET Users
  OBVIOUS
<1> QED
  BY <1>1, <1>2, <1>3, <1>4, <1>5, LossKeeps

LEMMA DeleteUserKeeps ==
  ASSUME IInv, NEW u \in Users, DeleteUser(u)
  PROVE  IInv'
<1>1. req' \in [Requests -> Request] /\ AllKeep
  BY ForgetStep DEF DeleteUser, IInv
<1>2. profile' = [x \in Users |-> IF x \in {u} THEN NoProfile ELSE profile[x]]
  BY DEF DeleteUser, IInv, TypeOK
<1>3. user' \in [Users -> GlobalRole \cup {"none"}] /\ \A x \in Users \ {u} : user'[x] = user[x]
  BY DEF DeleteUser, IInv, TypeOK
<1>4. role' = role
  BY DEF DeleteUser
<1>5. \A q \in Requests :
        /\ Sound(req'[q])
        /\ req'[q].pc \in AddPcs => req[q].pc \in AddPcs /\ req'[q].boss = req[q].boss
  BY <1>1, AllKeepIsSound
<1>6. {u} \in SUBSET Users
  OBVIOUS
<1> QED
  BY <1>1, <1>2, <1>3, <1>4, <1>5, <1>6, LossKeeps

LEMMA RegisterKeeps ==
  ASSUME IInv, NEW u \in Users, NEW g \in GlobalRole, Register(u, g)
  PROVE  IInv'
<1>1. req' \in [Requests -> Request] /\ AllKeep
  BY DisturbStep DEF Register, IInv
<1>2. user' \in [Users -> GlobalRole \cup {"none"}]
  BY DEF Register, IInv, TypeOK
<1>3. ~ IsStaff(u)
  BY DEF Register, IInv, RolesAreTheBosses
<1>4. UNCHANGED <<profile, role>> /\ \A x \in Users \ {u} : user'[x] = user[x]
  BY DEF Register, IInv, TypeOK
<1>5. profile' = [x \in Users |-> IF x \in {u} THEN NoProfile ELSE profile[x]]
  BY <1>3, <1>4 DEF IsStaff, IInv, TypeOK
<1> QED
  BY <1>1, <1>2, <1>4, <1>5, AllKeepIsSound, LossKeeps

\* A step that changes one role: nobody has it, and to a request in hand of it
\* the role is deleted.
LEMMA RoleStep ==
  ASSUME IInv, NEW k, NEW b \in Bosses \cup {None},
         role' = [role EXCEPT ![k] = b],
         \A u \in Users : IsStaff(u) => profile[u].role # k,
         b = None \/ \A o \in Requests : req[o].role # k,
         UNCHANGED <<user, profile>>,
         req' \in [Requests -> Request],
         \A o \in Requests : \/ SameTask(req'[o], req[o])
                             \/ req'[o].pc \notin AddPcs
  PROVE  IInv'
<1>1. TypeOK'
  BY DEF IInv, TypeOK
<1>2. RequestInv'
  <2> SUFFICES ASSUME NEW o \in Requests
               PROVE  Sound(req[o])'
    BY DEF RequestInv
  <2>1. CASE req'[o].pc \notin AddPcs
    BY <2>1 DEF Sound, CheckedPcs
  <2>2. CASE SameTask(req'[o], req[o])
    BY <2>2 DEF IInv, TypeOK, RequestInv, Sound, SameTask, CheckedPcs
  <2> QED
    BY <2>1, <2>2
<1>3. RolesAreTheBosses'
  BY DEF IInv, TypeOK, RolesAreTheBosses, IsUser, IsStaff
<1>4. ASSUME NEW c \in Landlords
      PROVE  Cardinality(StaffOf(c))' + Cardinality(Adders(c))'
               <= MaxStaff + Cardinality(Requests) - 1
  <2>1. StaffOf(c)' \subseteq StaffOf(c)
    BY DEF StaffOf
  <2>2. Adders(c)' \subseteq Adders(c)
    BY DEF Adders, SameTask
  <2> QED
    BY <2>1, <2>2, FewerKeepsLimit DEF IInv
<1> QED
  BY <1>1, <1>2, <1>3, <1>4 DEF IInv, LimitInv

LEMMA CreateRoleKeeps ==
  ASSUME IInv, NEW b \in Bosses, NEW k \in Roles, CreateRole(b, k)
  PROVE  IInv'
<1>1. req' \in [Requests -> Request] /\ AllKeep
  BY DisturbStep DEF CreateRole, IInv
<1>2. \A u \in Users : IsStaff(u) => profile[u].role # k
  <2> SUFFICES ASSUME NEW u \in Users, IsStaff(u)
               PROVE  profile[u].role # k
    OBVIOUS
  <2>1. profile[u].boss \in Bosses /\ role[profile[u].role] = profile[u].boss
    BY DEF IInv, TypeOK, RolesAreTheBosses, IsStaff, Profile
  <2>2. role[k] = None /\ None \notin Bosses
    BY StaffAssumption DEF CreateRole
  <2> QED
    BY <2>1, <2>2
<1> QED
  BY <1>1, <1>2, RoleStep DEF CreateRole, AllKeep

LEMMA RoleDeleteKeeps ==
  ASSUME IInv, NEW r \in Requests, RoleDelete(r)
  PROVE  IInv'
<1>1. Finish(r) /\ UNCHANGED <<user, profile>>
  BY DEF RoleDelete
<1>2. req' \in [Requests -> Request] /\ OthersKeep(r) /\ req'[r] = Idle
  BY <1>1, FinishStep DEF IInv
<1>3. CASE InUse(req[r].role)
  <2>1. role' = role
    BY <1>3 DEF RoleDelete
  <2>2. KeepUsers
    BY <1>1 DEF IInv, TypeOK, KeepUsers, IsUser
  <2> QED
    BY <1>1, <2>1, <2>2, FinishIsQuiet
<1>4. CASE ~ InUse(req[r].role)
  <2>1. role' = [role EXCEPT ![req[r].role] = None]
    BY <1>4 DEF RoleDelete
  <2>2. \A u \in Users : IsStaff(u) => profile[u].role # req[r].role
    BY <1>4 DEF InUse
  <2>3. req'[r].pc \notin AddPcs
    BY <1>2, IdleTyped DEF AddPcs
  <2> QED
    BY <1>1, <1>2, <2>1, <2>2, <2>3, RoleStep DEF OthersKeep
<1> QED
  BY <1>3, <1>4

-----------------------------------------------------------------------------
(* The invariant. *)

LEMMA InitInv == Init => IInv
<1> SUFFICES ASSUME Init PROVE IInv
  OBVIOUS
<1>1. TypeOK
  BY IdleTyped DEF Init, TypeOK, Profile
<1>2. RequestInv
  BY IdleTyped DEF Init, RequestInv, Sound, AddPcs, CheckedPcs
<1>3. RolesAreTheBosses
  BY DEF Init, RolesAreTheBosses, IsStaff
<1>4. ASSUME NEW b \in Landlords
      PROVE  Cardinality(StaffOf(b)) + Cardinality(Adders(b))
               <= MaxStaff + Cardinality(Requests) - 1
  <2>1. StaffOf(b) = {} /\ Adders(b) = {}
    BY IdleTyped, StaffAssumption DEF Init, StaffOf, Adders, NoProfile, AddPcs, Bosses
  <2>2. Cardinality(Requests) \in Nat /\ Cardinality(Requests) >= 1
    BY FiniteParts
  <2> QED
    BY <2>1, <2>2, FS_EmptySet, StaffAssumption
<1> QED
  BY <1>1, <1>2, <1>3, <1>4 DEF IInv, LimitInv

LEMMA ArriveKeeps ==
  ASSUME IInv, NEW r \in Requests, Arrive(r)
  PROVE  IInv'
<1>1. ASSUME NEW b \in Bosses, NEW u \in Users, NEW k \in Roles, AddStaff(r, b, u, k)
      PROVE  IInv'
  BY <1>1, AddStaffKeeps
<1>2. ASSUME NEW b \in Bosses, NEW u \in Users, RemoveStaff(r, b, u)
      PROVE  IInv'
  <2> DEFINE new == [Idle EXCEPT !.pc = "removeProfile", !.boss = b, !.user = u]
  <2>1. new \in Request /\ new.pc \notin AddPcs
    BY DEF Idle, Request, Pcs, AddPcs
  <2> QED
    BY <1>2, <2>1, BeginIsQuiet DEF RemoveStaff
<1>3. ASSUME NEW b \in Bosses, NEW u \in Users, FixAccess(r, b, u)
      PROVE  IInv'
  <2> DEFINE new == [Idle EXCEPT !.pc = "fix", !.boss = b, !.user = u]
  <2>1. new \in Request /\ new.pc \notin AddPcs
    BY DEF Idle, Request, Pcs, AddPcs
  <2> QED
    BY <1>3, <2>1, BeginIsQuiet DEF FixAccess
<1>4. ASSUME NEW b \in Bosses, NEW k \in Roles, DeleteRole(r, b, k)
      PROVE  IInv'
  <2> DEFINE new == [Idle EXCEPT !.pc = "roleCount", !.boss = b, !.role = k]
  <2>1. new \in Request /\ new.pc \notin AddPcs
    BY DEF Idle, Request, Pcs, AddPcs
  <2> QED
    BY <1>4, <2>1, BeginIsQuiet DEF DeleteRole
<1>5. CASE RepairAll(r)
  <2> DEFINE new == [Idle EXCEPT !.pc = "repair", !.users = LockedOut]
  <2>1. new \in Request /\ new.pc \notin AddPcs
    BY DEF Idle, Request, Pcs, AddPcs, LockedOut
  <2> QED
    BY <1>5, <2>1, BeginIsQuiet DEF RepairAll
<1> QED
  BY <1>1, <1>2, <1>3, <1>4, <1>5 DEF Arrive, StaffRoutes

LEMMA SameUsers == ASSUME IInv, UNCHANGED user PROVE KeepUsers
  BY DEF IInv, TypeOK, KeepUsers, IsUser

LEMMA AdditionKeeps ==
  ASSUME IInv, NEW r \in Requests,
         AddRole(r) \/ AddFind(r) \/ AddCreate(r) \/ AddCheck(r) \/ AddPromote(r)
  PROVE  IInv'
<1>1. req[r].pc \in CheckedPcs => role[req[r].role] \in {req[r].boss, None}
  BY DEF IInv, RequestInv, Sound
<1>2. CASE AddRole(r)
  BY <1>2, CheckIsQuiet, SameUsers
     DEF AddRole, RoleIsOf, At, Pcs, AddPcs, CheckedPcs
<1>3. CASE AddFind(r)
  <2>1. ASSUME NEW pc \in {"addCheck", "addCreate"}, Goto(r, pc)
        PROVE  IInv'
    BY <1>1, <1>3, <2>1, GotoIsQuiet, SameUsers DEF AddFind, At, Pcs, AddPcs, CheckedPcs
  <2> QED
    BY <1>3, <2>1 DEF AddFind
<1>4. CASE AddCreate(r)
  <2>1. KeepUsers
    BY <1>4, TargetTyped, WriteUser DEF AddCreate, IInv
  <2> QED
    BY <1>1, <1>4, <2>1, CheckIsQuiet DEF AddCreate, At, Pcs, AddPcs, CheckedPcs
<1>5. CASE AddCheck(r)
  BY <1>1, <1>5, CheckIsQuiet, SameUsers DEF AddCheck, At, Pcs, AddPcs, CheckedPcs
<1>6. CASE AddPromote(r)
  <2>1. KeepUsers
    BY <1>6, TargetTyped, WriteUser DEF AddPromote, SetRole, IInv
  <2> QED
    BY <1>1, <1>6, <2>1, CheckIsQuiet DEF AddPromote, At, Pcs, AddPcs, CheckedPcs
<1> QED
  BY <1>2, <1>3, <1>4, <1>5, <1>6

LEMMA RepairKeeps ==
  ASSUME IInv, NEW r \in Requests, RepairOne(r)
  PROVE  IInv'
<1>1. PICK u \in req[r].users :
        /\ At(r, "repair")
        /\ user' = IF IsUser(u) THEN [user EXCEPT ![u] = "STAFF"] ELSE user
        /\ \/ Finish(r)
           \/ req' = [req EXCEPT ![r].users = Remaining(r, u)]
        /\ UNCHANGED <<profile, role>>
  BY DEF RepairOne
<1>2. KeepUsers
  BY <1>1, WriteUser DEF IInv, GlobalRole
<1>3. CASE Finish(r)
  BY <1>1, <1>2, <1>3, FinishIsQuiet
<1>4. CASE req' = [req EXCEPT ![r].users = Remaining(r, u)]
  <2> DEFINE S == Remaining(r, u)
  <2>1. req \in [Requests -> Request] /\ req[r] \in Request /\ req[r].pc = "repair"
    BY <1>1 DEF At, IInv, TypeOK
  <2>2. S \in SUBSET Users
    BY <2>1 DEF Remaining, Request
  <2>3. SameTask([req[r] EXCEPT !.users = S], req[r])
    BY <2>1, <2>2, RecordTyped
  <2>4. req' = [req EXCEPT ![r] = [req[r] EXCEPT !.users = S]]
    BY <1>4, <2>1
  <2> HIDE DEF S
  <2>5. SameTask(req'[r], req[r]) /\ \A o \in Requests \ {r} : req'[o] = req[o]
    BY <2>1, <2>3, <2>4
  <2>6. req' \in [Requests -> Request] /\ OthersKeep(r)
    BY <2>1, <2>3, <2>4, <2>5, RecordTyped DEF OthersKeep, SameTask
  <2>7. Sound(req'[r]) /\ req'[r].pc \notin AddPcs
    BY <2>1, <2>5 DEF SameTask, Sound, AddPcs, CheckedPcs
  <2> QED
    BY <1>1, <1>2, <2>6, <2>7, QuietStep
<1> QED
  BY <1>1, <1>3, <1>4

LEMMA AdvanceKeeps ==
  ASSUME IInv, NEW r \in Requests, Advance(r)
  PROVE  IInv'
<1>1. CASE RemoveRevert(r)
  <2>1. KeepUsers
    BY <1>1, WriteUser DEF RemoveRevert, IInv, GlobalRole
  <2> QED
    BY <1>1, <2>1, FinishIsQuiet DEF RemoveRevert
<1>2. CASE Fix(r)
  <2>1. KeepUsers
    BY <1>2, TargetTyped, WriteUser DEF Fix, SetRole, IInv
  <2> QED
    BY <1>2, <2>1, FinishIsQuiet DEF Fix
<1>3. CASE RoleCount(r)
  BY <1>3, CheckIsQuiet, SameUsers DEF RoleCount, Pcs, AddPcs, CheckedPcs
<1> QED
  BY <1>1, <1>2, <1>3, AdditionKeeps, AddInsertKeeps, RemoveProfileKeeps, RepairKeeps,
     RoleDeleteKeeps
  DEF Advance

LEMMA StepInv == IInv /\ [Next]_vars => IInv'
<1> SUFFICES ASSUME IInv, [Next]_vars PROVE IInv'
  OBVIOUS
<1>1. ASSUME NEW r \in Requests, Abort(r)
      PROVE  IInv'
  BY <1>1, FinishIsQuiet, SameUsers DEF Abort
<1>2. CASE Around
  BY <1>2, CreateRoleKeeps, PurgeProfileKeeps, DeleteUserKeeps, RegisterKeeps DEF Around
<1>3. CASE UNCHANGED vars
  BY <1>3 DEF vars, IInv, TypeOK, RequestInv, Sound, RolesAreTheBosses, LimitInv, IsUser,
              IsStaff, StaffOf, Adders
<1> QED
  BY <1>1, <1>2, <1>3, ArriveKeeps, AdvanceKeeps DEF Next

\* Every column keeps to its type, however requests interleave.
THEOREM TypeCorrect == Spec => []TypeOK
<1>1. IInv => TypeOK
  BY DEF IInv
<1> QED
  BY <1>1, InitInv, StepInv, PTL DEF Spec

\* A member of staff is a user, with a role of their boss, whatever overlaps
\* (addStaff, deleteRole, createRole, deleteUser).
THEOREM RoleOfTheBoss == Spec => []RolesAreTheBosses
<1>1. IInv => RolesAreTheBosses
  BY DEF IInv
<1> QED
  BY <1>1, InitInv, StepInv, PTL DEF Spec

\* Overlapping additions exceed the limit of a plan by one less than they are.
THEOREM LimitExceededAtMostBy == Spec => []StaffLimitBound
<1>1. IInv => StaffLimitBound
  <2> SUFFICES ASSUME IInv, NEW b \in Landlords
               PROVE  Cardinality(StaffOf(b)) <= MaxStaff + Cardinality(Requests) - 1
    BY DEF StaffLimitBound
  <2>1. Cardinality(StaffOf(b)) + Cardinality(Adders(b)) <= MaxStaff + Cardinality(Requests) - 1
    BY DEF IInv, LimitInv
  <2> QED
    BY <2>1, FiniteParts, StaffAssumption
<1> QED
  BY <1>1, InitInv, StepInv, PTL DEF Spec

-----------------------------------------------------------------------------
(* Requests that run alone.  What such a request has brought about still     *)
(* holds, since every step of another request, of the trash and of a user    *)
(* ends its being alone.                                                     *)

\* An addition has made its user one who is let in before it inserts the
\* profile; a removal has deleted the profile before it takes the role away.
Prepared(q) ==
  /\ q.pc = "addInsert" => LetIn(q.user)
  /\ q.pc = "removeRevert" /\ q.user \in Users => ~ IsStaff(q.user)

\* A request that runs alone is the only one, and has made its preparations.
Lone == \A r \in Requests : req[r].alone /\ ~ At(r, "idle") =>
          /\ \A o \in Requests \ {r} : At(o, "idle")
          /\ Prepared(req[r])

LEMMA DisturbedFacts ==
  ASSUME TypeOK, NEW o \in Requests
  PROVE  /\ At(o, "idle") => Disturbed(o) = req[o]
         /\ Disturbed(o).alone => At(o, "idle")
         /\ Disturbed(o).pc = req[o].pc
  BY DEF Disturbed, At, TypeOK, Request

\* Everybody under way has been disturbed.
LEMMA LoneDisturbed ==
  ASSUME \A o \in Requests : req'[o].alone => req'[o].pc = "idle"
  PROVE  Lone'
  BY DEF Lone, At

LEMMA LoneForgets ==
  ASSUME TypeOK, NEW gone, req' = Forget([o \in Requests |-> Disturbed(o)], gone)
  PROVE  Lone'
<1>1. \A o \in Requests : Disturbed(o) \in Request
  BY DisturbedSame DEF SameTask
<1>2. \A o \in Requests : /\ req'[o].pc = Disturbed(o).pc
                          /\ req'[o].alone = Disturbed(o).alone
  BY <1>1 DEF Forget, Request
<1> QED
  BY <1>2, DisturbedFacts, LoneDisturbed DEF At

LEMMA LoneBegins ==
  ASSUME TypeOK, NEW r \in Requests, NEW new \in Request, Begin(r, new),
         new.pc \notin {"addInsert", "removeRevert"}
  PROVE  Lone'
<1> DEFINE mine == [new EXCEPT !.alone = ~ Busy(r)]
<1>1. mine.pc = new.pc /\ mine.alone = ~ Busy(r)
  BY DEF Request
<1>2. At(r, "idle") /\ req' = [o \in Requests |-> IF o = r THEN mine ELSE Disturbed(o)]
  BY DEF Begin
<1> HIDE DEF mine
<1>3. req'[r] = mine /\ \A o \in Requests \ {r} : req'[o] = Disturbed(o)
  BY <1>2
<1>4. \A o \in Requests \ {r} : req'[o].alone => req'[o].pc = "idle"
  BY <1>3, DisturbedFacts DEF At
<1>5. req'[r].alone => \A o \in Requests \ {r} : req'[o].pc = "idle"
  BY <1>1, <1>3, DisturbedFacts DEF Busy, At
<1>6. Prepared(req[r])'
  BY <1>1, <1>3 DEF Prepared
<1> QED
  BY <1>4, <1>5, <1>6 DEF Lone, At

\* One request makes a step: it ends, or is prepared for what comes next.
LEMMA LoneGoes ==
  ASSUME TypeOK, Lone, NEW r \in Requests, ~ At(r, "idle"), NEW new,
         req' = [req EXCEPT ![r] = new],
         \/ new.pc = "idle"
         \/ /\ new.alone = req[r].alone
            /\ new.alone => Prepared(req[r])'
  PROVE  Lone'
<1>1. req'[r] = new /\ \A o \in Requests \ {r} : req'[o] = req[o]
  BY DEF TypeOK
<1>2. \A o \in Requests \ {r} : req[o].alone => At(o, "idle")
  BY DEF Lone
<1> QED
  BY <1>1, <1>2 DEF Lone, At

LEMMA LoneEnds ==
  ASSUME TypeOK, Lone, NEW r \in Requests, ~ At(r, "idle"), Finish(r)
  PROVE  Lone'
  BY LoneGoes, IdleTyped DEF Finish

LEMMA LoneOn ==
  ASSUME TypeOK, Lone, NEW r \in Requests, ~ At(r, "idle"), NEW pc \in Pcs, Goto(r, pc),
         pc = "addInsert" => LetIn(req[r].user)',
         pc # "removeRevert"
  PROVE  Lone'
<1> DEFINE new == [req[r] EXCEPT !.pc = pc]
<1>1. new.pc = pc /\ new.user = req[r].user /\ new.alone = req[r].alone
  BY DEF TypeOK, Request
<1>2. req' = [req EXCEPT ![r] = new] /\ req'[r] = new
  BY DEF Goto, TypeOK
<1> HIDE DEF new
<1>3. LetIn(req[r].user)' <=> user'[new.user] \in {"STAFF", "SAAS_ADMIN"}
  BY <1>2 DEF LetIn
<1>4. Prepared(req[r])'
  BY <1>1, <1>2, <1>3 DEF Prepared, LetIn
<1> QED
  BY <1>1, <1>2, <1>4, LoneGoes

\* Whoever works for a boss is let in.
LEMMA TargetIsLetIn == \A b : TargetRole(b) \in {"STAFF", "SAAS_ADMIN"}
  BY DEF TargetRole

LEMMA LoneAdds ==
  ASSUME IInv, Lone, NEW r \in Requests, AddCreate(r) \/ AddPromote(r)
  PROVE  Lone'
<1> DEFINE u == req[r].user
<1>1. TypeOK /\ ~ At(r, "idle") /\ u \in Users /\ "addInsert" \in Pcs
  BY DEF IInv, RequestInv, Sound, AddPcs, AddCreate, AddPromote, At, Pcs
<1>2. CASE Finish(r)
  BY <1>1, <1>2, LoneEnds
<1>3. CASE ~ Finish(r)
  <2>1. /\ Goto(r, "addInsert")
        /\ user' = [user EXCEPT ![u] = TargetRole(req[r].boss)]
    BY <1>3 DEF AddCreate, AddPromote, Check, SetRole
  <2>2. req'[r].user = u
    BY <1>1, <2>1, GotoStep
  <2>3. user'[u] \in {"STAFF", "SAAS_ADMIN"}
    BY <1>1, <2>1, TargetIsLetIn DEF TypeOK
  <2>4. LetIn(req[r].user)'
    BY <2>2, <2>3 DEF LetIn
  <2> QED
    BY <1>1, <2>1, <2>4, LoneOn
<1> QED
  BY <1>2, <1>3

LEMMA LoneRemoves ==
  ASSUME IInv, Lone, NEW r \in Requests, RemoveProfile(r)
  PROVE  Lone'
<1>1. TypeOK /\ At(r, "removeProfile") /\ req[r] \in Request
  BY DEF IInv, TypeOK, RemoveProfile
<1>2. CASE Finish(r)
  BY <1>1, <1>2, LoneEnds DEF At
<1>3. CASE ~ Finish(r)
  <2> DEFINE new == [req[r] EXCEPT !.pc = "removeRevert"]
             u   == req[r].user
  <2>1. new.pc = "removeRevert" /\ new.user = u /\ new.alone = req[r].alone
    BY <1>1 DEF Request
  <2>2. /\ req' = Forget([req EXCEPT ![r] = new], {u})
        /\ profile' = [profile EXCEPT ![u] = NoProfile]
    BY <1>1, <1>3 DEF RemoveProfile, TypeOK
  <2> HIDE DEF new
  <2>3. req'[r] = new /\ \A o \in Requests \ {r} : /\ req'[o].pc = req[o].pc
                                                   /\ req'[o].alone = req[o].alone
    BY <1>1, <2>1, <2>2 DEF Forget, TypeOK, Request
  <2>4. Prepared(req[r])'
    BY <1>1, <2>1, <2>2, <2>3 DEF Prepared, IsStaff, TypeOK
  <2> QED
    BY <1>1, <2>1, <2>3, <2>4 DEF Lone, At
<1> QED
  BY <1>2, <1>3

LEMMA LoneRepairs ==
  ASSUME TypeOK, Lone, NEW r \in Requests, RepairOne(r)
  PROVE  Lone'
<1> PICK u \in req[r].users :
      /\ At(r, "repair")
      /\ IF Remaining(r, u) = {} THEN Finish(r)
         ELSE req' = [req EXCEPT ![r].users = Remaining(r, u)]
  BY DEF RepairOne
<1> DEFINE new == [req[r] EXCEPT !.users = Remaining(r, u)]
<1>1. new.pc = "repair" /\ new.alone = req[r].alone
  BY DEF TypeOK, Request, At
<1>2. CASE Finish(r)
  BY <1>2, LoneEnds DEF At
<1>3. CASE ~ Finish(r)
  <2>1. req' = [req EXCEPT ![r] = new] /\ req'[r] = new
    BY <1>3 DEF TypeOK
  <2> HIDE DEF new
  <2>2. Prepared(req[r])'
    BY <1>1, <2>1 DEF Prepared
  <2> QED
    BY <1>1, <2>1, <2>2, LoneGoes DEF At
<1> QED
  BY <1>2, <1>3

LEMMA LoneAdvances ==
  ASSUME IInv, Lone, NEW r \in Requests, Advance(r)
  PROVE  Lone'
<1>1. TypeOK
  BY DEF IInv
<1>2. CASE AddRole(r)
  BY <1>1, <1>2, LoneOn, LoneEnds DEF AddRole, Check, At, Pcs
<1>3. CASE AddFind(r)
  BY <1>1, <1>3, LoneOn DEF AddFind, At, Pcs
<1>4. CASE AddCheck(r)
  BY <1>1, <1>4, LoneOn, LoneEnds DEF AddCheck, Check, At, Pcs
<1>5. CASE RoleCount(r)
  BY <1>1, <1>5, LoneOn, LoneEnds DEF RoleCount, Check, At, Pcs
<1>6. CASE Finish(r) /\ ~ At(r, "idle")
  BY <1>1, <1>6, LoneEnds
<1> QED
  BY <1>1, <1>2, <1>3, <1>4, <1>5, <1>6, LoneAdds, LoneRemoves, LoneRepairs
     DEF Advance, AddInsert, RemoveRevert, Fix, RoleDelete, At

LEMMA LoneArrives ==
  ASSUME TypeOK, NEW r \in Requests, Arrive(r)
  PROVE  Lone'
<1> SUFFICES \E new \in Request : /\ new.pc \notin {"addInsert", "removeRevert"}
                                  /\ Begin(r, new)
  BY LoneBegins
<1> USE DEF Idle, Request, Pcs
<1>1. CASE \E b \in Bosses, u \in Users, k \in Roles : AddStaff(r, b, u, k)
  BY <1>1 DEF AddStaff
<1>2. CASE \E b \in Bosses, u \in Users : RemoveStaff(r, b, u)
  BY <1>2 DEF RemoveStaff
<1>3. CASE \E b \in Bosses, u \in Users : FixAccess(r, b, u)
  BY <1>3 DEF FixAccess
<1>4. CASE \E b \in Bosses, k \in Roles : DeleteRole(r, b, k)
  BY <1>4 DEF DeleteRole
<1>5. CASE RepairAll(r)
  BY <1>5 DEF RepairAll, LockedOut
<1> QED
  BY <1>1, <1>2, <1>3, <1>4, <1>5 DEF Arrive, StaffRoutes

LEMMA LoneInv == IInv /\ Lone /\ [Next]_vars => Lone'
<1> SUFFICES ASSUME IInv, Lone, [Next]_vars PROVE Lone'
  OBVIOUS
<1>1. TypeOK
  BY DEF IInv
<1>2. CASE UNCHANGED vars
  BY <1>2 DEF vars, Lone, At, Prepared, LetIn, IsStaff
<1>3. CASE Around
  <2>1. CASE Disturb
    BY <1>1, <2>1, DisturbedFacts, LoneDisturbed DEF Disturb, At
  <2>2. CASE \E u \in Users : PurgeProfile(u) \/ DeleteUser(u)
    BY <1>1, <2>2, LoneForgets DEF PurgeProfile, DeleteUser
  <2> QED
    BY <1>3, <2>1, <2>2 DEF Around, CreateRole, Register
<1>4. ASSUME NEW r \in Requests, Abort(r) PROVE Lone'
  BY <1>1, <1>4, LoneEnds DEF Abort
<1> QED
  BY <1>1, <1>2, <1>3, <1>4, LoneArrives, LoneAdvances DEF Next

\* Which user's row or profile a step writes, and to what.
LEMMA PreparedLocksNobodyOut ==
  ASSUME IInv, Lone, NEW r \in Requests
  PROVE  LocksNobodyOut(r)
<1> SUFFICES ASSUME Advance(r) \/ Abort(r), ~ At(r, "idle"), req[r].alone,
                    NEW u \in Users, IsStaff(u)', ~ LetIn(u)'
             PROVE  IsStaff(u) /\ ~ LetIn(u)
  BY DEF LocksNobodyOut
<1>1. TypeOK /\ Prepared(req[r])
  BY DEF IInv, Lone
<1>2. CASE UNCHANGED <<user, profile>>
  BY <1>2 DEF IsStaff, LetIn
<1>3. ASSUME NEW v, NEW g \in {"STAFF", "SAAS_ADMIN"}, user' = [user EXCEPT ![v] = g],
             UNCHANGED profile
      PROVE  IsStaff(u) /\ ~ LetIn(u)
  BY <1>1, <1>3 DEF IsStaff, LetIn, TypeOK
<1>4. CASE AddCreate(r) \/ AddPromote(r) \/ Fix(r) \/ RepairOne(r)
  BY <1>2, <1>3, <1>4, TargetIsLetIn DEF AddCreate, AddPromote, Fix, RepairOne, SetRole
<1>5. CASE AddInsert(r)
  <2>1. LetIn(req[r].user) /\ UNCHANGED user
    BY <1>1, <1>5 DEF AddInsert, At, Prepared
  <2>2. u # req[r].user
    BY <2>1 DEF LetIn
  <2>3. profile'[u] = profile[u]
    BY <1>1, <1>5, <2>2 DEF AddInsert, TypeOK
  <2> QED
    BY <2>1, <2>3 DEF IsStaff, LetIn
<1>6. CASE RemoveProfile(r)
  <2>1. UNCHANGED user
    BY <1>6 DEF RemoveProfile
  <2>2. profile'[u] = profile[u] \/ profile'[u] = NoProfile
    BY <1>1, <1>6 DEF RemoveProfile, TypeOK
  <2> QED
    BY <2>1, <2>2 DEF IsStaff, LetIn
<1>7. CASE RemoveRevert(r)
  <2>1. UNCHANGED profile /\ (req[r].user \in Users => ~ IsStaff(req[r].user))
    BY <1>1, <1>7 DEF RemoveRevert, At, Prepared
  <2>2. u # req[r].user
    BY <2>1 DEF IsStaff
  <2>3. user'[u] = user[u]
    BY <1>1, <1>7, <2>2 DEF RemoveRevert, TypeOK
  <2> QED
    BY <2>1, <2>3 DEF IsStaff, LetIn
<1> QED
  BY <1>2, <1>4, <1>5, <1>6, <1>7 DEF Advance, Abort, AddRole, AddFind, AddCheck, RoleCount,
     RoleDelete

\* addStaff, removeStaff, fixStaffAccess and the repair of all, run alone, leave
\* no member of staff whom the portal does not let in, even if they stop half-way:
\* of the two tables each writes the harmless one first.
THEOREM NobodyLockedOut == Spec => AloneLocksNobodyOut
<1>1. Init => Lone
  BY IdleTyped DEF Init, Lone, At
<1>2. IInv /\ Lone /\ [Next]_vars => [\A r \in Requests : LocksNobodyOut(r)]_vars
  BY PreparedLocksNobodyOut
<1> QED
  BY <1>1, <1>2, LoneInv, InitInv, StepInv, PTL DEF Spec, AloneLocksNobodyOut
============================================================================

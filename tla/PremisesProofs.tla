--------------------------- MODULE PremisesProofs ---------------------------
(***************************************************************************)
(* Theorems about Premises for any requests, tree, agreements and limit.   *)
(***************************************************************************)
EXTENDS Premises, TLAPS

\* What a request has in hand: a creation one row that is not there yet, a
\* deletion one item with rooms below it, and agreements that are there or were.
Sound(q) ==
  /\ q.pc = "insert" => \E i \in Items : q.items = {i} /\ item[i] = "none"
  /\ q.pc \in {"purgeLeases", "purgeCommit"} =>
       \E i \in Items : q.items = {i} /\ q.rooms \subseteq Under(i)
  /\ q.pc = "purgeCommit" => \A l \in q.ids :
       /\ lease[l].status # "none"
       /\ Live(l) => lease[l].room \in q.rooms \/ lease[l].prop \in q.items

Tasks == \A r \in Requests : Sound(req[r])

\* No two requests create one row.
OneInsert ==
  \A r, o \in Requests :
    r # o /\ At(r, "insert") /\ At(o, "insert") => req[r].items \cap req[o].items = {}

\* The foreign keys: of a floor and a room what is above them exists, of an
\* agreement its room and property.
Tree == \A i \in Items : Exists(i) => \A j \in Above(i) : Exists(j)
Refs == \A l \in Leases : Live(l) =>
          /\ lease[l].room \in Rooms /\ Exists(lease[l].room)
          /\ lease[l].prop \in Properties /\ Exists(lease[l].prop)

IInv == TypeOK /\ Tasks /\ OneInsert /\ Tree /\ Refs

-----------------------------------------------------------------------------
(* The tree. *)

LEMMA AboveFacts ==
  /\ \A p \in Properties : Above(p) = {}
  /\ \A f \in Floors : Above(f) = {PropertyOf[f]} /\ PropertyOf[f] \in Properties
  /\ \A o \in Rooms : /\ Above(o) = {FloorOf[o], PropertyOf[FloorOf[o]]}
                      /\ FloorOf[o] \in Floors /\ PropertyOf[FloorOf[o]] \in Properties
  BY PremisesAssumption DEF Above

LEMMA AboveIsTransitive ==
  ASSUME NEW i \in Items, NEW j \in Above(i)
  PROVE  j \in Items /\ j # i /\ Above(j) \subseteq Above(i)
  BY AboveFacts, PremisesAssumption DEF Items

LEMMA UnderFacts ==
  ASSUME NEW i \in Items
  PROVE  /\ i \in Under(i)
         /\ Under(i) \subseteq Items
         /\ \A j \in Items : i \in Above(j) => j \in Under(i)
         /\ \A j \in Items : \A k \in Above(j) : k \in Under(i) => j \in Under(i)
  BY AboveIsTransitive DEF Under

LEMMA ItemsFacts == Properties \subseteq Items /\ Floors \subseteq Items /\ Rooms \subseteq Items
  BY DEF Items

-----------------------------------------------------------------------------
(* Records of requests. *)

\* The same request, up to what it knows of others.
SameTask(p, q) ==
  /\ p \in Request
  /\ p.pc = q.pc /\ p.items = q.items /\ p.rooms = q.rooms /\ p.ids = q.ids

OthersKeep(r) == \A o \in Requests \ {r} : SameTask(req'[o], req[o])
AllKeep       == \A o \in Requests : SameTask(req'[o], req[o])

LEMMA IdleTyped == Idle \in Request /\ Idle.pc = "idle"
  BY DEF Idle, Request, Pcs

LEMMA RecordTyped ==
  ASSUME NEW q \in Request
  PROVE  SameTask(q, q) /\ \A v \in BOOLEAN : SameTask([q EXCEPT !.alone = v], q)
  BY DEF SameTask, Request

LEMMA DisturbedSame ==
  ASSUME TypeOK, NEW o \in Requests
  PROVE  SameTask(Disturb[o], req[o])
  BY RecordTyped DEF TypeOK, Disturb

LEMMA DisturbStep ==
  ASSUME TypeOK, req' = Disturb
  PROVE  req' \in [Requests -> Request] /\ AllKeep
<1>1. \A o \in Requests : SameTask(Disturb[o], req[o])
  BY DisturbedSame
<1> QED
  BY <1>1 DEF Disturb, AllKeep, SameTask

\* A request that starts with the record new.
LEMMA StartStep ==
  ASSUME TypeOK, NEW r \in Requests, NEW new \in Request, req' = [Disturb EXCEPT ![r] = new]
  PROVE  req' \in [Requests -> Request] /\ OthersKeep(r) /\ req'[r] = new
<1>1. \A o \in Requests : SameTask(Disturb[o], req[o])
  BY DisturbedSame
<1>2. Disturb = [o \in Requests |-> Disturb[o]]
  BY DEF Disturb
<1> QED
  BY <1>1, <1>2 DEF OthersKeep, SameTask

LEMMA BeginStep ==
  ASSUME TypeOK, NEW r \in Requests, NEW pc \in Pcs, NEW S \in SUBSET Items, Begin(r, pc, S)
  PROVE  /\ req' \in [Requests -> Request] /\ OthersKeep(r)
         /\ req'[r].pc = pc /\ req'[r].items = S
<1> DEFINE new == [Idle EXCEPT !.pc = pc, !.items = S, !.alone = ~ Busy(r)]
<1>1. new \in Request /\ new.pc = pc /\ new.items = S
  BY DEF Idle, Request, Busy
<1>2. req' = [Disturb EXCEPT ![r] = new]
  BY DEF Begin
<1> HIDE DEF new
<1> QED
  BY <1>1, <1>2, StartStep

LEMMA FinishStep ==
  ASSUME TypeOK, NEW r \in Requests, Finish(r)
  PROVE  req' \in [Requests -> Request] /\ OthersKeep(r) /\ req'[r] = Idle
  BY IdleTyped, RecordTyped DEF TypeOK, Finish, OthersKeep

LEMMA GotoStep ==
  ASSUME TypeOK, NEW r \in Requests, NEW pc \in Pcs, Goto(r, pc)
  PROVE  req' \in [Requests -> Request] /\ OthersKeep(r) /\ req'[r].pc = pc
<1>1. [req[r] EXCEPT !.pc = pc] \in Request
  BY DEF TypeOK, Request
<1>2. req' = [req EXCEPT ![r] = [req[r] EXCEPT !.pc = pc]]
  BY DEF Goto, TypeOK
<1>3. req[r] \in Request
  BY DEF TypeOK
<1> QED
  BY <1>1, <1>2, <1>3, RecordTyped DEF TypeOK, OthersKeep, Request

-----------------------------------------------------------------------------
(* Steps of one request that touch no table. *)

LEMMA RequestOnly ==
  ASSUME IInv, NEW r \in Requests, UNCHANGED <<item, lease, owner>>,
         req' \in [Requests -> Request], OthersKeep(r), Sound(req'[r]),
         req'[r].pc = "insert" => \A o \in Requests : req'[r].items \cap req[o].items = {}
  PROVE  IInv'
<1>1. TypeOK' /\ Tree' /\ Refs'
  BY DEF IInv, TypeOK, Tree, Refs, Exists, Live
<1>2. \A o \in Requests \ {r} : Sound(req'[o])
  BY DEF IInv, Tasks, OthersKeep, SameTask, Sound
<1>3. Tasks'
  BY <1>2 DEF Tasks, Sound, Live
<1>4. OneInsert'
  BY DEF IInv, OneInsert, At, OthersKeep, SameTask
<1> QED
  BY <1>1, <1>3, <1>4 DEF IInv

\* The checks and writes of archive find nothing in the record that matters here.
LightPcs == Pcs \ {"insert", "purgeLeases", "purgeCommit"}

LEMMA LightStep ==
  ASSUME IInv, NEW r \in Requests, UNCHANGED <<item, lease, owner>>,
         req' \in [Requests -> Request], OthersKeep(r), req'[r].pc \in LightPcs
  PROVE  IInv'
<1>1. Sound(req'[r])
  BY DEF Sound, LightPcs
<1> QED
  BY <1>1, RequestOnly DEF LightPcs

LEMMA CheckStep ==
  ASSUME IInv, NEW r \in Requests, UNCHANGED <<item, lease, owner>>,
         NEW test, NEW pc \in {"propertyPending", "archiveWrite"}, Check(r, test, pc)
  PROVE  IInv'
<1>1. pc \in Pcs /\ pc \in LightPcs /\ "idle" \in LightPcs
  BY DEF Pcs, LightPcs
<1>2. CASE Finish(r)
  BY <1>1, <1>2, FinishStep, IdleTyped, LightStep DEF IInv
<1>3. CASE Goto(r, pc)
  BY <1>1, <1>3, GotoStep, LightStep DEF IInv
<1> QED
  BY <1>2, <1>3 DEF Check

LEMMA CreateInv ==
  ASSUME IInv, NEW r \in Requests, NEW i \in Items, Create(r, i)
  PROVE  IInv'
<1>1. /\ req' \in [Requests -> Request] /\ OthersKeep(r)
      /\ req'[r].pc = "insert" /\ req'[r].items = {i}
  <2>1. "insert" \in Pcs
    BY DEF Pcs
  <2> QED
    BY <2>1, BeginStep DEF IInv, Create
<1>2. Sound(req'[r])
  BY <1>1 DEF Sound, Create
<1> QED
  BY <1>1, <1>2, RequestOnly DEF Create

LEMMA ArchiveInv ==
  ASSUME IInv, NEW r \in Requests, NEW S \in SUBSET Items,
         NEW pc \in {"propertyActive", "floorActive", "roomActive", "bulkVerify"}, Archive(r, pc, S)
  PROVE  IInv'
<1>1. pc \in Pcs /\ pc \in LightPcs
  BY DEF Pcs, LightPcs
<1> QED
  BY <1>1, BeginStep, LightStep DEF IInv, Archive

LEMMA PurgeStartInv ==
  ASSUME IInv, NEW r \in Requests, NEW i \in Items, NEW rooms \in SUBSET Rooms,
         rooms \subseteq Under(i), PurgeStart(r, i, rooms)
  PROVE  IInv'
<1> DEFINE new == [Idle EXCEPT !.pc = "purgeLeases", !.items = {i}, !.rooms = rooms,
                               !.alone = ~ Busy(r)]
<1>1. new \in Request /\ new.pc = "purgeLeases" /\ new.items = {i} /\ new.rooms = rooms
  BY DEF Idle, Request, Pcs, Busy
<1>2. req' = [Disturb EXCEPT ![r] = new] /\ UNCHANGED <<item, lease, owner>>
  BY DEF PurgeStart
<1> HIDE DEF new
<1>3. Sound(new)
  BY <1>1 DEF Sound
<1> QED
  BY <1>1, <1>2, <1>3, StartStep, RequestOnly DEF IInv

LEMMA PurgeReadInv ==
  ASSUME IInv, NEW r \in Requests, PurgeRead(r)
  PROVE  IInv'
<1> DEFINE ids == Doomed(req[r])
           new == [req[r] EXCEPT !.pc = "purgeCommit", !.ids = ids,
                                 !.billed = {l \in ids : lease[l].invoice # "none"}]
<1>1. req[r] \in Request /\ ids \in SUBSET Leases
  BY DEF IInv, TypeOK, Doomed
<1>2. /\ new \in Request /\ new.pc = "purgeCommit" /\ new.ids = ids
      /\ new.items = req[r].items /\ new.rooms = req[r].rooms
  <2> HIDE DEF ids
  <2> QED
    BY <1>1 DEF Request, Pcs
<1>3. req' = [req EXCEPT ![r] = new] /\ UNCHANGED <<item, lease, owner>>
  BY DEF PurgeRead, IInv, TypeOK
<1>4. \A l \in ids : Live(l) /\ (lease[l].room \in req[r].rooms \/ lease[l].prop \in req[r].items)
  BY DEF Doomed
<1>5. req[r].pc = "purgeLeases" /\ Sound(req[r])
  BY DEF PurgeRead, At, IInv, Tasks
<1> HIDE DEF ids, new
<1>6. Sound(new)
  BY <1>2, <1>4, <1>5 DEF Sound, Live
<1>7. req' \in [Requests -> Request] /\ OthersKeep(r) /\ req'[r] = new
  BY <1>2, <1>3, RecordTyped DEF IInv, TypeOK, OthersKeep
<1> QED
  BY <1>2, <1>3, <1>6, <1>7, RequestOnly

-----------------------------------------------------------------------------
(* Steps that write a table. *)

TablesTyped ==
  /\ item' \in [Items -> {"none", "listed", "archived", "gone"}]
  /\ lease' \in [Leases -> Lease]
  /\ owner' \in BOOLEAN

\* Rows come into being only if they are in S.
BornIn(S) == \A i \in Items \ S : item[i] = "none" => item'[i] = "none"

\* An agreement does not change places, and does not come back.
LeasesStay ==
  \A l \in Leases : lease[l].status # "none" =>
    /\ lease'[l].status # "none"
    /\ Live(l)' => Live(l) /\ lease'[l].room = lease[l].room /\ lease'[l].prop = lease[l].prop

LEMMA SoundKept ==
  ASSUME LeasesStay, NEW S, BornIn(S), NEW p \in Request, NEW q, SameTask(p, q), Sound(q),
         q.pc = "insert" => q.items \cap S = {}
  PROVE  Sound(p)'
<1>1. p.pc = q.pc /\ p.items = q.items /\ p.rooms = q.rooms /\ p.ids = q.ids /\ p.ids \subseteq Leases
  BY DEF SameTask, Request
<1>2. q.pc = "insert" => \E i \in Items : q.items = {i} /\ item'[i] = "none"
  BY DEF Sound, BornIn
<1> QED
  BY <1>1, <1>2 DEF Sound, LeasesStay, Live

\* The same, for the requests of a step.
LEMMA TaskKept ==
  ASSUME IInv, LeasesStay, NEW o \in Requests, SameTask(req'[o], req[o]), NEW S, BornIn(S),
         At(o, "insert") => req[o].items \cap S = {}
  PROVE  Sound(req[o])'
<1> PICK p \in Request : p = req'[o]
  BY DEF SameTask
<1> PICK q \in Request : q = req[o]
  BY DEF IInv, TypeOK
<1>1. SameTask(p, q) /\ Sound(q) /\ (q.pc = "insert" => q.items \cap S = {})
  BY DEF IInv, Tasks, At
<1>2. Sound(p)'
  BY <1>1, SoundKept
<1> QED
  BY <1>2 DEF Sound, Live

LEMMA RequestWrites ==
  ASSUME IInv, NEW r \in Requests, req' \in [Requests -> Request], OthersKeep(r), req'[r] = Idle,
         NEW S, TablesTyped, LeasesStay, Tree', Refs', BornIn(S),
         S = {} \/ (At(r, "insert") /\ S = req[r].items)
  PROVE  IInv'
<1>1. TypeOK'
  BY DEF TablesTyped, TypeOK
<1>2. ASSUME NEW o \in Requests \ {r} PROVE Sound(req[o])'
  <2>1. At(o, "insert") => req[o].items \cap S = {}
    BY DEF IInv, OneInsert
  <2> QED
    BY <2>1, TaskKept DEF OthersKeep
<1>3. Sound(req[r])'
  BY IdleTyped DEF Sound
<1>4. OneInsert'
  BY IdleTyped DEF IInv, OneInsert, OthersKeep, SameTask, At
<1> QED
  BY <1>1, <1>2, <1>3, <1>4 DEF IInv, Tasks

LEMMA OtherWrites ==
  ASSUME IInv, req' = Disturb, TablesTyped, LeasesStay, Tree', Refs', BornIn({})
  PROVE  IInv'
<1>1. req' \in [Requests -> Request] /\ AllKeep
  BY DisturbStep DEF IInv
<1>2. TypeOK'
  BY <1>1 DEF TablesTyped, TypeOK
<1>3. ASSUME NEW o \in Requests PROVE Sound(req[o])'
  BY <1>1, TaskKept DEF AllKeep
<1>4. OneInsert'
  BY <1>1 DEF IInv, OneInsert, AllKeep, SameTask, At
<1> QED
  BY <1>2, <1>3, <1>4 DEF IInv, Tasks

\* As long as what exists is the same, tree and references are whole.
LEMMA SameExistence ==
  ASSUME IInv, UNCHANGED <<lease, owner>>, item' \in [Items -> {"none", "listed", "archived", "gone"}],
         \A i \in Items : (Exists(i)' <=> Exists(i)) /\ (item[i] = "none" => item'[i] = "none")
  PROVE  TablesTyped /\ LeasesStay /\ Tree' /\ Refs' /\ BornIn({})
<1>1. TablesTyped /\ LeasesStay /\ BornIn({})
  BY DEF IInv, TypeOK, TablesTyped, LeasesStay, Live, BornIn
<1>2. Tree'
  BY AboveIsTransitive DEF IInv, Tree
<1>3. Refs'
  BY ItemsFacts DEF IInv, Refs, Live
<1> QED
  BY <1>1, <1>2, <1>3

LEMMA ArchiveWriteInv ==
  ASSUME IInv, NEW r \in Requests, ArchiveWrite(r)
  PROVE  IInv'
<1>1. /\ item' = [i \in Items |-> IF i \in req[r].items /\ Exists(i) THEN "archived" ELSE item[i]]
      /\ UNCHANGED <<lease, owner>> /\ Finish(r)
  BY DEF ArchiveWrite
<1>2. TablesTyped /\ LeasesStay /\ Tree' /\ Refs' /\ BornIn({})
  BY <1>1, SameExistence DEF IInv, TypeOK, Exists
<1> QED
  BY <1>1, <1>2, FinishStep, RequestWrites DEF IInv, BornIn

LEMMA RestoreInv ==
  ASSUME IInv, NEW r \in Requests, NEW i \in Items, Restore(r, i)
  PROVE  IInv'
<1>1. item' = [item EXCEPT ![i] = "listed"] /\ UNCHANGED <<lease, owner>> /\ req' = Disturb /\ Exists(i)
  BY DEF Restore
<1>2. TablesTyped /\ LeasesStay /\ Tree' /\ Refs' /\ BornIn({})
  BY <1>1, SameExistence DEF IInv, TypeOK, Exists
<1> QED
  BY <1>1, <1>2, OtherWrites

\* What is inserted hangs on what exists.
LEMMA InsertEffect ==
  ASSUME IInv, NEW r \in Requests, Insert(r)
  PROVE  \E i \in Items :
           /\ item[i] = "none" /\ req[r].items = {i}
           /\ \/ item' = [item EXCEPT ![i] = "listed"] /\ \A j \in Above(i) : Exists(j)
              \/ item' = item
<1>1. PICK i \in Items : req[r].items = {i} /\ item[i] = "none"
  BY DEF IInv, Tasks, Sound, Insert, At
<1>2. item' = [k \in Items |-> IF k \in {i} /\ (\A j \in Above(k) : Exists(j))
                                             /\ (k \in Properties => owner)
                               THEN "listed" ELSE item[k]]
  BY <1>1 DEF Insert
<1>3. CASE (\A j \in Above(i) : Exists(j)) /\ (i \in Properties => owner)
  <2>1. item' = [item EXCEPT ![i] = "listed"]
    BY <1>2, <1>3 DEF IInv, TypeOK
  <2> QED
    BY <1>1, <1>3, <2>1
<1>4. CASE ~ ((\A j \in Above(i) : Exists(j)) /\ (i \in Properties => owner))
  <2>1. item' = item
    BY <1>2, <1>4 DEF IInv, TypeOK
  <2> QED
    BY <1>1, <2>1
<1> QED
  BY <1>3, <1>4

LEMMA InsertInv ==
  ASSUME IInv, NEW r \in Requests, Insert(r)
  PROVE  IInv'
<1> PICK i \in Items :
      /\ item[i] = "none" /\ req[r].items = {i}
      /\ \/ item' = [item EXCEPT ![i] = "listed"] /\ \A j \in Above(i) : Exists(j)
         \/ item' = item
  BY InsertEffect
<1>1. UNCHANGED <<lease, owner>> /\ Finish(r) /\ At(r, "insert")
  BY DEF Insert
<1>2. TablesTyped /\ LeasesStay /\ BornIn({i})
  BY <1>1 DEF IInv, TypeOK, TablesTyped, LeasesStay, Live, BornIn
<1>3. \A j \in Items : Exists(j) => Exists(j)'
  BY DEF IInv, TypeOK, Exists
<1>4. \A j \in Items : Exists(j)' => Exists(j) \/ (j = i /\ \A k \in Above(i) : Exists(k))
  BY DEF IInv, TypeOK, Exists
<1>5. Tree'
  BY <1>3, <1>4, AboveIsTransitive DEF IInv, Tree
<1>6. Refs'
  BY <1>1, <1>3, ItemsFacts DEF IInv, Refs, Live
<1> QED
  BY <1>1, <1>2, <1>5, <1>6, FinishStep, RequestWrites DEF IInv

\* The deletions, written out.
LEMMA ScriptFacts ==
  /\ Len(Script) = 4
  /\ Script[1] = "payment_submissions" /\ Script[2] = "utility_bills"
  /\ Script[3] = "invoices" /\ Script[4] = "rental_agreements"
  BY DEF Script

\* After them there are the agreements that were not read.
LEMMA LeftInTheEnd ==
  ASSUME NEW q, NEW l \in Leases, Live(l), l \notin q.ids
  PROVE  "rental_agreements" \in Left(q, Len(Script), l)
<1>1. "rental_agreements" \in Rows(l)
  BY DEF Rows
<1>2. \A j \in 1..4 : l \in Given(q)[Script[j]] => Script[j] # "rental_agreements"
  BY ScriptFacts DEF Given
<1> QED
  BY <1>1, <1>2, ScriptFacts DEF Left

\* What a deletion for good does to the tables: all, or nothing.
Purged(r, i, gone) ==
  /\ i \in gone /\ gone = {j \in Under(i) : Exists(j)}
  /\ item' = [j \in Items |-> IF j \in gone THEN "gone" ELSE item[j]]
  /\ lease' = [l \in Leases |-> IF l \in req[r].ids /\ Live(l) THEN [NoLease EXCEPT !.status = "gone"]
                                ELSE lease[l]]
  /\ \A l \in Leases \ req[r].ids : Live(l) =>
       lease[l].room \notin gone /\ lease[l].prop \notin gone

LEMMA PurgeEffect ==
  ASSUME IInv, NEW r \in Requests, PurgeCommit(r), ~ UNCHANGED <<item, lease, owner>>
  PROVE  \E i \in Items : \E gone \in SUBSET Items :
           /\ req[r].items = {i} /\ req[r].rooms \subseteq Under(i)
           /\ \A l \in req[r].ids : lease[l].status # "none"
           /\ \A l \in req[r].ids :
                Live(l) => lease[l].room \in req[r].rooms \/ lease[l].prop = i
           /\ Purged(r, i, gone)
<1>1. Sound(req[r]) /\ req[r].pc = "purgeCommit"
  BY DEF IInv, Tasks, PurgeCommit, At
<1>2. PICK i \in Items : req[r].items = {i} /\ req[r].rooms \subseteq Under(i)
  BY <1>1 DEF Sound
<1>3. Swept(req[r]) = Under(i)
  BY <1>2 DEF Swept
<1> DEFINE gone == {j \in Under(i) : Exists(j)}
<1>4. /\ req[r].items \subseteq gone /\ KeysAllow(req[r], gone)
      /\ item' = [j \in Items |-> IF j \in gone THEN "gone" ELSE item[j]]
      /\ lease' = [l \in Leases |-> IF l \in req[r].ids /\ Live(l)
                                      THEN [NoLease EXCEPT !.status = "gone"] ELSE lease[l]]
  BY <1>3 DEF PurgeCommit
<1>5. gone \in SUBSET Items
  BY UnderFacts
<1>6. \A l \in Leases : "rental_agreements" \in Left(req[r], Len(Script), l) =>
        lease[l].room \notin gone /\ lease[l].prop \notin gone
  BY <1>4 DEF KeysAllow
<1>7. \A l \in Leases \ req[r].ids : Live(l) => lease[l].room \notin gone /\ lease[l].prop \notin gone
  BY <1>6, LeftInTheEnd
<1>8. Purged(r, i, gone)
  BY <1>2, <1>4, <1>7 DEF Purged
<1>9. \A l \in req[r].ids :
        /\ lease[l].status # "none"
        /\ Live(l) => lease[l].room \in req[r].rooms \/ lease[l].prop = i
  BY <1>1, <1>2 DEF Sound
<1> QED
  BY <1>2, <1>5, <1>8, <1>9

LEMMA PurgeCommitInv ==
  ASSUME IInv, NEW r \in Requests, PurgeCommit(r)
  PROVE  IInv'
<1>1. Finish(r) /\ UNCHANGED owner
  BY DEF PurgeCommit
<1>2. CASE UNCHANGED <<item, lease, owner>>
  <2>1. "idle" \in LightPcs
    BY DEF LightPcs, Pcs
  <2> QED
    BY <1>1, <1>2, <2>1, FinishStep, IdleTyped, LightStep DEF IInv
<1>3. CASE ~ UNCHANGED <<item, lease, owner>>
  <2> PICK i \in Items, gone \in SUBSET Items :
        /\ \A l \in req[r].ids : lease[l].status # "none"
        /\ Purged(r, i, gone)
    BY <1>3, PurgeEffect
  <2>1. [NoLease EXCEPT !.status = "gone"] \in Lease /\ [NoLease EXCEPT !.status = "gone"].status = "gone"
    BY DEF NoLease, Lease
  <2>2. TablesTyped
    BY <1>1, <2>1 DEF IInv, TypeOK, TablesTyped, Purged
  <2>3. \A l \in Leases : \/ lease'[l] = lease[l] /\ (l \in req[r].ids => ~ Live(l))
                          \/ lease'[l].status = "gone"
    BY <2>1 DEF Purged
  <2>4. LeasesStay
    BY <2>3 DEF LeasesStay, Live
  <2>5. BornIn({})
    BY DEF BornIn, Purged, Exists
  <2>6. \A j \in Items : Exists(j)' <=> Exists(j) /\ j \notin gone
    BY DEF Exists, Purged, IInv, TypeOK
  <2>7. Tree'
    <3> SUFFICES ASSUME NEW j \in Items, Exists(j)', NEW k \in Above(j) PROVE Exists(k)'
      BY DEF Tree, Above
    <3>1. k \in Items /\ Exists(j) /\ j \notin gone
      BY <2>6, AboveIsTransitive
    <3>2. Exists(k)
      BY <3>1 DEF IInv, Tree
    <3>3. k \notin gone
      BY <3>1, UnderFacts DEF Purged
    <3> QED
      BY <2>6, <3>1, <3>2, <3>3
  <2>8. Refs'
    <3>1. \A l \in Leases : Live(l)' =>
            lease'[l] = lease[l] /\ Live(l) /\ lease[l].room \notin gone /\ lease[l].prop \notin gone
      BY <2>3 DEF Live, Purged
    <3>2. \A l \in Leases : Live(l) =>
            /\ lease[l].room \in Rooms /\ lease[l].room \in Items /\ Exists(lease[l].room)
            /\ lease[l].prop \in Properties /\ lease[l].prop \in Items /\ Exists(lease[l].prop)
      BY ItemsFacts DEF IInv, Refs
    <3> QED
      BY <2>6, <3>1, <3>2 DEF Refs
  <2> QED
    BY <1>1, <2>2, <2>4, <2>5, <2>7, <2>8, FinishStep, RequestWrites DEF IInv, BornIn
<1> QED
  BY <1>2, <1>3

-----------------------------------------------------------------------------
(* What the agreements do. *)

\* A change of an agreement that stays where it is.
Follows(l, new) ==
  /\ new.room = lease[l].room /\ new.prop = lease[l].prop
  /\ new.status \notin {"none", "gone"} <=> Live(l)
  /\ lease[l].status # "none" => new.status # "none"

LEMMA LeaseStepKinds ==
  ASSUME TypeOK, NEW l \in Leases, LeaseStep(l)
  PROVE  \/ \E o \in Rooms, p \in Properties : Sign(l, o, p)
         \/ \E new \in Lease : Follows(l, new) /\ Change(l, new)
<1>1. lease[l] \in Lease
  BY DEF TypeOK
<1>2. ASSUME NEW s \in {"ACTIVE", "OVER"}, Live(l), Change(l, [lease[l] EXCEPT !.status = s])
      PROVE  \E new \in Lease : Follows(l, new) /\ Change(l, new)
  <2> DEFINE new == [lease[l] EXCEPT !.status = s]
  <2>1. new \in Lease /\ new.status = s /\ new.room = lease[l].room /\ new.prop = lease[l].prop
    BY <1>1 DEF Lease
  <2>2. Change(l, new)
    BY <1>2
  <2> HIDE DEF new
  <2> QED
    BY <1>2, <2>1, <2>2 DEF Follows
<1>3. ASSUME NEW v \in {"open", "PAID"}, Change(l, [lease[l] EXCEPT !.invoice = v])
      PROVE  \E new \in Lease : Follows(l, new) /\ Change(l, new)
  <2> DEFINE new == [lease[l] EXCEPT !.invoice = v]
  <2>1. /\ new \in Lease /\ new.status = lease[l].status
        /\ new.room = lease[l].room /\ new.prop = lease[l].prop
    BY <1>1 DEF Lease
  <2>2. Change(l, new)
    BY <1>3
  <2> HIDE DEF new
  <2> QED
    BY <2>1, <2>2 DEF Follows, Live
<1>4. ASSUME NEW C \in SUBSET {"payment_submissions", "utility_bills"},
             Change(l, [lease[l] EXCEPT !.claims = C])
      PROVE  \E new \in Lease : Follows(l, new) /\ Change(l, new)
  <2> DEFINE new == [lease[l] EXCEPT !.claims = C]
  <2>1. /\ new \in Lease /\ new.status = lease[l].status
        /\ new.room = lease[l].room /\ new.prop = lease[l].prop
    BY <1>1 DEF Lease
  <2>2. Change(l, new)
    BY <1>4
  <2> HIDE DEF new
  <2> QED
    BY <2>1, <2>2 DEF Follows, Live
<1>5. ASSUME NEW offset \in BOOLEAN, Terminate(l, offset)
      PROVE  \E new \in Lease : Follows(l, new) /\ Change(l, new)
  <2> DEFINE v   == IF offset /\ lease[l].invoice = "open" THEN "PAID" ELSE lease[l].invoice
             new == [lease[l] EXCEPT !.status = "OVER", !.refund = TRUE, !.invoice = v]
  <2>1. v \in {"none", "open", "PAID"}
    BY <1>1 DEF Lease
  <2>2. Change(l, new)
    BY <1>5 DEF Terminate
  <2>3. Live(l)
    BY <1>5 DEF Terminate, Live
  <2> HIDE DEF v
  <2>4. /\ new \in Lease /\ new.status = "OVER"
        /\ new.room = lease[l].room /\ new.prop = lease[l].prop
    BY <1>1, <2>1 DEF Lease
  <2> HIDE DEF new
  <2> QED
    BY <2>2, <2>3, <2>4 DEF Follows
<1>6. lease[l].claims \in SUBSET {"payment_submissions", "utility_bills"}
  BY <1>1 DEF Lease
<1>7. CASE Activate(l)
  BY <1>2, <1>7 DEF Activate
<1>8. CASE Bill(l)
  BY <1>3, <1>8 DEF Bill
<1>9. CASE Pay(l)
  BY <1>3, <1>9 DEF Pay
<1>10. CASE Submit(l)
  BY <1>4, <1>6, <1>10 DEF Submit
<1>11. CASE Charge(l)
  BY <1>4, <1>6, <1>11 DEF Charge
<1>12. CASE DeleteBill(l)
  BY <1>4, <1>6, <1>12 DEF DeleteBill
<1>13. CASE End(l)
  BY <1>2, <1>13 DEF End, Live
<1> QED
  BY <1>5, <1>7, <1>8, <1>9, <1>10, <1>11, <1>12, <1>13 DEF LeaseStep

LEMMA FollowsInv ==
  ASSUME IInv, NEW l \in Leases, NEW new \in Lease, Follows(l, new), Change(l, new)
  PROVE  IInv'
<1>1. lease' = [lease EXCEPT ![l] = new] /\ req' = Disturb /\ UNCHANGED <<item, owner>>
  BY DEF Change
<1>2. TablesTyped /\ BornIn({})
  BY <1>1 DEF IInv, TypeOK, TablesTyped, BornIn
<1>3. \A k \in Leases : /\ lease'[k].room = lease[k].room /\ lease'[k].prop = lease[k].prop
                        /\ Live(k)' <=> Live(k)
                        /\ lease[k].status # "none" => lease'[k].status # "none"
  BY <1>1 DEF IInv, TypeOK, Follows, Live
<1>4. LeasesStay
  BY <1>3 DEF LeasesStay
<1>5. Tree' /\ Refs'
  BY <1>1, <1>3 DEF IInv, Tree, Refs, Exists
<1> QED
  BY <1>1, <1>2, <1>4, <1>5, OtherWrites

LEMMA SignEffect ==
  ASSUME TypeOK, NEW l \in Leases, NEW o \in Rooms, NEW p \in Properties, Sign(l, o, p)
  PROVE  /\ lease' \in [Leases -> Lease]
         /\ \A k \in Leases \ {l} : lease'[k] = lease[k]
         /\ lease'[l].status = "DRAFT" /\ lease'[l].room = o /\ lease'[l].prop = p
         /\ Exists(o) /\ Exists(p)
<1> DEFINE new == [NoLease EXCEPT !.status = "DRAFT", !.prop = p, !.room = o]
<1>1. new \in Lease /\ new.status = "DRAFT" /\ new.room = o /\ new.prop = p
  BY DEF NoLease, Lease
<1>2. lease' = [lease EXCEPT ![l] = new]
  BY DEF Sign, Change
<1> HIDE DEF new
<1>3. Exists(o) /\ Exists(p)
  BY DEF Sign
<1> QED
  BY <1>1, <1>2, <1>3 DEF TypeOK

LEMMA SignInv ==
  ASSUME IInv, NEW l \in Leases, NEW o \in Rooms, NEW p \in Properties, Sign(l, o, p)
  PROVE  IInv'
<1>1. lease[l].status = "none" /\ req' = Disturb /\ UNCHANGED <<item, owner>>
  BY DEF Sign, Change
<1>2. TablesTyped /\ BornIn({})
  BY <1>1, SignEffect DEF IInv, TypeOK, TablesTyped, BornIn
<1>3. LeasesStay
  BY <1>1, SignEffect DEF IInv, LeasesStay, Live
<1>4. Tree'
  BY <1>1 DEF IInv, Tree, Exists
<1>5. Refs'
  BY <1>1, SignEffect DEF IInv, Refs, Live, Exists
<1> QED
  BY <1>1, <1>2, <1>3, <1>4, <1>5, OtherWrites

-----------------------------------------------------------------------------
(* The deletions of agreements. *)

Surviving(S) == \A l \in Leases \ S : lease'[l] = lease[l]
Ended(S)     == \A l \in S : lease'[l].status = "gone"

LEMMA DiscardEffect ==
  ASSUME TypeOK, NEW S \in SUBSET Leases, Discard(S)
  PROVE  lease' \in [Leases -> Lease] /\ Surviving(S) /\ Ended(S) /\ req' = Disturb
<1>1. [NoLease EXCEPT !.status = "gone"] \in Lease /\ [NoLease EXCEPT !.status = "gone"].status = "gone"
  BY DEF NoLease, Lease
<1> QED
  BY <1>1 DEF TypeOK, Discard, Surviving, Ended

\* A deletion takes a set of agreements, and no item or all of them.
LEMMA DeletionKinds ==
  ASSUME Deletion
  PROVE  \E S \in SUBSET Leases :
           /\ Discard(S) /\ \A l \in S : Live(l)
           /\ \/ UNCHANGED <<item, owner>>
              \/ /\ S = {l \in Leases : Live(l)} /\ owner' = FALSE
                 /\ item' = [i \in Items |-> IF Exists(i) THEN "gone" ELSE item[i]]
<1>1. CASE DeleteLandlord
  <2>1. {l \in Leases : Live(l)} \in SUBSET Leases
    OBVIOUS
  <2> QED
    BY <1>1, <2>1 DEF DeleteLandlord
<1>2. ASSUME NEW l \in Leases, DeleteLease(l)
      PROVE  \E S \in SUBSET Leases :
               Discard(S) /\ (\A k \in S : Live(k)) /\ UNCHANGED <<item, owner>>
  <2>1. {l} \in SUBSET Leases /\ \A k \in {l} : Live(k)
    BY <1>2 DEF DeleteLease
  <2> QED
    BY <1>2, <2>1 DEF DeleteLease
<1>3. CASE \E S \in SUBSET Leases : DeleteTenant(S)
  BY <1>3 DEF DeleteTenant
<1> QED
  BY <1>1, <1>2, <1>3 DEF Deletion

LEMMA DeletionInv ==
  ASSUME IInv, Deletion
  PROVE  IInv'
<1> PICK S \in SUBSET Leases :
      /\ Discard(S) /\ \A l \in S : Live(l)
      /\ \/ UNCHANGED <<item, owner>>
         \/ /\ S = {l \in Leases : Live(l)} /\ owner' = FALSE
            /\ item' = [i \in Items |-> IF Exists(i) THEN "gone" ELSE item[i]]
  BY DeletionKinds
<1>1. lease' \in [Leases -> Lease] /\ Surviving(S) /\ Ended(S) /\ req' = Disturb
  BY DiscardEffect DEF IInv
<1>2. \A l \in Leases : \/ lease'[l] = lease[l] /\ l \notin S
                        \/ lease'[l].status = "gone"
  BY <1>1 DEF Surviving, Ended
<1>3. LeasesStay
  BY <1>2 DEF LeasesStay, Live
<1>4. CASE UNCHANGED <<item, owner>>
  <2>1. TablesTyped /\ BornIn({})
    BY <1>1, <1>4 DEF IInv, TypeOK, TablesTyped, BornIn
  <2>2. Tree'
    BY <1>4 DEF IInv, Tree, Exists
  <2>3. Refs'
    BY <1>2, <1>4 DEF IInv, Refs, Live, Exists
  <2> QED
    BY <1>1, <1>3, <2>1, <2>2, <2>3, OtherWrites
<1>5. CASE /\ S = {l \in Leases : Live(l)} /\ owner' = FALSE
           /\ item' = [i \in Items |-> IF Exists(i) THEN "gone" ELSE item[i]]
  <2>1. TablesTyped /\ BornIn({})
    BY <1>1, <1>5 DEF IInv, TypeOK, TablesTyped, BornIn, Exists
  <2>2. \A i \in Items : ~ Exists(i)'
    BY <1>5 DEF Exists
  <2>3. \A l \in Leases : ~ Live(l)'
    BY <1>2, <1>5 DEF Live
  <2>4. Tree' /\ Refs'
    BY <2>2, <2>3 DEF Tree, Refs
  <2> QED
    BY <1>1, <1>3, <2>1, <2>4, OtherWrites
<1> QED
  BY <1>4, <1>5

-----------------------------------------------------------------------------
(* The inductive invariant. *)

LEMMA InitInv == Init => IInv
  BY IdleTyped DEF Init, IInv, TypeOK, Tasks, Sound, OneInsert, Tree, Refs, At, Exists, Live,
     NoLease, Lease

LEMMA ArriveInv ==
  ASSUME IInv, NEW r \in Requests, Arrive(r)
  PROVE  IInv'
<1> USE ItemsFacts
<1>1. CASE \E i \in Items : Create(r, i)
  BY <1>1, CreateInv
<1>2. CASE \E S \in SUBSET Items :
             \E pc \in {"propertyActive", "floorActive", "roomActive", "bulkVerify"} : Archive(r, pc, S)
  BY <1>2, ArchiveInv
<1>3. ASSUME NEW i \in Items, PurgeStart(r, i, RoomsIn(i)) PROVE IInv'
  BY <1>3, PurgeStartInv DEF RoomsIn
<1>4. ASSUME NEW o \in Rooms, PurgeStart(r, o, {o}) PROVE IInv'
  BY <1>4, PurgeStartInv, UnderFacts
<1>5. CASE \E i \in Items : Restore(r, i)
  BY <1>5, RestoreInv
<1> QED
  BY <1>1, <1>2, <1>3, <1>4, <1>5
  DEF Arrive, PropertyRoutes, FloorRoutes, RoomRoutes, TrashRoutes, CreateProperty,
      CreateFloor, CreateRoom, ArchiveProperty, ArchiveFloor, ArchiveRoom, Lists,
      ArchiveProperties, ArchiveFloors, ArchiveRooms, PurgeProperty, PurgeFloor, PurgeRoom

LEMMA AdvanceInv ==
  ASSUME IInv, NEW r \in Requests, Advance(r)
  PROVE  IInv'
<1>1. CASE CountOfProperty(r)
  BY <1>1, CheckStep DEF CountOfProperty
<1>2. CASE PendingOfProperty(r)
  BY <1>2, CheckStep DEF PendingOfProperty
<1>3. CASE CountOnFloor(r)
  BY <1>3, CheckStep DEF CountOnFloor
<1>4. CASE CountInRoom(r)
  BY <1>4, CheckStep DEF CountInRoom
<1>5. CASE BulkVerify(r)
  BY <1>5, CheckStep DEF BulkVerify
<1> QED
  BY <1>1, <1>2, <1>3, <1>4, <1>5, InsertInv, ArchiveWriteInv, PurgeReadInv, PurgeCommitInv DEF Advance

LEMMA AbortInv ==
  ASSUME IInv, NEW r \in Requests, Abort(r)
  PROVE  IInv'
<1>1. "idle" \in LightPcs
  BY DEF LightPcs, Pcs
<1> QED
  BY <1>1, FinishStep, IdleTyped, LightStep DEF IInv, Abort

LEMMA NextInv == IInv /\ [Next]_vars => IInv'
<1> SUFFICES ASSUME IInv, [Next]_vars PROVE IInv'
  OBVIOUS
<1>1. CASE UNCHANGED vars
  BY <1>1 DEF vars, IInv, TypeOK, Tasks, Sound, OneInsert, Tree, Refs, At, Exists, Live
<1>2. ASSUME NEW l \in Leases, LeaseStep(l) PROVE IInv'
  BY <1>2, LeaseStepKinds, SignInv, FollowsInv DEF IInv
<1> QED
  BY <1>1, <1>2, ArriveInv, AdvanceInv, AbortInv, DeletionInv DEF Next

LEMMA InvAlways == Spec => []IInv
  BY InitInv, NextInv, PTL DEF Spec

\* What the listings show, and what the trash can restore.
AllFloorsShown == UNION {FloorsShown(p) : p \in Properties}
Shown          == PropertiesShown \cup RoomsShown \cup AllFloorsShown
Trashed        == UNION {Under(i) : i \in TrashItems}

LEMMA ListingFacts ==
  /\ PropertiesShown \subseteq Properties
  /\ AllFloorsShown \subseteq Floors
  /\ \A p \in Properties : FloorsShown(p) \subseteq AllFloorsShown
<1>1. \A p : FloorsShown(p) \subseteq Floors
  BY DEF FloorsShown
<1> QED
  BY <1>1 DEF PropertiesShown, AllFloorsShown

\* What exists, or something above it, is shown or can be restored.
LEMMA NothingHiddenOfTree ==
  ASSUME IInv, NEW i \in Items, Exists(i)
  PROVE  i \in Shown \cup Trashed
<1>1. \A j \in Items : Exists(j) => \A k \in Above(j) : Exists(k) /\ k \in Items
  BY AboveIsTransitive DEF IInv, Tree
<1>2. \A j \in Above(i) \cup {i} : j \in Items /\ Exists(j) /\ i \in Under(j)
  BY <1>1, UnderFacts, AboveIsTransitive
<1>3. CASE \E j \in Above(i) \cup {i} : item[j] # "listed"
  <2> PICK j \in Above(i) \cup {i} : item[j] # "listed"
    BY <1>3
  <2>1. item[j] = "archived"
    BY <1>2 DEF Exists
  <2>2. j \in TrashItems
    BY <1>1, <1>2, <2>1 DEF TrashItems
  <2> QED
    BY <1>2, <2>2 DEF Trashed
<1>4. CASE \A j \in Above(i) \cup {i} : item[j] = "listed"
  <2>1. CASE i \in Properties
    <3>1. i \in PropertiesShown
      BY <1>4, <2>1 DEF PropertiesShown
    <3> QED
      BY <3>1 DEF Shown
  <2>2. CASE i \in Floors
    <3>1. PropertyOf[i] \in Properties /\ item[PropertyOf[i]] = "listed" /\ item[i] = "listed"
      BY <1>4, <2>2, AboveFacts
    <3>2. i \in FloorsShown(PropertyOf[i])
      BY <2>2, <3>1 DEF FloorsShown, PropertiesShown
    <3> QED
      BY <3>1, <3>2, ListingFacts DEF Shown
  <2>3. CASE i \in Rooms
    <3>1. i \in RoomsShown
      BY <1>4, <2>3 DEF RoomsShown
    <3> QED
      BY <3>1 DEF Shown
  <2> QED
    BY <2>1, <2>2, <2>3 DEF Items
<1> QED
  BY <1>3, <1>4

LEMMA HiddenNowhere == IInv => NothingIsHidden
<1> SUFFICES ASSUME IInv PROVE NothingIsHidden
  OBVIOUS
<1>1. {i \in Items : Exists(i)} \subseteq Shown \cup Trashed
  BY NothingHiddenOfTree
<1>2. \A l \in Leases : Live(l) => /\ lease[l].room \in Rooms /\ Exists(lease[l].room)
                                   /\ lease[l].prop \in Properties /\ Exists(lease[l].prop)
  BY DEF IInv, Refs
<1>3. \A l \in Leases : Live(l) => {lease[l].room, lease[l].prop} \subseteq Shown \cup Trashed
  BY <1>1, <1>2, ItemsFacts
<1>4. \A l \in Leases : lease[l].status = "ACTIVE" => lease[l].room \in RoomsOccupied \cup Trashed
  <2> SUFFICES ASSUME NEW l \in Leases, lease[l].status = "ACTIVE", lease[l].room \notin Trashed
               PROVE  lease[l].room \in RoomsOccupied
    OBVIOUS
  <2>1. lease[l].room \in Rooms /\ lease[l].room \in Shown
    BY <1>2, <1>3 DEF Live
  <2>2. lease[l].room \in RoomsShown
    BY <2>1, ListingFacts, PremisesAssumption DEF Shown
  <2> QED
    BY <2>2 DEF RoomsOccupied
<1> QED
  BY <1>1, <1>3, <1>4 DEF NothingIsHidden, Shown, Trashed, AllFloorsShown

-----------------------------------------------------------------------------
(* The theorems. *)

\* Rows, agreements and requests keep their types (all three services).
THEOREM TypeCorrect == Spec => []TypeOK
<1>1. IInv => TypeOK
  BY DEF IInv
<1> QED
  BY <1>1, InvAlways, PTL

\* Whatever overlaps, what exists is shown or can be restored (the listings,
\* the trash, and the foreign keys that answer for both).
THEOREM EverythingIsFound == Spec => []NothingIsHidden
  BY HiddenNowhere, InvAlways, PTL

-----------------------------------------------------------------------------
(* The tree and its trash implement SoftDelete. *)

AnchorsOf == [l \in Leases |-> IF Live(l) THEN {lease[l].room, lease[l].prop} ELSE {}]
BelowOf   == [i \in Items |-> Under(i)]

\* A step that SoftDelete allows, or none.
SoftStep == Soft!Next \/ UNCHANGED <<item, AnchorsOf>>

LEMMA AnchorsKept ==
  ASSUME UNCHANGED lease
  PROVE  UNCHANGED AnchorsOf
  BY DEF AnchorsOf, Live

LEMMA InsertMaps ==
  ASSUME IInv, NEW r \in Requests, Insert(r)
  PROVE  SoftStep
<1> PICK i \in Items :
      /\ item[i] = "none"
      /\ \/ item' = [item EXCEPT ![i] = "listed"] /\ \A j \in Above(i) : Exists(j)
         \/ item' = item
  BY InsertEffect
<1>1. UNCHANGED AnchorsOf
  BY AnchorsKept DEF Insert
<1>2. CASE item' = [item EXCEPT ![i] = "listed"] /\ \A j \in Above(i) : Exists(j)
  <2>1. \A j \in Items : i \in Under(j) => j = i \/ item[j] \in {"listed", "archived"}
    BY <1>2 DEF Under, Exists
  <2>2. \A j \in Items : i \in BelowOf[j] => j = i \/ item[j] \in {"listed", "archived"}
    BY <2>1 DEF BelowOf
  <2>3. Soft!Create(i)
    BY <1>1, <1>2, <2>2 DEF Soft!Create, Soft!There, AnchorsOf, BelowOf
  <2> QED
    BY <2>3 DEF SoftStep, Soft!Next
<1>3. CASE item' = item
  BY <1>1, <1>3 DEF SoftStep
<1> QED
  BY <1>2, <1>3

LEMMA ArchiveMaps ==
  ASSUME IInv, NEW r \in Requests, ArchiveWrite(r)
  PROVE  SoftStep
<1> PICK S \in SUBSET Items : S = {i \in req[r].items : Exists(i)}
  BY DEF IInv, TypeOK, Request
<1>1. /\ item' = [i \in Items |-> IF i \in S THEN "archived" ELSE item[i]]
      /\ S \subseteq {j \in Items : item[j] \in {"listed", "archived"}}
  BY DEF ArchiveWrite, Exists
<1>2. Soft!Archive(S)
  BY <1>1, AnchorsKept DEF ArchiveWrite, Soft!Archive, Soft!There, AnchorsOf
<1> QED
  BY <1>2 DEF SoftStep, Soft!Next

LEMMA RestoreMaps ==
  ASSUME NEW r \in Requests, NEW i \in Items, Restore(r, i)
  PROVE  SoftStep
<1>1. Soft!Restore(i)
  BY AnchorsKept DEF Restore, Exists, Soft!Restore, Soft!There, AnchorsOf
<1> QED
  BY <1>1 DEF SoftStep, Soft!Next

LEMMA PurgeMaps ==
  ASSUME IInv, NEW r \in Requests, PurgeCommit(r)
  PROVE  SoftStep
<1>1. CASE UNCHANGED <<item, lease, owner>>
  BY <1>1, AnchorsKept DEF SoftStep
<1>2. CASE ~ UNCHANGED <<item, lease, owner>>
  <2> PICK i \in Items, gone \in SUBSET Items :
        /\ req[r].rooms \subseteq Under(i)
        /\ \A l \in req[r].ids : Live(l) => lease[l].room \in req[r].rooms \/ lease[l].prop = i
        /\ Purged(r, i, gone)
    BY <1>2, PurgeEffect
  <2>1. gone = {j \in Under(i) : item[j] \in {"listed", "archived"}} /\ i \in gone
    BY DEF Purged, Exists
  <2>2. item' = [j \in Items |->
                  IF j \in Under(i) \cap {k \in Items : item[k] \in {"listed", "archived"}}
                  THEN "gone" ELSE item[j]]
    BY <2>1 DEF Purged
  <2>3. \A l \in Leases : AnchorsOf'[l] = IF AnchorsOf[l] \cap Under(i) = {} THEN AnchorsOf[l] ELSE {}
    <3> TAKE l \in Leases
    <3>1. CASE ~ Live(l)
      <4>1. lease'[l] = lease[l]
        BY <3>1 DEF Purged
      <4> QED
        BY <3>1, <4>1 DEF AnchorsOf, Live
    <3>2. CASE Live(l) /\ l \in req[r].ids
      <4>1. lease'[l].status = "gone"
        BY <3>2 DEF Purged, NoLease
      <4>2. AnchorsOf'[l] = {} /\ AnchorsOf[l] = {lease[l].room, lease[l].prop}
        BY <3>2, <4>1 DEF AnchorsOf, Live
      <4>3. lease[l].room \in Under(i) \/ lease[l].prop \in Under(i)
        BY <3>2, UnderFacts
      <4> QED
        BY <4>2, <4>3
    <3>3. CASE Live(l) /\ l \notin req[r].ids
      <4>1. lease'[l] = lease[l] /\ lease[l].room \notin gone /\ lease[l].prop \notin gone
        BY <3>3 DEF Purged
      <4>2. AnchorsOf'[l] = AnchorsOf[l] /\ AnchorsOf[l] = {lease[l].room, lease[l].prop}
        BY <3>3, <4>1 DEF AnchorsOf, Live
      <4>3. Exists(lease[l].room) /\ Exists(lease[l].prop)
        BY <3>3 DEF IInv, Refs
      <4>4. lease[l].room \notin Under(i) /\ lease[l].prop \notin Under(i)
        BY <4>1, <4>3 DEF Purged
      <4> QED
        BY <4>2, <4>4
    <3> QED
      BY <3>1, <3>2, <3>3
  <2>4. UNION {BelowOf[k] : k \in {i}} = Under(i)
    BY DEF BelowOf
  <2>5. AnchorsOf' = [l \in Leases |-> IF AnchorsOf[l] \cap UNION {BelowOf[k] : k \in {i}} = {}
                                       THEN AnchorsOf[l] ELSE {}]
    BY <2>3, <2>4 DEF AnchorsOf
  <2>6. {i} \subseteq {k \in Items : item[k] \in {"listed", "archived"}}
    BY <2>1
  <2>7. Soft!Purge({i})
    BY <2>2, <2>4, <2>5, <2>6 DEF Soft!Purge, Soft!There, AnchorsOf, BelowOf
  <2> QED
    BY <2>7 DEF SoftStep, Soft!Next
<1> QED
  BY <1>1, <1>2

LEMMA SignMaps ==
  ASSUME IInv, NEW l \in Leases, NEW o \in Rooms, NEW p \in Properties, Sign(l, o, p)
  PROVE  SoftStep
<1>1. lease[l].status = "none" /\ UNCHANGED item /\ TypeOK
  BY DEF Sign, Change, IInv
<1>2. \A k \in Leases : AnchorsOf'[k] = IF k = l THEN {o, p} ELSE AnchorsOf[k]
  BY <1>1, SignEffect DEF AnchorsOf, Live
<1>3. AnchorsOf' = [AnchorsOf EXCEPT ![l] = {o, p}]
  BY <1>2 DEF AnchorsOf
<1>4. AnchorsOf[l] = {}
  BY <1>1 DEF AnchorsOf, Live
<1>5. {o, p} \in SUBSET Items /\ \A i \in {o, p} : item[i] \in {"listed", "archived"}
  BY <1>1, SignEffect, ItemsFacts DEF Exists
<1>6. Soft!Hang(l, {o, p})
  BY <1>1, <1>3, <1>4, <1>5 DEF Soft!Hang, Soft!There, AnchorsOf
<1> QED
  BY <1>5, <1>6 DEF SoftStep, Soft!Next

LEMMA FollowsMaps ==
  ASSUME IInv, NEW l \in Leases, NEW new \in Lease, Follows(l, new), Change(l, new)
  PROVE  SoftStep
<1>1. \A k \in Leases : /\ lease'[k].room = lease[k].room /\ lease'[k].prop = lease[k].prop
                        /\ Live(k)' <=> Live(k)
  BY DEF Change, IInv, TypeOK, Follows, Live
<1>2. UNCHANGED AnchorsOf
  BY <1>1 DEF AnchorsOf
<1> QED
  BY <1>2 DEF SoftStep, Change

LEMMA DeletionMaps ==
  ASSUME IInv, Deletion
  PROVE  SoftStep
<1> PICK S \in SUBSET Leases :
      /\ Discard(S) /\ \A l \in S : Live(l)
      /\ \/ UNCHANGED <<item, owner>>
         \/ /\ S = {l \in Leases : Live(l)} /\ owner' = FALSE
            /\ item' = [i \in Items |-> IF Exists(i) THEN "gone" ELSE item[i]]
  BY DeletionKinds
<1>1. Surviving(S) /\ Ended(S)
  BY DiscardEffect DEF IInv
<1>2. \A l \in Leases : AnchorsOf'[l] = IF l \in S THEN {} ELSE AnchorsOf[l]
  BY <1>1 DEF Surviving, Ended, AnchorsOf, Live
<1>3. CASE UNCHANGED <<item, owner>>
  <2>1. AnchorsOf' = [l \in Leases |-> IF l \in S THEN {} ELSE AnchorsOf[l]]
    BY <1>2 DEF AnchorsOf
  <2>2. Soft!Discard(S)
    BY <1>3, <2>1 DEF Soft!Discard, AnchorsOf
  <2> QED
    BY <2>2 DEF SoftStep, Soft!Next
<1>4. CASE /\ S = {l \in Leases : Live(l)}
           /\ item' = [i \in Items |-> IF Exists(i) THEN "gone" ELSE item[i]]
  <2> PICK all \in SUBSET Items : all = {i \in Items : item[i] \in {"listed", "archived"}}
    OBVIOUS
  <2> DEFINE gone == UNION {BelowOf[i] : i \in all}
  <2>1. all \subseteq gone
    BY UnderFacts DEF BelowOf
  <2>2. item' = [i \in Items |-> IF i \in gone \cap all THEN "gone" ELSE item[i]]
    BY <1>4, <2>1 DEF Exists
  <2>3. \A l \in Leases : AnchorsOf'[l] = IF AnchorsOf[l] \cap gone = {} THEN AnchorsOf[l] ELSE {}
    <3> TAKE l \in Leases
    <3>1. CASE Live(l)
      <4>1. lease[l].room \in all
        BY <3>1, ItemsFacts DEF IInv, Refs, Exists
      <4>2. lease[l].room \in AnchorsOf[l]
        BY <3>1 DEF AnchorsOf
      <4> HIDE DEF gone
      <4> QED
        BY <1>2, <1>4, <2>1, <3>1, <4>1, <4>2
    <3>2. CASE ~ Live(l)
      <4>1. AnchorsOf[l] = {}
        BY <3>2 DEF AnchorsOf
      <4> HIDE DEF gone
      <4> QED
        BY <1>2, <4>1
    <3> QED
      BY <3>1, <3>2
  <2>4. AnchorsOf' = [l \in Leases |-> IF AnchorsOf[l] \cap gone = {} THEN AnchorsOf[l] ELSE {}]
    BY <2>3 DEF AnchorsOf
  <2>5. Soft!Purge(all)
    BY <2>2, <2>4 DEF Soft!Purge, Soft!There, AnchorsOf, BelowOf
  <2> QED
    BY <2>5 DEF SoftStep, Soft!Next
<1> QED
  BY <1>3, <1>4

LEMMA ArriveMaps ==
  ASSUME NEW r \in Requests, Arrive(r)
  PROVE  SoftStep
<1>1. CASE \E i \in Items : Restore(r, i)
  BY <1>1, RestoreMaps
<1>2. CASE UNCHANGED <<item, lease, owner>>
  BY <1>2, AnchorsKept DEF SoftStep
<1> QED
  BY <1>1, <1>2
  DEF Arrive, PropertyRoutes, FloorRoutes, RoomRoutes, TrashRoutes, CreateProperty,
      CreateFloor, CreateRoom, Create, Archive, Lists, ArchiveProperty, ArchiveFloor,
      ArchiveRoom, ArchiveProperties, ArchiveFloors, ArchiveRooms, PurgeProperty,
      PurgeFloor, PurgeRoom, PurgeStart

LEMMA StepMaps ==
  ASSUME IInv, Next
  PROVE  SoftStep
<1>1. ASSUME NEW r \in Requests, Advance(r) \/ Abort(r) PROVE SoftStep
  <2>1. CASE UNCHANGED <<item, lease, owner>>
    BY <2>1, AnchorsKept DEF SoftStep
  <2> QED
    BY <1>1, <2>1, InsertMaps, ArchiveMaps, PurgeMaps DEF Advance, Abort, CountOfProperty,
       PendingOfProperty, CountOnFloor, CountInRoom, BulkVerify, PurgeRead
<1>2. ASSUME NEW l \in Leases, LeaseStep(l) PROVE SoftStep
  BY <1>2, LeaseStepKinds, SignMaps, FollowsMaps DEF IInv
<1> QED
  BY <1>1, <1>2, ArriveMaps, DeletionMaps DEF Next

\* Premises implements SoftDelete: whatever overlaps, permanentDelete takes an
\* item once, with all that is below it and exactly the agreements there, or
\* nothing; agreements may also go alone, and with their landlord everything.
THEOREM TrashImplemented == Spec => ImplementsSoftDelete
<1>1. Init => Soft!Init
  BY DEF Init, Soft!Init, NoLease, Live
<1>2. IInv /\ [Next]_vars => [Soft!Next]_<<item, AnchorsOf>>
  <2>1. CASE UNCHANGED vars
    BY <2>1, AnchorsKept DEF vars
  <2> QED
    BY <2>1, StepMaps DEF SoftStep
<1> QED
  BY <1>1, <1>2, InvAlways, PTL DEF Spec, ImplementsSoftDelete, Soft!Spec, Soft!vars, AnchorsOf
-----------------------------------------------------------------------------
(* Requests that run alone.  What such a request has read still holds, since *)
(* every step of another request, and every change of an agreement, ends its *)
(* being alone.                                                              *)

Cleared(S) ==
  \/ S \subseteq Properties /\ NoneActive(OfProperties(S)) /\ NonePending(OfProperties(S))
  \/ S \subseteq Floors /\ NoneActive(OnFloors(S))
  \/ S \subseteq Rooms /\ NoneActive(InRooms(S))

\* The item to delete is there, and the rooms are all there are below it.
RoomsRead(q) ==
  \E i \in Items : q.items = {i} /\ Exists(i) /\ q.rooms = RoomsIn(i)

\* What a request with the record q has read and found.
Known(q) ==
  /\ q.pc = "propertyActive" => q.items \subseteq Properties
  /\ q.pc = "propertyPending" =>
       q.items \subseteq Properties /\ NoneActive(OfProperties(q.items))
  /\ q.pc = "floorActive" => q.items \subseteq Floors
  /\ q.pc = "roomActive" => q.items \subseteq Rooms
  /\ q.pc \in {"bulkVerify", "archiveWrite"} => Cleared(q.items)
  /\ q.pc \in {"purgeLeases", "purgeCommit"} => RoomsRead(q)
  /\ q.pc = "purgeCommit" => /\ q.ids = Doomed(q)
                             /\ q.billed = {l \in q.ids : lease[l].invoice # "none"}

\* A request that runs alone is the only one, and what it knows is so.
Lone == \A r \in Requests : req[r].alone /\ ~ At(r, "idle") =>
          /\ \A o \in Requests \ {r} : At(o, "idle")
          /\ Known(req[r])

LEMMA LoneDisturb ==
  ASSUME TypeOK, req' = Disturb
  PROVE  Lone'
<1>1. \A o \in Requests : req'[o].alone => req'[o].pc = "idle"
  BY DEF Disturb, At, TypeOK, Request
<1> QED
  BY <1>1 DEF Lone, At

\* One request makes a step; if it is new, the others have been disturbed.
LEMMA LoneStart ==
  ASSUME TypeOK, NEW r \in Requests, At(r, "idle"), NEW new,
         req' = [Disturb EXCEPT ![r] = new], req'[r].alone => ~ Busy(r), Known(req[r])'
  PROVE  Lone'
<1>1. \A o \in Requests \ {r} : req'[o] = Disturb[o]
  BY DEF Disturb
<1>2. \A o \in Requests \ {r} : /\ req'[o].alone => req'[o].pc = "idle"
                                /\ At(o, "idle") => req'[o] = req[o]
  BY <1>1 DEF Disturb, At, TypeOK, Request
<1>3. req'[r].alone => \A o \in Requests \ {r} : req'[o].pc = "idle"
  BY <1>2 DEF Busy, At
<1> QED
  BY <1>2, <1>3 DEF Lone, At

LEMMA LoneGoes ==
  ASSUME TypeOK, Lone, NEW r \in Requests, ~ At(r, "idle"), NEW new,
         req' = [req EXCEPT ![r] = new],
         \/ new.pc = "idle"
         \/ new.alone = req[r].alone /\ (new.alone => Known(req[r])')
  PROVE  Lone'
<1>1. req'[r] = new /\ \A o \in Requests \ {r} : req'[o] = req[o]
  BY DEF TypeOK
<1>2. \A o \in Requests \ {r} : req[o].alone => At(o, "idle")
  BY DEF Lone
<1> QED
  BY <1>1, <1>2 DEF Lone, At

LEMMA LoneEnds ==
  ASSUME TypeOK, Lone, NEW r \in Requests, ~ At(r, "idle"), Finish(r)
  PROVE  Lone'
  BY LoneGoes, IdleTyped DEF Finish

\* What is known before a step that touches no table is known after it.
LEMMA KnownKept ==
  ASSUME UNCHANGED <<item, lease, owner>>, NEW r, NEW q, req'[r] = q, Known(q)
  PROVE  Known(req[r])'
  BY DEF Known, Cleared, RoomsRead, NoneActive, NonePending, OfProperties, OnFloors, InRooms,
     RoomsIn, Doomed, Exists, Live

LEMMA LoneBegins ==
  ASSUME TypeOK, NEW r \in Requests, At(r, "idle"), UNCHANGED <<item, lease, owner>>, NEW new,
         req' = [Disturb EXCEPT ![r] = new], new.alone => ~ Busy(r), Known(new)
  PROVE  Lone'
<1>1. req'[r] = new
  BY DEF Disturb
<1> QED
  BY <1>1, KnownKept, LoneStart

LEMMA LoneArrives ==
  ASSUME TypeOK, NEW r \in Requests, Arrive(r)
  PROVE  Lone'
<1> USE ItemsFacts
<1>1. ASSUME NEW pc, NEW S, Begin(r, pc, S), UNCHANGED <<item, lease, owner>>,
             \/ pc = "insert"
             \/ pc = "propertyActive" /\ S \subseteq Properties
             \/ pc = "floorActive" /\ S \subseteq Floors
             \/ pc = "roomActive" /\ S \subseteq Rooms
             \/ pc = "bulkVerify" /\ Cleared(S)
      PROVE  Lone'
  <2> DEFINE new == [Idle EXCEPT !.pc = pc, !.items = S, !.alone = ~ Busy(r)]
  <2>1. new.pc = pc /\ new.items = S /\ (new.alone => ~ Busy(r))
    BY DEF Idle
  <2>2. At(r, "idle") /\ req' = [Disturb EXCEPT ![r] = new]
    BY <1>1 DEF Begin
  <2> HIDE DEF new
  <2>3. Known(new)
    BY <1>1, <2>1 DEF Known
  <2> QED
    BY <1>1, <2>1, <2>2, <2>3, LoneBegins
<1>2. ASSUME NEW i \in Items, PurgeStart(r, i, RoomsIn(i)) PROVE Lone'
  <2> DEFINE new == [Idle EXCEPT !.pc = "purgeLeases", !.items = {i}, !.rooms = RoomsIn(i),
                                 !.alone = ~ Busy(r)]
  <2>1. /\ new.pc = "purgeLeases" /\ new.items = {i} /\ new.rooms = RoomsIn(i)
        /\ new.alone => ~ Busy(r)
    BY DEF Idle
  <2>2. At(r, "idle") /\ Exists(i) /\ req' = [Disturb EXCEPT ![r] = new] /\ UNCHANGED <<item, lease, owner>>
    BY <1>2 DEF PurgeStart
  <2> HIDE DEF new
  <2>3. Known(new)
    BY <2>1, <2>2 DEF Known, RoomsRead
  <2> QED
    BY <2>1, <2>2, <2>3, LoneBegins
<1>3. ASSUME NEW o \in Rooms, PurgeRoom(r, o) PROVE Lone'
  <2>1. Exists(o)
    BY <1>3 DEF PurgeRoom, PurgeStart
  <2>2. RoomsIn(o) = {o}
    BY <2>1, AboveFacts, PremisesAssumption DEF RoomsIn, Under
  <2> QED
    BY <1>2, <1>3, <2>2 DEF PurgeRoom
<1>4. ASSUME NEW i \in Items, Restore(r, i) PROVE Lone'
  BY <1>4, LoneDisturb DEF Restore
<1>5. ASSUME NEW i \in Items, Create(r, i) PROVE Lone'
  BY <1>1, <1>5 DEF Create
<1>6. CASE \E S \in SUBSET Floors : ArchiveFloors(r, S)
  BY <1>1, <1>6 DEF ArchiveFloors, Archive, Cleared
<1>7. CASE \E S \in SUBSET Rooms : ArchiveRooms(r, S)
  BY <1>1, <1>7 DEF ArchiveRooms, Archive, Cleared
<1>8. CASE \/ \E p \in Properties : ArchiveProperty(r, p)
           \/ \E S \in SUBSET Properties : ArchiveProperties(r, S)
           \/ \E f \in Floors : ArchiveFloor(r, f)
           \/ \E o \in Rooms : ArchiveRoom(r, o)
  BY <1>1, <1>8 DEF ArchiveProperty, ArchiveProperties, ArchiveFloor, ArchiveRoom, Archive
<1> QED
  BY <1>2, <1>3, <1>4, <1>5, <1>6, <1>7, <1>8
  DEF Arrive, Lists, PropertyRoutes, FloorRoutes, RoomRoutes, TrashRoutes, CreateProperty,
      CreateFloor, CreateRoom, PurgeProperty, PurgeFloor

\* A check passed becomes something known.
LEMMA LoneChecks ==
  ASSUME TypeOK, Lone, NEW r \in Requests, ~ At(r, "idle"), UNCHANGED <<item, lease, owner>>,
         NEW test, NEW pc, Check(r, test, pc),
         test /\ Known(req[r]) => Known([req[r] EXCEPT !.pc = pc])
  PROVE  Lone'
<1>1. CASE ~ test
  BY <1>1, LoneEnds DEF Check
<1>2. CASE test
  <2> DEFINE new == [req[r] EXCEPT !.pc = pc]
  <2>1. new.alone = req[r].alone
    BY DEF TypeOK, Request
  <2>2. req' = [req EXCEPT ![r] = new] /\ req'[r] = new
    BY <1>2 DEF Check, Goto, TypeOK
  <2>3. new.alone => Known(new)
    BY <1>2, <2>1 DEF Lone
  <2> HIDE DEF new
  <2>4. new.alone => Known(req[r])'
    BY <2>2, <2>3, KnownKept
  <2> QED
    BY <2>1, <2>2, <2>4, LoneGoes
<1> QED
  BY <1>1, <1>2

LEMMA LoneReads ==
  ASSUME TypeOK, Lone, NEW r \in Requests, PurgeRead(r)
  PROVE  Lone'
<1> DEFINE ids == Doomed(req[r])
           new == [req[r] EXCEPT !.pc = "purgeCommit", !.ids = ids,
                                 !.billed = {l \in ids : lease[l].invoice # "none"}]
<1>1. /\ At(r, "purgeLeases") /\ UNCHANGED <<item, lease, owner>>
      /\ req' = [req EXCEPT ![r] = new] /\ req'[r] = new
  BY DEF PurgeRead, TypeOK
<1>2. /\ new.pc = "purgeCommit" /\ new.items = req[r].items /\ new.rooms = req[r].rooms
      /\ new.ids = ids /\ new.billed = {l \in ids : lease[l].invoice # "none"}
      /\ new.alone = req[r].alone
  BY DEF TypeOK, Request
<1>3. Doomed(new) = ids
  BY <1>2 DEF Doomed
<1> HIDE DEF new, ids
<1>4. Known(req[r]) => Known(new)
  BY <1>1, <1>2, <1>3 DEF Known, RoomsRead, At
<1>5. new.alone => Known(new)
  BY <1>1, <1>2, <1>4 DEF Lone, At
<1>6. new.alone => Known(req[r])'
  BY <1>1, <1>5, KnownKept
<1> QED
  BY <1>1, <1>2, <1>6, LoneGoes DEF At

LEMMA LoneAdvances ==
  ASSUME TypeOK, Lone, NEW r \in Requests, Advance(r)
  PROVE  Lone'
<1>1. req[r] \in Request
  BY DEF TypeOK
<1>2. \A pc \in Pcs : /\ [req[r] EXCEPT !.pc = pc].pc = pc
                      /\ [req[r] EXCEPT !.pc = pc].items = req[r].items
  BY <1>1 DEF Request
<1>3. CASE CountOfProperty(r)
  <2>1. NoneActive(OfProperties(req[r].items)) /\ Known(req[r])
        => Known([req[r] EXCEPT !.pc = "propertyPending"])
    BY <1>2, <1>3 DEF CountOfProperty, At, Known, Pcs
  <2> QED
    BY <1>3, <2>1, LoneChecks DEF CountOfProperty, At
<1>4. CASE PendingOfProperty(r)
  <2>1. NonePending(OfProperties(req[r].items)) /\ Known(req[r])
        => Known([req[r] EXCEPT !.pc = "archiveWrite"])
    BY <1>2, <1>4 DEF PendingOfProperty, At, Known, Cleared, Pcs
  <2> QED
    BY <1>4, <2>1, LoneChecks DEF PendingOfProperty, At
<1>5. CASE CountOnFloor(r)
  <2>1. NoneActive(OnFloors(req[r].items)) /\ Known(req[r])
        => Known([req[r] EXCEPT !.pc = "archiveWrite"])
    BY <1>2, <1>5 DEF CountOnFloor, At, Known, Cleared, Pcs
  <2> QED
    BY <1>5, <2>1, LoneChecks DEF CountOnFloor, At
<1>6. CASE CountInRoom(r)
  <2>1. NoneActive(InRooms(req[r].items)) /\ Known(req[r])
        => Known([req[r] EXCEPT !.pc = "archiveWrite"])
    BY <1>2, <1>6 DEF CountInRoom, At, Known, Cleared, Pcs
  <2> QED
    BY <1>6, <2>1, LoneChecks DEF CountInRoom, At
<1>7. CASE BulkVerify(r)
  <2>1. Known(req[r]) => Known([req[r] EXCEPT !.pc = "archiveWrite"])
    BY <1>2, <1>7 DEF BulkVerify, At, Known, Pcs
  <2> QED
    BY <1>7, <2>1, LoneChecks DEF BulkVerify, At
<1>8. CASE Finish(r) /\ ~ At(r, "idle")
  BY <1>8, LoneEnds
<1> QED
  BY <1>3, <1>4, <1>5, <1>6, <1>7, <1>8, LoneReads
     DEF Advance, Insert, ArchiveWrite, PurgeCommit, At

LEMMA LoneStays ==
  ASSUME Lone, UNCHANGED vars
  PROVE  Lone'
  BY DEF vars, Lone, At, Known, Cleared, RoomsRead, NoneActive, NonePending, OfProperties,
     OnFloors, InRooms, RoomsIn, Doomed, Exists, Live

LEMMA LoneInv == IInv /\ Lone /\ [Next]_vars => Lone'
<1> SUFFICES ASSUME IInv, Lone, [Next]_vars PROVE Lone'
  OBVIOUS
<1>1. TypeOK
  BY DEF IInv
<1>2. ASSUME NEW l \in Leases, LeaseStep(l) PROVE Lone'
  BY <1>1, <1>2, LoneDisturb DEF LeaseStep, Sign, Activate, Bill, Pay, Submit, Charge,
     DeleteBill, End, Terminate, Change
<1>3. ASSUME NEW r \in Requests, Abort(r) PROVE Lone'
  BY <1>1, <1>3, LoneEnds DEF Abort
<1>4. CASE Deletion
  BY <1>1, <1>4, LoneDisturb DEF Deletion, DeleteLease, DeleteTenant, DeleteLandlord, Discard
<1> QED
  BY <1>1, <1>2, <1>3, <1>4, LoneStays, LoneArrives, LoneAdvances DEF Next

LEMMA LoneAlways == Spec => [](IInv /\ Lone)
<1>1. Init => IInv /\ Lone
  BY InitInv, IdleTyped DEF Init, Lone, At
<1>2. IInv /\ Lone /\ [Next]_vars => (IInv /\ Lone)'
  BY NextInv, LoneInv
<1> QED
  BY <1>1, <1>2, PTL DEF Spec

\* What is archived alone is vacant, as the checks of the three services say.
LEMMA VacantWhenArchived ==
  ASSUME IInv, Lone, NEW r \in Requests
  PROVE  ArchivesVacant(r)
<1> SUFFICES ASSUME ArchiveWrite(r), req[r].alone, NEW l \in Leases, Live(l), Coherent(l),
                    lease[l].room \in UNION {Under(i) : i \in req[r].items}
             PROVE  /\ lease[l].status # "ACTIVE"
                    /\ req[r].items \subseteq Properties => lease[l].invoice # "open"
  BY DEF ArchivesVacant
<1>1. Cleared(req[r].items)
  BY DEF ArchiveWrite, At, Lone, Known
<1>2. lease[l].room \in Rooms /\ lease[l].prop = PropertyOf[FloorOf[lease[l].room]]
  BY DEF IInv, Refs, Coherent
<1> PICK i \in req[r].items : lease[l].room \in Under(i)
  OBVIOUS
<1>3. i = lease[l].room \/ i = FloorOf[lease[l].room] \/ i = lease[l].prop
  BY <1>2, AboveFacts DEF Under
<1>4. lease[l].prop \in Properties /\ FloorOf[lease[l].room] \in Floors
  BY <1>2, AboveFacts
<1>5. CASE /\ req[r].items \subseteq Properties
           /\ NoneActive(OfProperties(req[r].items)) /\ NonePending(OfProperties(req[r].items))
  <2>1. i = lease[l].prop
    BY <1>2, <1>3, <1>4, <1>5, PremisesAssumption
  <2>2. l \in OfProperties(req[r].items)
    BY <2>1 DEF OfProperties
  <2> QED
    BY <1>5, <2>2 DEF NoneActive, NonePending
<1>6. CASE req[r].items \subseteq Floors /\ NoneActive(OnFloors(req[r].items))
  <2>1. l \in OnFloors(req[r].items)
    BY DEF OnFloors
  <2>2. i \notin Properties
    BY <1>6, PremisesAssumption
  <2> QED
    BY <1>6, <2>1, <2>2 DEF NoneActive
<1>7. CASE req[r].items \subseteq Rooms /\ NoneActive(InRooms(req[r].items))
  <2>1. i = lease[l].room
    BY <1>2, <1>3, <1>4, <1>7, PremisesAssumption
  <2>2. l \in InRooms(req[r].items) /\ i \notin Properties
    BY <1>7, <2>1, PremisesAssumption DEF InRooms
  <2> QED
    BY <1>7, <2>2 DEF NoneActive
<1> QED
  BY <1>1, <1>5, <1>6, <1>7 DEF Cleared

\* archive and bulkArchive of the three services, run alone, archive only what
\* has no ACTIVE agreement under it, and a property only if nothing is owed there.
THEOREM VacantOnes == Spec => ArchivedIsVacant
<1>1. IInv /\ Lone /\ [Next]_vars => [\A r \in Requests : ArchivesVacant(r)]_vars
  BY VacantWhenArchived
<1> QED
  BY <1>1, LoneAlways, PTL DEF Spec, ArchivedIsVacant

\* What a deletion that runs alone has read is all that refers to the item.
LEMMA NothingElseRefers ==
  ASSUME IInv, NEW q, NEW i \in Items, q.items = {i}, q.rooms = RoomsIn(i), q.ids = Doomed(q),
         NEW l \in Leases, Live(l),
         \/ lease[l].room \in Swept(q) /\ Exists(lease[l].room)
         \/ lease[l].prop \in Swept(q)
  PROVE  l \in q.ids
<1>1. Swept(q) = Under(i)
  BY DEF Swept
<1>2. lease[l].room \in Rooms /\ lease[l].prop \in Properties
  BY DEF IInv, Refs
<1>3. lease[l].prop \in Under(i) => lease[l].prop = i
  BY <1>2, AboveFacts DEF Under
<1> QED
  BY <1>1, <1>2, <1>3 DEF Doomed, RoomsIn

\* Each deletion finds what refers to its rows deleted, unless it is a deposit.
LEMMA OrderSuits ==
  ASSUME NEW q, NEW l \in Leases, NEW k \in 1..4, l \in Given(q)[Script[k]],
         Script[k] \in Rows(l), ~ lease[l].refund,
         lease[l].claims \subseteq {"payment_submissions", "utility_bills"},
         l \in q.ids => (l \in q.billed <=> lease[l].invoice # "none"),
         NEW t \in DOMAIN RefersTo, t \in Left(q, k - 1, l)
  PROVE  RefersTo[t] # Script[k]
<1> USE ScriptFacts
<1>1. t \in Rows(l) /\ \A j \in 1..(k - 1) : t = Script[j] => l \notin Given(q)[t]
  BY DEF Left
<1>2. CASE k = 1 \/ k = 2
  BY <1>2 DEF RefersTo
<1>3. CASE k = 3
  <2>1. l \in q.billed
    BY <1>3 DEF Given
  <2>2. t \notin {"payment_submissions", "utility_bills"}
    BY <1>1, <1>3, <2>1 DEF Given
  <2> QED
    BY <1>3, <2>2 DEF RefersTo
<1>4. CASE k = 4
  <2>1. l \in q.ids
    BY <1>4 DEF Given
  <2>2. t # "invoices"
    BY <1>1, <1>4, <2>1 DEF Given, Rows
  <2>3. t # "deposit_refunds"
    BY <1>1 DEF Rows
  <2> QED
    BY <1>4, <2>2, <2>3 DEF RefersTo
<1> QED
  BY <1>2, <1>3, <1>4

LEMMA OnlyDepositsInTheWay ==
  ASSUME IInv, Lone, NEW r \in Requests
  PROVE  FailsForDeposits(r)
<1> SUFFICES ASSUME PurgeCommit(r), req[r].alone
             PROVE  \/ \A i \in req[r].items : item'[i] = "gone"
                    \/ \E l \in Leases : lease[l].refund
                                        /\ (\/ lease[l].prop \in req[r].items
                                            \/ \E i \in req[r].items : lease[l].room \in Under(i))
  BY DEF FailsForDeposits
<1> DEFINE q    == req[r]
           gone == {j \in Swept(q) : Exists(j)}
<1>1. /\ RoomsRead(q) /\ q.ids = Doomed(q)
      /\ q.billed = {l \in q.ids : lease[l].invoice # "none"}
  BY DEF PurgeCommit, At, Lone, Known
<1>2. PICK i \in Items : q.items = {i} /\ Exists(i) /\ q.rooms = RoomsIn(i)
  BY <1>1 DEF RoomsRead
<1>3. i \in gone /\ gone \subseteq Items
  BY <1>2, UnderFacts DEF Swept
<1>4. CASE KeysAllow(q, gone)
  <2>1. item' = [j \in Items |-> IF j \in gone THEN "gone" ELSE item[j]]
    BY <1>2, <1>3, <1>4 DEF PurgeCommit
  <2> QED
    BY <1>2, <1>3, <2>1
<1>5. CASE \E l \in q.ids : lease[l].refund
  <2> PICK l \in q.ids : lease[l].refund
    BY <1>5
  <2>1. l \in Leases /\ (lease[l].room \in q.rooms \/ lease[l].prop \in q.items)
    BY <1>1 DEF Doomed
  <2>2. q.rooms \subseteq Under(i)
    BY <1>2 DEF RoomsIn
  <2> QED
    BY <1>2, <2>1, <2>2
<1>6. CASE \A l \in q.ids : ~ lease[l].refund
  <2>1. \A l \in Leases : lease[l].claims \subseteq {"payment_submissions", "utility_bills"}
    BY DEF IInv, TypeOK, Lease
  <2>2. q.ids \subseteq Leases /\ q.billed \subseteq q.ids
    BY <1>1 DEF Doomed
  <2>3. ASSUME NEW k \in 1..Len(Script), NEW l \in Given(q)[Script[k]], Script[k] \in Rows(l),
               NEW t \in DOMAIN RefersTo \cap Left(q, k - 1, l)
        PROVE  RefersTo[t] # Script[k]
    <3>1. k \in 1..4 /\ l \in q.ids
      BY <2>2, <2>3, ScriptFacts DEF Given
    <3>2. l \in q.billed <=> lease[l].invoice # "none"
      BY <1>1, <3>1
    <3> HIDE DEF q
    <3> QED
      BY <1>6, <2>1, <2>2, <2>3, <3>1, <3>2, OrderSuits
  <2>4. ASSUME NEW l \in Leases, "rental_agreements" \in Left(q, Len(Script), l)
        PROVE  lease[l].room \notin gone /\ lease[l].prop \notin gone
    <3>1. Live(l)
      BY <2>1, <2>4 DEF Left, Rows
    <3>2. l \notin q.ids
      <4>1. Script[4] \in {Script[j] : j \in {n \in 1..Len(Script) : l \in Given(q)[Script[n]]}}
            \/ l \notin Given(q)[Script[4]]
        BY ScriptFacts
      <4> QED
        BY <2>4, <4>1, ScriptFacts DEF Left, Given
    <3> QED
      BY <1>1, <1>2, <3>1, <3>2, NothingElseRefers
  <2>5. KeysAllow(q, gone)
    BY <2>3, <2>4 DEF KeysAllow
  <2> QED
    BY <1>4, <2>5
<1> QED
  BY <1>5, <1>6

\* permanentDelete of an item, run alone, fails only because of the record of a
\* deposit: its deletions, written out by hand, come in an order that suits the
\* foreign keys of payments, bills, invoices and agreements, and leave none behind.
THEOREM DepositsAloneKeep == Spec => OnlyDepositsKeep
<1>1. IInv /\ Lone /\ [Next]_vars => [\A r \in Requests : FailsForDeposits(r)]_vars
  BY OnlyDepositsInTheWay
<1> QED
  BY <1>1, LoneAlways, PTL DEF Spec, OnlyDepositsKeep
=============================================================================

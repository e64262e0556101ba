------------------------------- MODULE Premises -------------------------------
(***************************************************************************)
(* A landlord's properties, their floors and rooms: PropertiesService,     *)
(* FloorsService, RoomsService and their cases of the trash.  One step per *)
(* database statement; of permanentDelete's transaction the two readings   *)
(* and, as one step, the deletions in their order and the commit: nobody   *)
(* sees them before it, and a statement that fails is Abort.  The          *)
(* agreements that archiving and deletion look at, with what refers to     *)
(* them, come and go in single steps: module Leases has them in detail;    *)
(* OVER stands for the statuses that follow ACTIVE.                        *)
(*                                                                         *)
(* One landlord and one plan.  What an update writes (names, rents) is no  *)
(* part of the state.  An agreement has one invoice at most.               *)
(***************************************************************************)
EXTENDS Integers, FiniteSets, Sequences

CONSTANTS
  Requests,        \* slots for requests in flight
  Properties, Floors, Rooms,  \* rows that may come to exist
  PropertyOf,      \* the property of a floor
  FloorOf,         \* the floor of a room
  Leases,          \* rows of rental_agreements that may come to exist
  MaxProperties,   \* max_properties of the landlord's plan
  None

Items == Properties \cup Floors \cup Rooms

ASSUME PremisesAssumption ==
  /\ Properties \cap Floors = {} /\ Properties \cap Rooms = {} /\ Floors \cap Rooms = {}
  /\ PropertyOf \in [Floors -> Properties]
  /\ FloorOf \in [Rooms -> Floors]
  /\ MaxProperties \in Nat
  /\ None \notin Items

VARIABLES
  item,   \* properties, floors, rooms: "none", "listed", "archived" or "gone"
  lease,  \* rental_agreements, with invoice and deposit refund
  owner,  \* the landlord exists
  req     \* requests in flight

vars == <<item, lease, owner, req>>

-----------------------------------------------------------------------------
NoLease == [status |-> "none", prop |-> None, room |-> None,
            invoice |-> "none", claims |-> {}, refund |-> FALSE]
Lease   == [status : {"none", "DRAFT", "ACTIVE", "OVER", "gone"},
            prop : Properties \cup {None}, room : Rooms \cup {None},
            invoice : {"none", "open", "PAID"},
            claims : SUBSET {"payment_submissions", "utility_bills"},  \* that refer to the invoice
            refund : BOOLEAN]

\* rooms, ids, billed: what a deletion has read; alone: no other request, nor a
\* change of an agreement, since this one came.
Idle    == [pc |-> "idle", items |-> {}, rooms |-> {}, ids |-> {}, billed |-> {},
            alone |-> TRUE]
Pcs     == {"idle", "insert", "propertyActive", "propertyPending", "floorActive",
            "roomActive", "bulkVerify", "archiveWrite", "purgeLeases", "purgeCommit"}
Request == [pc : Pcs, items : SUBSET Items, rooms : SUBSET Rooms, ids : SUBSET Leases,
            billed : SUBSET Leases, alone : BOOLEAN]

TypeOK ==
  /\ item \in [Items -> {"none", "listed", "archived", "gone"}]
  /\ lease \in [Leases -> Lease]
  /\ owner \in BOOLEAN
  /\ req \in [Requests -> Request]

Init ==
  /\ item = [i \in Items |-> "none"]
  /\ lease = [l \in Leases |-> NoLease]
  /\ owner = TRUE
  /\ req = [r \in Requests |-> Idle]

Above(i) == IF i \in Rooms THEN {FloorOf[i], PropertyOf[FloorOf[i]]}
            ELSE IF i \in Floors THEN {PropertyOf[i]} ELSE {}
Under(i) == {j \in Items : j = i \/ i \in Above(j)}

Exists(i)  == item[i] \in {"listed", "archived"}
Live(l)    == lease[l].status \notin {"none", "gone"}

At(r, pc)   == req[r].pc = pc
Finish(r)   == req' = [req EXCEPT ![r] = Idle]
Goto(r, pc) == req' = [req EXCEPT ![r].pc = pc]

\* A check that throws: the request goes on only if the test holds.
Check(r, test, pc) == IF test THEN Goto(r, pc) ELSE Finish(r)

\* A request comes in: it and those in flight are no longer alone.
Busy(r) == \E o \in Requests \ {r} : ~ At(o, "idle")
Disturb == [o \in Requests |-> IF At(o, "idle") THEN req[o]
                               ELSE [req[o] EXCEPT !.alone = FALSE]]
Begin(r, pc, S) ==
  /\ At(r, "idle")
  /\ req' = [Disturb EXCEPT ![r] = [Idle EXCEPT !.pc = pc, !.items = S,
                                                !.alone = ~ Busy(r)]]

-----------------------------------------------------------------------------
(* create *)

Create(r, i) ==
  /\ item[i] = "none"
  /\ \A q \in Requests : i \notin req[q].items
  /\ Begin(r, "insert", {i})
  /\ UNCHANGED <<item, lease, owner>>

CreateProperty(r, p) ==
  /\ owner
  /\ Cardinality({q \in Properties : item[q] = "listed"}) < MaxProperties
  /\ Create(r, p)

CreateFloor(r, f) == item[PropertyOf[f]] = "listed" /\ Create(r, f)

CreateRoom(r, o) == (\A i \in Above(o) : item[i] = "listed") /\ Create(r, o)

\* Of what is above, the row the new one refers to must still exist.
Insert(r) ==
  /\ At(r, "insert")
  /\ item' = [i \in Items |->
                IF i \in req[r].items /\ (\A j \in Above(i) : Exists(j))
                                      /\ (i \in Properties => owner)
                THEN "listed" ELSE item[i]]
  /\ Finish(r)
  /\ UNCHANGED <<lease, owner>>

-----------------------------------------------------------------------------
(* archive and bulkArchive.  The three services differ in what they look up *)
(* first, in the agreements they count and in the order of the checks.      *)

\* findOne of the three services: a property may be in the trash already.
FindProperty(p) == Exists(p)
FindFloor(f)    == \A i \in Above(f) \cup {f} : item[i] = "listed"
FindRoom(o)     == \A i \in Above(o) \cup {o} : item[i] = "listed"

OfProperties(S) == {l \in Leases : lease[l].prop \in S}

\* Mutant: agreements of rooms in the trash are not counted.
OnFloors_ListedRooms(S) ==
  {l \in Leases : /\ \E f \in S : lease[l].room \in Under(f)
                  /\ item[lease[l].room] = "listed"}

OnFloors(S) == {l \in Leases : \E f \in S : lease[l].room \in Under(f)}
InRooms(S)  == {l \in Leases : lease[l].room \in S}

NoneActive(C)  == \A l \in C : lease[l].status # "ACTIVE"
NonePending(C) == \A l \in C : lease[l].invoice # "open"

Archive(r, pc, S) == Begin(r, pc, S) /\ UNCHANGED <<item, lease, owner>>

ArchiveProperty(r, p) == FindProperty(p) /\ Archive(r, "propertyActive", {p})
ArchiveFloor(r, f)    == FindFloor(f) /\ Archive(r, "floorActive", {f})
ArchiveRoom(r, o)     == FindRoom(o) /\ Archive(r, "roomActive", {o})

\* In bulk, floors and rooms are counted first and then looked up, archived or not.
ArchiveProperties(r, S) == (\A p \in S : Exists(p)) /\ Archive(r, "propertyActive", S)
ArchiveFloors(r, S)     == NoneActive(OnFloors(S)) /\ Archive(r, "bulkVerify", S)
ArchiveRooms(r, S)      == NoneActive(InRooms(S)) /\ Archive(r, "bulkVerify", S)

CountOfProperty(r) ==
  /\ At(r, "propertyActive")
  /\ Check(r, NoneActive(OfProperties(req[r].items)), "propertyPending")
  /\ UNCHANGED <<item, lease, owner>>

PendingOfProperty(r) ==
  /\ At(r, "propertyPending")
  /\ Check(r, NonePending(OfProperties(req[r].items)), "archiveWrite")
  /\ UNCHANGED <<item, lease, owner>>

CountOnFloor(r) ==
  /\ At(r, "floorActive")
  /\ Check(r, NoneActive(OnFloors(req[r].items)), "archiveWrite")
  /\ UNCHANGED <<item, lease, owner>>

CountInRoom(r) ==
  /\ At(r, "roomActive")
  /\ Check(r, NoneActive(InRooms(req[r].items)), "archiveWrite")
  /\ UNCHANGED <<item, lease, owner>>

BulkVerify(r) ==
  /\ At(r, "bulkVerify")
  /\ Check(r, \A i \in req[r].items : Exists(i), "archiveWrite")
  /\ UNCHANGED <<item, lease, owner>>

ArchiveWrite(r) ==
  /\ At(r, "archiveWrite")
  /\ item' = [i \in Items |-> IF i \in req[r].items /\ Exists(i) THEN "archived"
                              ELSE item[i]]
  /\ Finish(r)
  /\ UNCHANGED <<lease, owner>>

-----------------------------------------------------------------------------
(* The trash: restoreItem and permanentDelete, of an item archived or not. *)

Restore(r, i) ==
  /\ At(r, "idle")
  /\ Exists(i)
  /\ item' = [item EXCEPT ![i] = "listed"]
  /\ req' = Disturb
  /\ UNCHANGED <<lease, owner>>

PurgeStart(r, i, rooms) ==
  /\ At(r, "idle")
  /\ Exists(i)
  /\ req' = [Disturb EXCEPT ![r] =
               [Idle EXCEPT !.pc = "purgeLeases", !.items = {i}, !.rooms = rooms,
                            !.alone = ~ Busy(r)]]
  /\ UNCHANGED <<item, lease, owner>>

\* Mutant: the ids of the floors are taken for those of the rooms.
RoomsIn_FloorIds(i) == {f \in Floors \cap Under(i) : Exists(f)}

RoomsIn(i) == {o \in Rooms \cap Under(i) : Exists(o)}

\* The rooms are read before the agreements.
PurgeProperty(r, p) == PurgeStart(r, p, RoomsIn(p))
PurgeFloor(r, f)    == PurgeStart(r, f, RoomsIn(f))
PurgeRoom(r, o)     == PurgeStart(r, o, {o})

Doomed(q) ==
  {l \in Leases : Live(l) /\ (lease[l].room \in q.rooms \/ lease[l].prop \in q.items)}

PurgeRead(r) ==
  LET ids == Doomed(req[r]) IN
  /\ At(r, "purgeLeases")
  /\ req' = [req EXCEPT ![r].pc = "purgeCommit", ![r].ids = ids,
                        ![r].billed = {l \in ids : lease[l].invoice # "none"}]
  /\ UNCHANGED <<item, lease, owner>>

\* What refers to what, of an agreement: the rows of a table refer to the row of
\* another, which they keep from being deleted.
RefersTo == [payment_submissions |-> "invoices", utility_bills |-> "invoices",
             invoices |-> "rental_agreements", deposit_refunds |-> "rental_agreements"]

\* The tables that have a row of the agreement.
Rows(l) ==
  lease[l].claims
    \cup {t \in {"invoices"} : lease[l].invoice # "none"}
    \cup {t \in {"deposit_refunds"} : lease[l].refund}
    \cup {t \in {"rental_agreements"} : Live(l)}

\* Mutant: what refers to the invoices is not all deleted before them.
Script_InvoicesEarly ==
  <<"payment_submissions", "invoices", "utility_bills", "rental_agreements">>

\* The tables in the order of the deletions.  Those of rooms, floors and the
\* property follow; the keys between these cascade.
Script == <<"payment_submissions", "utility_bills", "invoices", "rental_agreements">>

\* What each of them is given: the invoices or the agreements read before.
Given(q) == [payment_submissions |-> q.billed, utility_bills |-> q.billed,
             invoices |-> q.billed, rental_agreements |-> q.ids]

\* The tables that still have a row of the agreement after k of the deletions.
Left(q, k, l) == Rows(l) \ {Script[j] : j \in {i \in 1..k : l \in Given(q)[Script[i]]}}

\* Mutant: nothing keeps the rows that agreements refer to.
KeysAllow_Cascade(q, gone) ==
  \A k \in 1..Len(Script) : \A l \in Given(q)[Script[k]] :
    Script[k] \in Rows(l) =>
      \A t \in DOMAIN RefersTo \cap Left(q, k - 1, l) : RefersTo[t] # Script[k]

\* No row is deleted while another refers to it: not by one of the deletions, and
\* no room or property to which an agreement still refers after them.
KeysAllow(q, gone) ==
  /\ \A k \in 1..Len(Script) : \A l \in Given(q)[Script[k]] :
       Script[k] \in Rows(l) =>
         \A t \in DOMAIN RefersTo \cap Left(q, k - 1, l) : RefersTo[t] # Script[k]
  /\ \A l \in Leases : "rental_agreements" \in Left(q, Len(Script), l) =>
       lease[l].room \notin gone /\ lease[l].prop \notin gone

\* Mutant: what is below the item stays.
Swept_ItemOnly(q) == q.items

\* The deletion of a row takes floors and rooms below it along.
Swept(q) == UNION {Under(i) : i \in q.items}

PurgeCommit(r) ==
  LET q    == req[r]
      gone == {i \in Swept(q) : Exists(i)}
  IN
  /\ At(r, "purgeCommit")
  /\ IF q.items \subseteq gone /\ KeysAllow(q, gone)
       THEN /\ item' = [i \in Items |-> IF i \in gone THEN "gone" ELSE item[i]]
            /\ lease' = [l \in Leases |-> IF l \in q.ids /\ Live(l)
                                            THEN [NoLease EXCEPT !.status = "gone"]
                                            ELSE lease[l]]
       ELSE UNCHANGED <<item, lease>>
  /\ Finish(r)
  /\ UNCHANGED owner

Abort(r) ==
  /\ ~ At(r, "idle")
  /\ Finish(r)
  /\ UNCHANGED <<item, lease, owner>>

-----------------------------------------------------------------------------
(* What the landlord is shown: the three listings, the occupied rooms of    *)
(* the dashboard, and the trash, which finds a row by its property.         *)

PropertiesShown == {p \in Properties : item[p] = "listed"}
FloorsShown(p)  == {f \in Floors : /\ item[f] = "listed"
                                   /\ PropertyOf[f] = p /\ p \in PropertiesShown}
RoomsShown      == {o \in Rooms : \A i \in Above(o) \cup {o} : item[i] = "listed"}
RoomsOccupied   == {o \in RoomsShown : \E l \in Leases : /\ lease[l].room = o
                                                         /\ lease[l].status = "ACTIVE"}

TrashItems == {i \in Items : item[i] = "archived" /\ \A j \in Above(i) : Exists(j)}

-----------------------------------------------------------------------------
(* What the agreements do meanwhile (AgreementsService, InvoicesService).   *)
(* Updates by id may come late: after a later change of the status.         *)

Change(l, new) ==
  /\ lease' = [lease EXCEPT ![l] = new]
  /\ req' = Disturb
  /\ UNCHANGED <<item, owner>>

\* The property named is not compared with the one the room is in; either may
\* have been archived since they were found.
Sign(l, o, p) ==
  /\ lease[l].status = "none"
  /\ Exists(o) /\ Exists(p)
  /\ Change(l, [NoLease EXCEPT !.status = "DRAFT", !.prop = p, !.room = o])

\* Every agreement was a DRAFT when it may have been found.
Activate(l) ==
  /\ Live(l)
  /\ Change(l, [lease[l] EXCEPT !.status = "ACTIVE"])

\* For the month if ACTIVE, or by hand.
Bill(l) ==
  /\ Live(l)
  /\ lease[l].invoice = "none"
  /\ Change(l, [lease[l] EXCEPT !.invoice = "open"])

\* A receipt, or a notification of PayHere.
Submit(l) ==
  /\ lease[l].invoice = "open"
  /\ Change(l, [lease[l] EXCEPT !.claims = @ \cup {"payment_submissions"}])

\* A utility bill, on any invoice.
Charge(l) ==
  /\ lease[l].invoice # "none"
  /\ Change(l, [lease[l] EXCEPT !.claims = @ \cup {"utility_bills"}])

\* The trash deletes a single bill, archived or not.
DeleteBill(l) ==
  /\ "utility_bills" \in lease[l].claims
  /\ Change(l, [lease[l] EXCEPT !.claims = @ \ {"utility_bills"}])

Pay(l) ==
  /\ lease[l].invoice = "open"
  /\ Change(l, [lease[l] EXCEPT !.invoice = "PAID"])

\* Notice is given, or the end date has passed.
End(l) ==
  /\ lease[l].status \in {"ACTIVE", "OVER"}
  /\ Change(l, [lease[l] EXCEPT !.status = "OVER"])

\* With the one record of the deposit, which may settle what is owed.
Terminate(l, offset) ==
  /\ lease[l].status \in {"ACTIVE", "OVER"}
  /\ ~ lease[l].refund
  /\ Change(l, [lease[l] EXCEPT
       !.status = "OVER", !.refund = TRUE,
       !.invoice = IF offset /\ lease[l].invoice = "open" THEN "PAID" ELSE @])

-----------------------------------------------------------------------------
(* The trash's other cases that agreements or premises go with, each in one *)
(* step: what a foreign key keeps back fails and changes nothing.           *)

Discard(S) ==
  /\ lease' = [l \in Leases |-> IF l \in S THEN [NoLease EXCEPT !.status = "gone"]
                                ELSE lease[l]]
  /\ req' = Disturb

\* Of an agreement, with all that refers to it.
DeleteLease(l) ==
  /\ Live(l)
  /\ Discard({l})
  /\ UNCHANGED <<item, owner>>

Unencumbered(S) == \A l \in S : lease[l].invoice = "none" /\ ~ lease[l].refund

\* Of a tenant, who has the agreements S.
DeleteTenant(S) ==
  /\ \A l \in S : Live(l)
  /\ Unencumbered(S)
  /\ Discard(S)
  /\ UNCHANGED <<item, owner>>

\* Of the landlord, with the agreements and all properties.
DeleteLandlord ==
  LET signed == {l \in Leases : Live(l)} IN
  /\ owner
  /\ Unencumbered(signed)
  /\ item' = [i \in Items |-> IF Exists(i) THEN "gone" ELSE item[i]]
  /\ Discard(signed)
  /\ owner' = FALSE

-----------------------------------------------------------------------------
\* The routes of PropertiesController, FloorsController and RoomsController that
\* create or archive (the others read, or change columns the model leaves out),
\* and those of TrashController for these three tables.  An empty list in bulk
\* passes every check and writes nothing.
Lists(T) == SUBSET T \ {{}}

PropertyRoutes(r) ==
  \/ \E p \in Properties : CreateProperty(r, p) \/ ArchiveProperty(r, p)
  \/ \E S \in Lists(Properties) : ArchiveProperties(r, S)

FloorRoutes(r) ==
  \/ \E f \in Floors : CreateFloor(r, f) \/ ArchiveFloor(r, f)
  \/ \E S \in Lists(Floors) : ArchiveFloors(r, S)

RoomRoutes(r) ==
  \/ \E o \in Rooms : CreateRoom(r, o) \/ ArchiveRoom(r, o)
  \/ \E S \in Lists(Rooms) : ArchiveRooms(r, S)

TrashRoutes(r) ==
  \/ \E i \in Items : Restore(r, i)
  \/ \E p \in Properties : PurgeProperty(r, p)
  \/ \E f \in Floors : PurgeFloor(r, f)
  \/ \E o \in Rooms : PurgeRoom(r, o)

Arrive(r) == PropertyRoutes(r) \/ FloorRoutes(r) \/ RoomRoutes(r) \/ TrashRoutes(r)

Advance(r) ==
  \/ Insert(r)
  \/ CountOfProperty(r)
  \/ PendingOfProperty(r)
  \/ CountOnFloor(r)
  \/ CountInRoom(r)
  \/ BulkVerify(r)
  \/ ArchiveWrite(r)
  \/ PurgeRead(r)
  \/ PurgeCommit(r)

LeaseStep(l) ==
  \/ \E o \in Rooms, p \in Properties : Sign(l, o, p)
  \/ Activate(l)
  \/ Bill(l)
  \/ Submit(l)
  \/ Charge(l)
  \/ DeleteBill(l)
  \/ Pay(l)
  \/ End(l)
  \/ \E offset \in BOOLEAN : Terminate(l, offset)

Deletion ==
  \/ \E l \in Leases : DeleteLease(l)
  \/ \E S \in SUBSET Leases : DeleteTenant(S)
  \/ DeleteLandlord

Next ==
  \/ \E r \in Requests : Arrive(r) \/ Advance(r) \/ Abort(r)
  \/ \E l \in Leases : LeaseStep(l)
  \/ Deletion

Spec == Init /\ [][Next]_vars
-----------------------------------------------------------------------------
(* Properties. *)

\* Nothing gets lost between the listings and the trash, however deletions
\* overlap creations and signatures: what exists, and the room and property of
\* every agreement, is shown, or it or something above it can be restored from
\* the trash; and so an ACTIVE agreement has its room among the occupied ones
\* (findAll of the three services, getOccupancyStats, getTrashItems,
\* permanentDelete).
NothingIsHidden ==
  LET trashed == UNION {Under(i) : i \in TrashItems}
      shown   == PropertiesShown \cup RoomsShown \cup (UNION {FloorsShown(p) : p \in Properties})
  IN
  /\ {i \in Items : Exists(i)} \subseteq shown \cup trashed
  /\ \A l \in Leases : Live(l) => {lease[l].room, lease[l].prop} \subseteq shown \cup trashed
  /\ \A l \in Leases : lease[l].status = "ACTIVE" => lease[l].room \in RoomsOccupied \cup trashed

\* The trash as its users see it: deletion for good takes an item once, with all
\* that is below it and exactly the agreements there, or nothing; or agreements
\* alone, or with their landlord everything (permanentDelete).
Soft == INSTANCE SoftDelete WITH
  Below   <- [i \in Items |-> Under(i)],
  Records <- Leases,
  phase   <- item,
  anchors <- [l \in Leases |-> IF Live(l) THEN {lease[l].room, lease[l].prop} ELSE {}]

ImplementsSoftDelete == Soft!Spec

\* The agreement names the property its room is in.
Coherent(l) == lease[l].prop = PropertyOf[FloorOf[lease[l].room]]

\* "Blocks archiving if active tenants or pending invoices exist": whatever is
\* archived by a request that runs alone, one item or many, whichever rooms of it
\* are in the trash already, no agreement is ACTIVE under it; and nothing is owed
\* there if it is a property.  Said of agreements that name the property their
\* room is in: the code compares the two nowhere.
ArchivesVacant(r) ==
  req[r].alone /\ ArchiveWrite(r) =>
    \A l \in Leases : Live(l) /\ Coherent(l)
                      /\ lease[l].room \in UNION {Under(i) : i \in req[r].items} =>
      /\ lease[l].status # "ACTIVE"
      /\ req[r].items \subseteq Properties => lease[l].invoice # "open"

ArchivedIsVacant == [][\A r \in Requests : ArchivesVacant(r)]_vars

\* The deletions are written out by hand, each table before those it refers to:
\* a deletion for good that runs alone, whatever payments, bills and invoices
\* there are, fails only because of the record of a deposit (permanentDelete).
FailsForDeposits(r) ==
  req[r].alone /\ PurgeCommit(r) =>
    \/ \A i \in req[r].items : item'[i] = "gone"
    \/ \E l \in Leases : lease[l].refund
                        /\ (\/ lease[l].prop \in req[r].items
                            \/ \E i \in req[r].items : lease[l].room \in Under(i))

OnlyDepositsKeep == [][\A r \in Requests : FailsForDeposits(r)]_vars
=============================================================================

------------------------------ MODULE MCLeases ------------------------------
(***************************************************************************)
(* Leases for TLC.  All agreements are for one tenant in one room, which   *)
(* takes one of them (occupancy ENTIRE); other rooms and tenants would     *)
(* only repeat what happens to these.  They differ in the leaving rule:    *)
(* days stayed since long ago (l1), days stayed from the second of this    *)
(* month, as the agreement's rule has it (l2), and the full month (l3).    *)
(***************************************************************************)
EXTENDS Leases, TLC

CONSTANTS room, tenant, l1, l2, l3

MCRooms    == {room}
MCTenants  == {tenant}
MCRoomOf   == [l \in Leases |-> room]
MCTenantOf == [l \in Leases |-> tenant]
MCCapacity == [o \in MCRooms |-> 1]

\* A credit, and a total above the deposit.
MCTotals == {-1, 3}

MCLeavingOption == [l \in Leases |-> CASE l = l1 -> "PAY_STAY_DATES"
                                       [] l = l2 -> "DECIDE_IN_AGREEMENT"
                                       [] l = l3 -> "PAY_FULL_MONTH"]
MCLeavingRule   == [l \in Leases |-> IF l = l2 THEN "PAY_STAY_DATES" ELSE NoRule]
MCStartDay      == [l \in Leases |-> IF l = l2 THEN 2 ELSE -30]

\* Nothing tells requests apart.
Symmetric == Permutations(Requests)
=============================================================================

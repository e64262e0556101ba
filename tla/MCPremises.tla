----------------------------- MODULE MCPremises -----------------------------
(***************************************************************************)
(* Premises for TLC: two properties, of which one has a floor and a room,  *)
(* so that an agreement may name the other property.                       *)
(***************************************************************************)
EXTENDS Premises, TLC

CONSTANTS house, annex, floor, room

MCProperties == {house, annex}
MCFloors     == {floor}
MCRooms      == {room}
MCPropertyOf == [f \in MCFloors |-> house]
MCFloorOf    == [o \in MCRooms |-> floor]

Symmetric == Permutations(Requests)
=============================================================================

------------------------------- MODULE MCStaff -------------------------------
(***************************************************************************)
(* Staff for TLC: one landlord and the platform, two roles, three users.  *)
(***************************************************************************)
EXTENDS Staff, TLC

Symmetric == Permutations(Requests) \cup Permutations(Users) \cup Permutations(Roles)
=============================================================================

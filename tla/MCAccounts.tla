----------------------------- MODULE MCAccounts -----------------------------
(* Accounts for TLC: interchangeable users, agreements and requests.        *)
EXTENDS Accounts, TLC

Symmetric == Permutations(Requests) \cup Permutations(Users) \cup Permutations(Leases)
=============================================================================

--------------------------- MODULE MCSubscriptions ---------------------------
(***************************************************************************)
(* Subscriptions for TLC: landlords have names of their own.               *)
(***************************************************************************)
EXTENDS Subscriptions, TLC

MCNameOf == [l \in Landlords |-> l]

Symmetric == Permutations(Requests) \cup Permutations(Plans)
=============================================================================

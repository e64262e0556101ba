------------------------------ MODULE Deposits ------------------------------
(***************************************************************************)
(* What happens to the security deposits, whoever asks for what at the     *)
(* same time: each is held until it is split, once, into a part that is    *)
(* kept and a part that goes back; then that part is paid out.             *)
(***************************************************************************)
EXTENDS Integers

CONSTANTS Leases, Deposit

VARIABLE account   \* what became of the deposit of each agreement

\* Deductions below 0 are what the landlord owed the tenant besides.
Share == [phase : {"split"}, amount : Nat, deductions : Int]

Held   == [phase |-> "held", amount |-> 0, deductions |-> 0]
Closed == [Held EXCEPT !.phase = "closed"]

Init == account = [l \in Leases |-> Held]

\* Whatever was deducted, the rest of the deposit goes back, nothing below 0.
Split(l) ==
  /\ account[l].phase = "held"
  /\ account'[l] \in Share
  /\ account'[l].amount + account'[l].deductions = Deposit
  /\ account' = [account EXCEPT ![l] = account'[l]]

Repay(l) ==
  /\ account[l].phase = "split"
  /\ account' = [account EXCEPT ![l].phase = "repaid"]

\* The agreement is deleted for good, with everything recorded about it.
Close(l) ==
  /\ account[l].phase # "closed"
  /\ account' = [account EXCEPT ![l] = Closed]

Next ==
  \E l \in Leases :
    \/ Split(l)
    \/ Repay(l)
    \/ Close(l)

Spec == Init /\ [][Next]_account
=============================================================================

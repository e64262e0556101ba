--------------------------- MODULE LeaseLifecycle ---------------------------
(***************************************************************************)
(* What the life of a rental agreement looks like to its landlord and its  *)
(* tenant: one phase after another, never back, and its deposit settled    *)
(* when it is terminated and at no other time.                             *)
(***************************************************************************)
CONSTANT Leases

VARIABLES
  phase,    \* where each agreement is in its life
  settled   \* the agreements whose deposit has been settled

vars == <<phase, settled>>

Init ==
  /\ phase = [l \in Leases |-> "none"]
  /\ settled = {}

Move(l, from, to) ==
  /\ phase[l] \in from
  /\ phase' = [phase EXCEPT ![l] = to]

Invite(l)     == Move(l, {"none"}, "DRAFT") /\ UNCHANGED settled
Accept(l)     == Move(l, {"DRAFT"}, "ACTIVE") /\ UNCHANGED settled
GiveNotice(l) == Move(l, {"ACTIVE"}, "TERMINATION_REQUESTED") /\ UNCHANGED settled

Terminate(l) ==
  /\ Move(l, {"ACTIVE", "TERMINATION_REQUESTED"}, "TERMINATED")
  /\ settled' = settled \cup {l}

\* Several agreements run out in the same night.
Expire ==
  /\ \E S \in SUBSET {l \in Leases : phase[l] = "ACTIVE"} :
       phase' = [l \in Leases |-> IF l \in S THEN "EXPIRED" ELSE phase[l]]
  /\ UNCHANGED settled

\* Deletion for good, with the record of the deposit.
Forget(l) ==
  /\ Move(l, {"DRAFT", "ACTIVE", "TERMINATION_REQUESTED", "EXPIRED", "TERMINATED"},
          "deleted")
  /\ settled' = settled \ {l}

Next ==
  \/ \E l \in Leases : \/ Invite(l) \/ Accept(l) \/ GiveNotice(l)
                       \/ Terminate(l) \/ Forget(l)
  \/ Expire

Spec == Init /\ [][Next]_vars
=============================================================================

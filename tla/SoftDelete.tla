------------------------------ MODULE SoftDelete ------------------------------
(***************************************************************************)
(* What the trash promises of a tree of things and of the records that     *)
(* hang on them: things come in below things that exist, go to the trash   *)
(* and come back any number of times, and leave for good once, all at      *)
(* once with everything below them and with every record that hangs there, *)
(* and no other.  Records may also be discarded, without the things.       *)
(***************************************************************************)
CONSTANTS
  Items,
  Below,     \* Below[i]: the items under i, and i
  Records

VARIABLES
  phase,     \* "none", "listed", "archived" or "gone"
  anchors    \* the items a record hangs on; {} if there is no such record

vars == <<phase, anchors>>

There == {i \in Items : phase[i] \in {"listed", "archived"}}

Init ==
  /\ phase = [i \in Items |-> "none"]
  /\ anchors = [l \in Records |-> {}]

Create(i) ==
  /\ phase[i] = "none"
  /\ \A j \in Items : i \in Below[j] => j = i \/ j \in There
  /\ phase' = [phase EXCEPT ![i] = "listed"]
  /\ UNCHANGED anchors

Archive(S) ==
  /\ S \subseteq There
  /\ phase' = [i \in Items |-> IF i \in S THEN "archived" ELSE phase[i]]
  /\ UNCHANGED anchors

Restore(i) ==
  /\ i \in There
  /\ phase' = [phase EXCEPT ![i] = "listed"]
  /\ UNCHANGED anchors

\* A record is made on things that exist.
Hang(l, S) ==
  /\ anchors[l] = {}
  /\ S \subseteq There
  /\ anchors' = [anchors EXCEPT ![l] = S]
  /\ UNCHANGED phase

\* All or nothing.
Purge(S) ==
  LET gone == UNION {Below[i] : i \in S} IN
  /\ S \subseteq There
  /\ phase' = [i \in Items |-> IF i \in gone \cap There THEN "gone" ELSE phase[i]]
  /\ anchors' = [l \in Records |-> IF anchors[l] \cap gone = {} THEN anchors[l] ELSE {}]

Discard(T) ==
  /\ UNCHANGED phase
  /\ anchors' = [l \in Records |-> IF l \in T THEN {} ELSE anchors[l]]

Next ==
  \/ \E T \in SUBSET Records : Discard(T)
  \/ \E S \in SUBSET Items : Archive(S)
  \/ \E i \in Items : Create(i) \/ Restore(i)
  \/ \E S \in SUBSET Items : Purge(S)
  \/ \E l \in Records, S \in SUBSET Items : Hang(l, S)

Spec == Init /\ [][Next]_vars
=============================================================================

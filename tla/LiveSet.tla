------------------------------ MODULE LiveSet ------------------------------
(***************************************************************************)
(* What the workers' membership sets promise, without saying how: in each  *)
(* process the last stream event about a value decides whether it is a     *)
(* member, and only values no event has touched follow the snapshot        *)
(* underneath, whatever snapshots are swapped in and when.                 *)
(***************************************************************************)
CONSTANTS Workers, Values

VARIABLES
  member,    \* the values a worker's set answers "present" for
  touched    \* the values some event of the process's stream was about

vars == <<member, touched>>

TypeOK ==
  /\ member \in [Workers -> SUBSET Values]
  /\ touched \in [Workers -> SUBSET Values]

Init ==
  /\ member = [w \in Workers |-> {}]
  /\ touched = [w \in Workers |-> {}]

\* A create, update or merge event about the values vs.
Add(w, vs) ==
  /\ member' = [member EXCEPT ![w] = @ \cup vs]
  /\ touched' = [touched EXCEPT ![w] = @ \cup vs]

\* A delete event.
Remove(w, vs) ==
  /\ member' = [member EXCEPT ![w] = @ \ vs]
  /\ touched' = [touched EXCEPT ![w] = @ \cup vs]

\* A new snapshot is put underneath.
Rebase(w, snapshot) ==
  /\ member' = [member EXCEPT ![w] = (@ \cap touched[w]) \cup (snapshot \ touched[w])]
  /\ UNCHANGED touched

\* The process ends; the next one begins with nothing.
Reset(w) ==
  /\ member' = [member EXCEPT ![w] = {}]
  /\ touched' = [touched EXCEPT ![w] = {}]

Next == \E w \in Workers :
  Reset(w) \/ \E vs \in SUBSET Values : Add(w, vs) \/ Remove(w, vs) \/ Rebase(w, vs)

Spec == Init /\ [][Next]_vars
=============================================================================

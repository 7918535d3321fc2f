-------------------------- MODULE MCMembershipSync --------------------------
(* Small instances of MembershipSync for TLC. *)
EXTENDS MembershipSync, TLC

CONSTANTS w1, w2, a, b, o1, o2, o3, i1, i2

\* o1 has the value a, and only i1 may be based on it: in SyncBuilder a file,
\* whose own events carry no value. o2 and o3 have the value b, as a domain and a
\* host name do: both indicators may be based on o2, and none ever is on o3.
MCShows == [o \in Observables |-> IF o = o1 THEN a ELSE b]
MCBasis == [i \in Indicators |->
             IF i = i1 THEN Observables \ {o3} ELSE Observables \cap {o2}]

\* The second observable of the value b comes later, if at all.
InitWithoutTwin == Init /\ o3 \notin present
SpecWithoutTwin == InitWithoutTwin /\ [][Next]_vars
=============================================================================

------------------------ MODULE MCSharedMembership ------------------------
(* Small instances of SharedMembership for TLC. *)
EXTENDS SharedMembership

CONSTANTS w1, w2
=============================================================================

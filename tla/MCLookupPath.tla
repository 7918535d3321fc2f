---------------------------- MODULE MCLookupPath ----------------------------
(* Small instances of LookupPath for TLC. *)
EXTENDS LookupPath, TLC

CONSTANTS r1, r2, url, host

\* A URL and the hostname in it.
MCHostOf == url :> host @@ host :> host

\* Requests are interchangeable in the safety run.
Symmetry == Permutations(Requests)
=============================================================================

--------------------------- MODULE MCFlightCalls ---------------------------
(* Small instances of FlightCalls for TLC. *)
EXTENDS FlightCalls

CONSTANTS c1, c2, c3, url, host
=============================================================================

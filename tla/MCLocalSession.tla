--------------------------- MODULE MCLocalSession ---------------------------
(* The requests of the instances of LocalSession.                           *)
EXTENDS LocalSession

CONSTANTS q1, q2
=============================================================================

--------------------------- MODULE MCHealthCheck ---------------------------
(* Small instances of HealthCheck. *)
EXTENDS HealthCheck

CONSTANTS i1, i2, h1, h2, e1
=============================================================================

----------------------------- MODULE MCJobTimer -----------------------------
(* Small instances of JobTimer. *)
EXTENDS JobTimer, TLC

CONSTANTS g1, g2, s1, s2
=============================================================================

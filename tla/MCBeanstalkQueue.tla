-------------------------- MODULE MCBeanstalkQueue --------------------------
(* Small instances of BeanstalkQueue. *)
EXTENDS BeanstalkQueue

CONSTANTS p1, f1, f2
=============================================================================

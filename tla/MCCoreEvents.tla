---------------------------- MODULE MCCoreEvents ----------------------------
(***************************************************************************)
(* A small instance of CoreEvents: a reader, two changes, two faults.      *)
(***************************************************************************)
EXTENDS CoreEvents

CONSTANT a
=============================================================================

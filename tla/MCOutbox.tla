------------------------------ MODULE MCOutbox ------------------------------
(***************************************************************************)
(* A small instance of Outbox: three events, two drains at once, batches of*)
(* two, so that a batch is full, is cut off and passes over locked rows.   *)
(***************************************************************************)
EXTENDS Outbox
=============================================================================

------------------------------ MODULE MCOutbox ------------------------------
(* Instances of Outbox for the model checker. *)
EXTENDS Outbox
=============================================================================

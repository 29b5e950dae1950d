---------------------------- MODULE MCAttempts -----------------------------
(* Instances of Attempts for the model checker. *)
EXTENDS Attempts, TLC

=============================================================================

--------------------------- MODULE MCSessionStore ---------------------------
(* Instances of SessionStore for the model checker. *)
EXTENDS SessionStore
=============================================================================

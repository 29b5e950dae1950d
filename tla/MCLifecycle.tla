---------------------------- MODULE MCLifecycle ----------------------------
(* Instances of Lifecycle for the model checker. *)
EXTENDS Lifecycle, TLC

\* Once a disconnect() has overlapped a resume() or a reconnect(), no property
\* of the run says anything more.
NotCrossed == ~ crossed
=============================================================================

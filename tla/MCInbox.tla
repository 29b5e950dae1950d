------------------------------ MODULE MCInbox ------------------------------
(* Instances of Inbox for the model checker. *)
EXTENDS Inbox, TLC

\* Once two lanes have overlapped, no property of the run says anything more.
NotOverlapped == ~ overlap
=============================================================================

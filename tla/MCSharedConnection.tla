------------------------- MODULE MCSharedConnection -------------------------
(* Instances of SharedConnection for the model checker. *)
EXTENDS SharedConnection, TLC

CONSTANTS t1, t2, t3

\* For the safety properties alone: three transports are 743 000 states.
Symmetry == Permutations(Transports)
=============================================================================

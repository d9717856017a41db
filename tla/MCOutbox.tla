------------------------------- MODULE MCOutbox -------------------------------
(***************************************************************************)
(* Outbox on small instances: every row belongs to one user.               *)
(***************************************************************************)
EXTENDS Outbox, TLC

OneOwner == [n \in Notifications |-> CHOOSE u \in Users : TRUE]

Symmetry == Permutations(Workers)
===============================================================================

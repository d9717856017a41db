----------------------------- MODULE MCComplaints -----------------------------
(***************************************************************************)
(* Complaints on a small instance: one resolution that pays, and the       *)
(* seller's messages of the instance, of which `again' repeats the action  *)
(* of `offer'.                                                             *)
(***************************************************************************)
EXTENDS Complaints, TLC

CONSTANTS ask1, ask2, offer, again, close, r1, c1, c2

Kinds == [e \in Events |->
    CASE e \in {ask1, ask2} -> "INFO_REQUESTED"
      [] e = close -> "CLOSED"
      [] OTHER -> "RESOLUTION_PROPOSED"]
Acts == [e \in Events |-> IF e = again THEN offer ELSE e]
CallSymmetry == Permutations(Calls)
===============================================================================

------------------------------ MODULE MCGroupChat ------------------------------
(***************************************************************************)
(* GroupChat on small instances: one person's phone and a laptop that is   *)
(* opened later; a guest can be added to Devices.                          *)
(***************************************************************************)
EXTENDS GroupChat

CONSTANTS phone, laptop, guest

Owners == [d \in Devices |-> IF d = guest THEN 2 ELSE 1]
===============================================================================

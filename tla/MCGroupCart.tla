------------------------------ MODULE MCGroupCart ------------------------------
(***************************************************************************)
(* GroupCart on small instances: a host with a dish and a pack, and guests *)
(* with a dish each.                                                       *)
(***************************************************************************)
EXTENDS GroupCart

CONSTANTS ann, bo, cy, dee, hostDish, boDish, pack

Owners == [i \in Items |-> IF i = boDish THEN bo ELSE ann]

\* A pack costs less than two dishes.
Prices == [i \in Items |-> IF i \in Packs THEN 3 ELSE 2]
===============================================================================

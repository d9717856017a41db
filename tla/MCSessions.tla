------------------------------ MODULE MCSessions ------------------------------
(***************************************************************************)
(* Sessions on small instances: the phone does everything, the desk signs  *)
(* in and stays signed in.                                                 *)
(***************************************************************************)
EXTENDS Sessions, TLC

CONSTANTS phone, desk, p1, d1, c1, c2

TabOwners == [t \in Tabs |-> IF t = d1 THEN desk ELSE phone]
Buttons == [t \in Tabs |->
    IF t = d1 THEN {"retry", "signin"}
    ELSE {"retry", "load", "signin", "logout", "others", "one", "reset"}]
Slots == Permutations(Calls)
===============================================================================

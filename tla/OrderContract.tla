---------------------------- MODULE OrderContract ----------------------------
(***************************************************************************)
(* What an order promises, whatever the races inside its handlers: it is   *)
(* sold once, against its full price or against cash to be collected, and  *)
(* a closed order is never sold again.                                     *)
(***************************************************************************)
EXTENDS Integers

CONSTANTS Orders, Price

VARIABLES
    sale,       \* "open", "prepaid", "on_delivery" or "closed"
    funds       \* money and credit taken for the order

Init ==
    /\ sale = [o \in Orders |-> "open"]
    /\ funds = [o \in Orders |-> 0]

Collect(o) ==
    /\ funds'[o] > funds[o]
    /\ funds' = [funds EXCEPT ![o] = funds'[o]]
    /\ UNCHANGED sale

Sell(o) ==
    /\ sale[o] = "open"
    /\ \/ funds[o] >= Price[o] /\ sale' = [sale EXCEPT ![o] = "prepaid"]
       \/ sale' = [sale EXCEPT ![o] = "on_delivery"]
    /\ UNCHANGED funds

Close(o) ==
    /\ sale' = [sale EXCEPT ![o] = "closed"]
    /\ UNCHANGED funds

Next == \E o \in Orders : Collect(o) \/ Sell(o) \/ Close(o)

Spec == Init /\ [][Next]_<<sale, funds>>
=============================================================================

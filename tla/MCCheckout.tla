------------------------------ MODULE MCCheckout ------------------------------
(***************************************************************************)
(* Checkout on small instances.                                            *)
(***************************************************************************)
EXTENDS Checkout, TLC

CONSTANTS MCPrice

PriceOf == [o \in Orders |-> MCPrice]

\* Requests are interchangeable slots.
Symmetry == Permutations(Requests)

=============================================================================

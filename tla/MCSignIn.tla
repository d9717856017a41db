------------------------------- MODULE MCSignIn -------------------------------
(***************************************************************************)
(* SignIn on a small instance: two handlers at a time.                     *)
(***************************************************************************)
EXTENDS SignIn, TLC

CONSTANTS c1, c2, right, wrong

CallSymmetry == Permutations(Calls)
===============================================================================

--------------------------- MODULE MCOrderPlacement ---------------------------
(***************************************************************************)
(* OrderPlacement on small instances: two requests are one attempt of one  *)
(* user, a third uses the same key for another user, and a fourth belongs  *)
(* to the first user and has no key.                                       *)
(***************************************************************************)
EXTENDS OrderPlacement

CONSTANTS r1, r2, r3, r4, u1, u2, k1

Senders == [r \in Requests |-> IF r = r3 THEN u2 ELSE u1]

KeysSent == [r \in Requests |-> IF r = r4 THEN NoKey ELSE k1]
===============================================================================

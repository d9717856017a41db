---------------------------- MODULE MCHousekeeping ----------------------------
(***************************************************************************)
(* Housekeeping on a small instance: one user, one alert, a pass of each   *)
(* loop.                                                                   *)
(***************************************************************************)
EXTENDS Housekeeping

CONSTANTS u1, a1, c1, c2, minute, daily, hourly

Owners == [a \in Alerts |-> u1]
Jobs == [p \in Passes |-> CASE p = daily -> "plus" [] p = hourly -> "deletions" [] OTHER -> "alerts"]
===============================================================================

------------------------------- MODULE Attempts -------------------------------
(***************************************************************************)
(* What placing an order promises a buyer whose requests may be sent again *)
(* and overlap: an attempt makes one order; a request ends once, refused   *)
(* without an order of its own, or answered with the order of its attempt, *)
(* a discounted one of its own only after the code was redeemed for it.    *)
(***************************************************************************)
EXTENDS Integers

CONSTANTS Requests, CouponRequests, SameAttempt(_, _)

VARIABLES
    placed,     \* the orders, named after the request that made them
    redeemed,   \* the orders whose discount was redeemed
    outcome,    \* "open", "answered", "refused" or "lost"
    given       \* the order a request was answered with

Init ==
    /\ placed = {} /\ redeemed = {}
    /\ outcome = [r \in Requests |-> "open"]
    /\ given = [r \in Requests |-> r]

Ends(r, how) == outcome[r] = "open" /\ outcome' = [outcome EXCEPT ![r] = how]

EndsWith(r, o) == Ends(r, "answered") /\ given' = [given EXCEPT ![r] = o]

Places(r) ==
    /\ r \notin placed /\ \A o \in placed : ~SameAttempt(o, r)
    /\ placed' = placed \cup {r}

PlaceDiscounted(r) ==
    /\ r \in CouponRequests /\ outcome[r] = "open" /\ Places(r)
    /\ UNCHANGED <<redeemed, outcome, given>>

Place(r) ==
    /\ r \notin CouponRequests /\ Places(r) /\ EndsWith(r, r)
    /\ UNCHANGED redeemed

Redeem(r) ==
    /\ r \in placed \ redeemed /\ redeemed' = redeemed \cup {r} /\ EndsWith(r, r)
    /\ UNCHANGED placed

AnswerAgain(r) ==
    /\ r \notin placed
    /\ \E o \in placed : SameAttempt(o, r) /\ EndsWith(r, o)
    /\ UNCHANGED <<placed, redeemed>>

Refuse(r) ==
    /\ r \notin placed /\ Ends(r, "refused")
    /\ UNCHANGED <<placed, redeemed, given>>

Lose(r) ==
    /\ Ends(r, "lost")
    /\ UNCHANGED <<placed, redeemed, given>>

Serve(r) ==
    \/ PlaceDiscounted(r) \/ Place(r) \/ Redeem(r) \/ AnswerAgain(r)
    \/ Refuse(r) \/ Lose(r)

Next == \E r \in Requests : Serve(r)

Spec == Init /\ [][Next]_<<placed, redeemed, outcome, given>>
===============================================================================

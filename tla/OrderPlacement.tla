---------------------------- MODULE OrderPlacement ----------------------------
(***************************************************************************)
(* Placing an order (POST /orders): the idempotency key that keeps retries *)
(* of one attempt to one order, and the promo code that is evaluated       *)
(* before the order exists and redeemed after it.  Each step is one        *)
(* database access of one request; requests overlap freely and the process *)
(* can die between any two steps.                                          *)
(***************************************************************************)
EXTENDS Integers, FiniteSets

CONSTANTS
    Requests,        \* the requests; an order is named after the one that made it
    Users,
    Sender,          \* who sent each request
    Keys,
    KeyOf,           \* the Idempotency-Key of each request
    NoKey,           \* no key: no protection
    CouponRequests,  \* requests that carry the promo code
    UsageLimit,      \* the code's usageLimit
    FirstOrderOnly,  \* the code's firstOrderOnly
    MaxCrashes       \* bound on requests that die half way

ASSUME PlacementAssumption ==
    /\ Sender \in [Requests -> Users]
    /\ NoKey \notin Keys /\ KeyOf \in [Requests -> Keys \cup {NoKey}]
    /\ CouponRequests \subseteq Requests
    /\ UsageLimit \in Nat /\ FirstOrderOnly \in BOOLEAN /\ MaxCrashes \in Nat

VARIABLES
    orders,       \* orders that exist
    discounted,   \* orders whose amount has the code's discount
    aged,         \* orders older than IDEMPOTENCY_WINDOW_MS
    buyers,       \* external: users who have a paid order
    redemptions,  \* orders with a CouponRedemption row
    usedCount,    \* the coupon's usedCount
    req,          \* where each request is
    given,        \* the order it was answered with, once "answered"
    crowd,        \* history: the most requests past the limit check at once
    rivals,       \* history: the same past the redemption check, for each user
    crashes

db == <<orders, discounted, redemptions, usedCount>>
environment == <<aged, buyers>>
overlaps == <<crowd, rivals>>
vars == <<orders, discounted, aged, buyers, redemptions, usedCount, req, given,
          crowd, rivals, crashes>>

Steps == {"idle", "quote", "coupon", "redemption", "history", "create",
          "conflict", "redeem", "answered", "refused", "lost"}
Ended == {"answered", "refused", "lost"}

Init ==
    /\ orders = {} /\ discounted = {} /\ redemptions = {} /\ usedCount = 0
    /\ aged = {} /\ buyers = {}
    /\ req = [r \in Requests |-> "idle"]
    /\ given = [r \in Requests |-> r]
    /\ crowd = 0 /\ rivals = [u \in Users |-> 0]
    /\ crashes = 0

Goto(r, step) == req' = [req EXCEPT ![r] = step]

Answer(r, o) ==
    /\ Goto(r, "answered")
    /\ given' = [given EXCEPT ![r] = o]

SameAttempt(p, r) ==
    Sender[p] = Sender[r] /\ KeyOf[p] = KeyOf[r] /\ KeyOf[r] # NoKey

-----------------------------------------------------------------------------
(* POST /orders *)

Recent(r) == {o \in orders \ aged : SameAttempt(o, r)}

\* A retry of an attempt completed within the window gets the order it made.
Lookup(r) ==
    /\ req[r] = "idle"
    /\ \/ \E o \in Recent(r) : Answer(r, o)
       \/ Recent(r) = {} /\ Goto(r, "quote") /\ UNCHANGED given
    /\ UNCHANGED <<db, environment, overlaps, crashes>>

\* The price is worked out again; the option, the address or the schedule may
\* be refused.
Quote(r) ==
    /\ req[r] = "quote"
    /\ \/ Goto(r, IF r \in CouponRequests THEN "coupon" ELSE "create")
       \/ Goto(r, "refused")
    /\ UNCHANGED <<db, environment, given, overlaps, crashes>>

\* Requests that may still redeem the code: past its limit, and past its
\* once-per-user rule.
PastLimit ==
    {r \in CouponRequests : req[r] \in {"redemption", "history", "create", "redeem"}}

PastRule(u) ==
    {r \in PastLimit : Sender[r] = u /\ req[r] # "redemption"}

Larger(m, n) == IF m < n THEN n ELSE m

\* evaluateCoupon: each question is a query of its own.
Check(r, from, holds, next) ==
    /\ req[r] = from
    /\ Goto(r, IF holds THEN next ELSE "refused")
    /\ UNCHANGED <<db, environment, given, crashes>>

LimitLeft == usedCount < UsageLimit

ReadCoupon(r) ==
    /\ Check(r, "coupon", LimitLeft, "redemption")
    /\ crowd' = Larger(crowd, Cardinality(PastLimit'))
    /\ UNCHANGED rivals

\* Mutant: a redemption is looked for under the order, which is new.
NeverRedeemed(r) == r \notin redemptions

NotRedeemedYet(r) == \A o \in redemptions : Sender[o] # Sender[r]

ReadRedemption(r) ==
    /\ Check(r, "redemption", NotRedeemedYet(r),
             IF FirstOrderOnly THEN "history" ELSE "create")
    /\ rivals' = [u \in Users |-> Larger(rivals[u], Cardinality(PastRule(u)'))]
    /\ UNCHANGED crowd

NothingPaid(r) == Sender[r] \notin buyers

ReadHistory(r) ==
    Check(r, "history", NothingPaid(r), "create") /\ UNCHANGED overlaps

\* Mutant: no unique index on the user and the key.
FreeAlways(r) == TRUE

Free(r) == \A o \in orders : ~SameAttempt(o, r)

\* order.create; the unique index stops the second insert of an attempt.
Create(r) ==
    /\ req[r] = "create"
    /\ \/ /\ Free(r)
          /\ orders' = orders \cup {r}
          /\ \/ /\ r \in CouponRequests
                /\ discounted' = discounted \cup {r}
                /\ Goto(r, "redeem")
                /\ UNCHANGED given
             \/ /\ r \notin CouponRequests
                /\ Answer(r, r)
                /\ UNCHANGED discounted
       \/ /\ ~Free(r)
          /\ Goto(r, "conflict")
          /\ UNCHANGED <<orders, discounted, given>>
    /\ UNCHANGED <<environment, redemptions, usedCount, overlaps, crashes>>

\* Mutant: the loser is handed a 500.
ConflictRefused(r) ==
    /\ req[r] = "conflict"
    /\ Goto(r, "refused")
    /\ UNCHANGED <<db, environment, given, overlaps, crashes>>

\* P2002: the order that won, however old it is.
Conflict(r) ==
    /\ req[r] = "conflict"
    /\ \/ \E o \in orders : SameAttempt(o, r) /\ Answer(r, o)
       \/ Free(r) /\ Goto(r, "refused") /\ UNCHANGED given
    /\ UNCHANGED <<db, environment, overlaps, crashes>>

\* redeemCoupon: the row and the count in one transaction.
Redeem(r) ==
    /\ req[r] = "redeem"
    /\ redemptions' = redemptions \cup {r}
    /\ usedCount' = usedCount + 1
    /\ Answer(r, r)
    /\ UNCHANGED <<orders, discounted, environment, overlaps, crashes>>

-----------------------------------------------------------------------------
(* Faults and the environment *)

\* The process dies, or a query fails: the caller sees an error.
Crash(r) ==
    /\ req[r] \notin Ended \cup {"idle"}
    /\ crashes < MaxCrashes
    /\ crashes' = crashes + 1
    /\ Goto(r, "lost")
    /\ UNCHANGED <<db, environment, given, overlaps>>

\* The age of an order without a key is never asked for.
Age(o) ==
    /\ o \in orders \ aged /\ KeyOf[o] # NoKey
    /\ aged' = aged \cup {o}
    /\ UNCHANGED <<db, buyers, req, given, overlaps, crashes>>

\* The checkout of an order that exists confirms it.
Pay(o) ==
    /\ o \in orders /\ Sender[o] \notin buyers
    /\ buyers' = buyers \cup {Sender[o]}
    /\ UNCHANGED <<db, aged, req, given, overlaps, crashes>>

-----------------------------------------------------------------------------

Serve(r) ==
    \/ Lookup(r) \/ Quote(r) \/ ReadCoupon(r) \/ ReadRedemption(r)
    \/ ReadHistory(r) \/ Create(r) \/ Conflict(r) \/ Redeem(r)

Next == \E r \in Requests : Serve(r) \/ Crash(r) \/ Age(r) \/ Pay(r)

Spec == Init /\ [][Next]_vars

\* Node runs a handler that started to its end.
FairSpec == Spec /\ \A r \in Requests : WF_vars(req[r] # "idle" /\ Serve(r))

(***************************************************************************)
(* Properties                                                              *)
(***************************************************************************)

TypeOK ==
    /\ orders \subseteq Requests
    /\ discounted \subseteq orders /\ redemptions \subseteq discounted
    /\ aged \subseteq orders /\ buyers \subseteq Users
    /\ usedCount \in Nat
    /\ req \in [Requests -> Steps]
    /\ given \in [Requests -> Requests]
    /\ crowd \in Nat /\ rivals \in [Users -> Nat]
    /\ crashes \in 0..MaxCrashes

\* However many times one attempt is sent, and however its requests overlap, it
\* makes one order.
OneOrderPerAttempt ==
    \A p, q \in orders : SameAttempt(p, q) => p = q

\* Whoever is answered gets an order of their own, made by this attempt: never
\* another user's under an equal key, never an older order for a request that
\* sent no key.
AnsweredWithOwnOrder ==
    \A r \in Requests : req[r] = "answered" =>
        /\ given[r] \in orders
        /\ given[r] = r \/ SameAttempt(given[r], r)

\* An order keeps a discount that was never redeemed only if its request died
\* between order.create and redeemCoupon.
UnredeemedNeedsCrash ==
    Cardinality({o \in discounted \ redemptions : req[o] # "redeem"}) <= crashes

\* The code's limit and its once-per-user rule are read apart from the insert
\* of the discounted order and from its redemption, and either may fail in
\* between.  Discounts granted exceed the limit only by the requests that were
\* past its check at once, a user's exceed one only by those past the rule's
\* check, and an order whose redemption never came costs the death of a request.
DiscountsWithinLimits ==
    /\ discounted # {} => Cardinality(discounted) < UsageLimit + crowd + crashes
    /\ \A u \in Users :
          Cardinality({o \in discounted : Sender[o] = u}) <= rivals[u] + crashes

\* "One redemption per user, per code" (evaluateCoupon).
OneRedemptionPerUser ==
    \A p, q \in redemptions : Sender[p] = Sender[q] => p = q

\* A request that was not refused ends with an order, whoever made it: the loser
\* of a race is handed the order that won.
CreateSucceeds ==
    \A r \in Requests : req[r] = "create" ~> req[r] \in {"answered", "lost"}

-----------------------------------------------------------------------------
(* The abstract specification that placement implements. *)

Outcomes == [r \in Requests |-> IF req[r] \in Ended THEN req[r] ELSE "open"]

Promise == INSTANCE Attempts WITH
    placed <- orders, redeemed <- redemptions, outcome <- Outcomes

\* However many times one attempt is sent, and however its requests overlap, die
\* or are refused, it makes one order (POST /orders, @@unique([userId,
\* requestKey])); an outcome stays, a refused request has left no order, and an
\* answer names an order of the same sender and attempt.
AttemptsHold == Promise!Spec

-----------------------------------------------------------------------------
(* The inductive invariant behind the safety properties. *)

\* What an order, a redemption and the answer say of the request behind them.
RequestInv(r) ==
    /\ req[r] \in Steps \ (Ended \cup {"redeem"}) => r \notin orders
    /\ req[r] \in {"coupon", "redemption", "history", "redeem"} => r \in CouponRequests
    /\ req[r] = "redeem" => r \in discounted \ redemptions

\* The redemption rows and the count that limits them agree.
CountMatchesRows == usedCount = Cardinality(redemptions)

RedeemedBy(u) == {o \in redemptions : Sender[o] = u}

\* What may still be redeemed fits beside what has been, and the larger part of
\* it passed the checks together.
FlightInv ==
    /\ IsFiniteSet(PastLimit) /\ Cardinality(PastLimit) <= crowd
    /\ crowd = 0 => usedCount = 0 /\ discounted = {}
    /\ crowd > 0 => usedCount + Cardinality(PastLimit) < UsageLimit + crowd
    /\ \A u \in Users :
          Cardinality(RedeemedBy(u)) + Cardinality(PastRule(u)) <= rivals[u]

IInv ==
    /\ TypeOK
    /\ IsFiniteSet(discounted)
    /\ discounted \subseteq CouponRequests
    /\ \A r \in Requests : RequestInv(r)
    /\ FlightInv
    /\ OneOrderPerAttempt /\ AnsweredWithOwnOrder
    /\ CountMatchesRows /\ UnredeemedNeedsCrash
===============================================================================

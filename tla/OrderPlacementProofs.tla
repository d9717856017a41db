------------------------- MODULE OrderPlacementProofs -------------------------
(***************************************************************************)
(* Proofs about OrderPlacement, for any requests, users, keys and limits.  *)
(***************************************************************************)
EXTENDS OrderPlacement, FiniteSetTheorems, TLAPS

USE DEF Steps, Ended

\* Orders that keep a discount nobody will redeem any more.
Unredeemed == {o \in discounted \ redemptions : req[o] # "redeem"}

LEMMA UnredeemedFinite ==
    ASSUME IInv
    PROVE  /\ IsFiniteSet(Unredeemed) /\ Cardinality(Unredeemed) \in Nat
           /\ Cardinality(Unredeemed) <= crashes
           /\ IsFiniteSet(redemptions) /\ Cardinality(redemptions) \in Nat
<1>1. Unredeemed \subseteq discounted /\ redemptions \subseteq discounted
  BY DEF Unredeemed, IInv, TypeOK
<1>2. IsFiniteSet(Unredeemed) /\ IsFiniteSet(redemptions)
  BY <1>1, FS_Subset DEF IInv
<1> QED
  BY <1>2, FS_CardinalityType DEF IInv, UnredeemedNeedsCrash, Unredeemed

\* A set that does not grow cannot outgrow the crashes.
LEMMA UnredeemedShrinks ==
    ASSUME IInv, Unredeemed' \subseteq Unredeemed, crashes' = crashes
    PROVE  UnredeemedNeedsCrash'
<1>1. Cardinality(Unredeemed') \in Nat /\ Cardinality(Unredeemed') <= Cardinality(Unredeemed)
  BY UnredeemedFinite, FS_Subset, FS_CardinalityType
<1> QED
  BY <1>1, UnredeemedFinite DEF UnredeemedNeedsCrash, Unredeemed, IInv, TypeOK

\* A set within the union of two has no more members than they have together.
LEMMA UnionBound ==
    ASSUME NEW A, NEW B, NEW C, IsFiniteSet(A), IsFiniteSet(B), C \subseteq A \cup B
    PROVE  /\ IsFiniteSet(A \cup B)
           /\ Cardinality(C) <= Cardinality(A) + Cardinality(B)
           /\ Cardinality(A \cup B) <= Cardinality(A) + Cardinality(B)
<1>1. /\ IsFiniteSet(A \cup B) /\ IsFiniteSet(A \cap B)
      /\ Cardinality(A \cup B) = Cardinality(A) + Cardinality(B) - Cardinality(A \cap B)
  BY FS_Union, FS_Intersection
<1>2. IsFiniteSet(C) /\ Cardinality(C) <= Cardinality(A \cup B)
  BY <1>1, FS_Subset
<1>3. /\ Cardinality(A) \in Nat /\ Cardinality(B) \in Nat /\ Cardinality(C) \in Nat
      /\ Cardinality(A \cap B) \in Nat /\ Cardinality(A \cup B) \in Nat
  BY <1>1, <1>2, FS_CardinalityType
<1> QED
  BY <1>1, <1>2, <1>3

LEMMA InitIInv == Init => IInv
<1> SUFFICES ASSUME Init PROVE IInv
  OBVIOUS
<1>1. IsFiniteSet({}) /\ Cardinality({}) = 0
  BY FS_EmptySet
<1>2. TypeOK
  BY PlacementAssumption DEF Init, TypeOK
<1>3. CountMatchesRows
  BY <1>1 DEF Init, CountMatchesRows
<1>4. UnredeemedNeedsCrash
  <2>1. {o \in discounted \ redemptions : req[o] # "redeem"} = {}
    BY DEF Init
  <2> QED
    BY <2>1, <1>1 DEF Init, UnredeemedNeedsCrash
<1>5. \A r \in Requests : RequestInv(r)
  BY DEF Init, RequestInv
<1>6. FlightInv
  <2>1. PastLimit = {} /\ \A u \in Users : PastRule(u) = {} /\ RedeemedBy(u) = {}
    BY PlacementAssumption DEF Init, PastLimit, PastRule, RedeemedBy
  <2> QED
    BY <2>1, <1>1 DEF Init, FlightInv
<1>7. OneOrderPerAttempt /\ AnsweredWithOwnOrder
  BY DEF Init, OneOrderPerAttempt, AnsweredWithOwnOrder
<1>8. IsFiniteSet(discounted) /\ discounted \subseteq CouponRequests
  BY <1>1 DEF Init
<1> QED
  BY <1>2, <1>3, <1>4, <1>5, <1>6, <1>7, <1>8 DEF IInv

-----------------------------------------------------------------------------
(* The requests that may still redeem *)

LEMMA FlightsFinite ==
    ASSUME IInv
    PROVE  /\ IsFiniteSet(PastLimit) /\ Cardinality(PastLimit) \in Nat
           /\ crowd \in Nat /\ usedCount \in Nat /\ UsageLimit \in Nat
           /\ \A u \in Users :
                 /\ PastRule(u) \subseteq PastLimit /\ IsFiniteSet(PastRule(u))
                 /\ Cardinality(PastRule(u)) \in Nat
                 /\ RedeemedBy(u) \subseteq redemptions /\ IsFiniteSet(RedeemedBy(u))
                 /\ Cardinality(RedeemedBy(u)) \in Nat /\ rivals[u] \in Nat
<1>1. IsFiniteSet(PastLimit)
  BY DEF IInv, FlightInv
<1>2. crowd \in Nat /\ usedCount \in Nat /\ UsageLimit \in Nat
  BY PlacementAssumption DEF IInv, TypeOK
<1>3. ASSUME NEW u \in Users
      PROVE  /\ PastRule(u) \subseteq PastLimit /\ RedeemedBy(u) \subseteq redemptions
             /\ rivals[u] \in Nat
  BY DEF PastRule, RedeemedBy, IInv, TypeOK
<1> QED
  BY <1>1, <1>2, <1>3, UnredeemedFinite, FS_Subset, FS_CardinalityType

\* Fewer of them, and nothing granted to anyone who was not past the limit.
LEMMA FlightsShrink ==
    ASSUME IInv, PastLimit' \subseteq PastLimit,
           \A u \in Users : PastRule(u)' \subseteq PastRule(u),
           UNCHANGED <<redemptions, usedCount, overlaps>>,
           discounted' = discounted \/ crowd > 0
    PROVE  FlightInv'
<1>1. /\ IsFiniteSet(PastLimit') /\ Cardinality(PastLimit') \in Nat
      /\ Cardinality(PastLimit') <= Cardinality(PastLimit)
  BY FlightsFinite, FS_Subset, FS_CardinalityType
<1>2. ASSUME NEW u \in Users
      PROVE  Cardinality(RedeemedBy(u)') + Cardinality(PastRule(u)') <= rivals'[u]
  <2>1. /\ IsFiniteSet(PastRule(u)') /\ Cardinality(PastRule(u)') \in Nat
        /\ Cardinality(PastRule(u)') <= Cardinality(PastRule(u))
    BY FlightsFinite, FS_Subset, FS_CardinalityType
  <2>2. RedeemedBy(u)' = RedeemedBy(u) /\ rivals'[u] = rivals[u]
    BY DEF RedeemedBy, overlaps
  <2> QED
    BY <2>1, <2>2, FlightsFinite DEF IInv, FlightInv
<1>3. crowd' = crowd /\ usedCount' = usedCount
  BY DEF overlaps
<1>4. /\ Cardinality(PastLimit') <= crowd'
      /\ crowd' = 0 => usedCount' = 0 /\ discounted' = {}
      /\ crowd' > 0 => usedCount' + Cardinality(PastLimit') < UsageLimit + crowd'
  BY <1>1, <1>3, FlightsFinite DEF IInv, FlightInv
<1> QED
  BY <1>1, <1>2, <1>4 DEF FlightInv

\* A request that neither passes the limit nor the once-per-user rule.
LEMMA FlightsKept ==
    ASSUME IInv, NEW r \in Requests, NEW s \in Steps, Goto(r, s),
           s \in {"redemption", "history", "create", "redeem"} /\ r \in CouponRequests =>
               r \in PastLimit /\ (s # "redemption" => req[r] # "redemption")
    PROVE  /\ PastLimit' \subseteq PastLimit
           /\ \A u \in Users : PastRule(u)' \subseteq PastRule(u)
<1>1. req' = [req EXCEPT ![r] = s] /\ req \in [Requests -> Steps]
  BY DEF Goto, IInv, TypeOK
<1>2. req'[r] = s /\ \A q \in Requests : q # r => req'[q] = req[q]
  BY <1>1
<1>3. CouponRequests \subseteq Requests
  BY PlacementAssumption
<1> QED
  BY <1>2, <1>3 DEF PastLimit, PastRule

-----------------------------------------------------------------------------
(* Steps that change nothing but where the request is *)

LEMMA Move ==
    ASSUME IInv, NEW r \in Requests, NEW s \in Steps, Goto(r, s),
           UNCHANGED <<db, environment, given, crashes>>,
           crowd' \in Nat, rivals' \in [Users -> Nat],
           req[r] \notin Ended \cup {"redeem"},
           s \notin {"answered", "redeem", "idle"},
           s \in {"coupon", "redemption", "history"} => r \in CouponRequests,
           FlightInv'
    PROVE  IInv'
<1> USE DEF Goto, db, environment
<1>1. TypeOK'
  BY DEF IInv, TypeOK
<1>2. \A q \in Requests : q # r => req'[q] = req[q]
  BY DEF IInv, TypeOK
<1>3. req'[r] = s
  BY DEF IInv, TypeOK
<1>4. \A q \in Requests : RequestInv(q)'
  <2>1. r \notin orders
    BY DEF IInv, RequestInv, TypeOK
  <2>2. RequestInv(r)'
    BY <1>3, <2>1 DEF RequestInv
  <2>3. ASSUME NEW q \in Requests, q # r PROVE RequestInv(q)'
    BY <1>2, <2>3 DEF IInv, RequestInv
  <2> QED
    BY <2>2, <2>3
<1>6. OneOrderPerAttempt' /\ AnsweredWithOwnOrder'
  BY <1>2, <1>3 DEF IInv, OneOrderPerAttempt, AnsweredWithOwnOrder
<1>7. CountMatchesRows'
  BY DEF IInv, CountMatchesRows
<1>8. Unredeemed' \subseteq Unredeemed
  BY <1>2, <1>3 DEF IInv, TypeOK, Unredeemed
<1> QED
  BY <1>1, <1>4, <1>6, <1>7, <1>8, UnredeemedShrinks DEF IInv

\* Such a step that passes neither of the code's two checks.
LEMMA Idling ==
    ASSUME IInv, NEW r \in Requests, NEW s \in Steps, Goto(r, s),
           UNCHANGED <<db, environment, given, overlaps, crashes>>,
           req[r] \notin Ended \cup {"redeem"},
           s \notin {"answered", "redeem", "idle"},
           s \in {"coupon", "redemption", "history"} => r \in CouponRequests,
           s \in {"redemption", "history", "create"} /\ r \in CouponRequests =>
               r \in PastLimit /\ (s # "redemption" => req[r] # "redemption")
    PROVE  IInv'
<1>1. FlightInv'
  BY FlightsKept, FlightsShrink DEF db
<1>2. crowd' \in Nat /\ rivals' \in [Users -> Nat]
  BY DEF overlaps, IInv, TypeOK
<1> QED
  BY <1>1, <1>2, Move

LEMMA QuoteStep == ASSUME IInv, NEW r \in Requests, Quote(r) PROVE IInv'
<1>1. CASE Goto(r, IF r \in CouponRequests THEN "coupon" ELSE "create")
  BY <1>1, Idling DEF Quote
<1>2. CASE Goto(r, "refused")
  BY <1>2, Idling DEF Quote
<1> QED
  BY <1>1, <1>2 DEF Quote

LEMMA LargerBounds ==
    ASSUME NEW i \in Nat, NEW j \in Nat
    PROVE  Larger(i, j) \in Nat /\ i <= Larger(i, j) /\ j <= Larger(i, j)
BY DEF Larger

\* One that was past no check of the code is counted as the crowd grows.
LEMMA ReadCouponStep == ASSUME IInv, NEW r \in Requests, ReadCoupon(r) PROVE IInv'
<1> USE DEF Check
<1>1. /\ req[r] = "coupon" /\ r \in CouponRequests
      /\ UNCHANGED <<db, environment, given, crashes>>
      /\ rivals' = rivals /\ crowd' = Larger(crowd, Cardinality(PastLimit'))
  BY DEF ReadCoupon, IInv, RequestInv
<1>2. UNCHANGED <<redemptions, usedCount, discounted>> /\ rivals \in [Users -> Nat]
  BY <1>1 DEF db, IInv, TypeOK
<1>3. CASE LimitLeft
  <2>1. Goto(r, "redemption")
    BY <1>3 DEF ReadCoupon
  <2>2. req'[r] = "redemption" /\ \A q \in Requests : q # r => req'[q] = req[q]
    BY <2>1 DEF Goto, IInv, TypeOK
  <2>3. /\ PastLimit' = PastLimit \cup {r} /\ r \notin PastLimit
        /\ \A u \in Users : PastRule(u)' = PastRule(u) /\ RedeemedBy(u)' = RedeemedBy(u)
    BY <1>1, <1>2, <2>2, PlacementAssumption DEF PastLimit, PastRule, RedeemedBy
  <2>4. /\ IsFiniteSet(PastLimit') /\ Cardinality(PastLimit') \in Nat
        /\ Cardinality(PastLimit') = Cardinality(PastLimit) + 1
    BY <2>3, FlightsFinite, FS_AddElement, FS_CardinalityType
  <2>5. crowd' \in Nat /\ crowd <= crowd' /\ Cardinality(PastLimit') <= crowd'
    BY <1>1, <2>4, FlightsFinite, LargerBounds
  <2>6. usedCount' + Cardinality(PastLimit') < UsageLimit + crowd' /\ crowd' > 0
    BY <1>2, <1>3, <2>4, <2>5, FlightsFinite DEF LimitLeft
  <2>7. FlightInv'
    BY <1>1, <2>3, <2>4, <2>5, <2>6 DEF FlightInv, IInv
  <2> QED
    BY <1>1, <1>2, <2>1, <2>5, <2>7, Move
<1>4. CASE ~LimitLeft
  <2>1. Goto(r, "refused")
    BY <1>4 DEF ReadCoupon
  <2>2. PastLimit' \subseteq PastLimit /\ \A u \in Users : PastRule(u)' \subseteq PastRule(u)
    BY <2>1, FlightsKept
  <2>3. Cardinality(PastLimit') \in Nat /\ Cardinality(PastLimit') <= crowd
    BY <2>2, FlightsFinite, FS_Subset, FS_CardinalityType DEF IInv, FlightInv
  <2>4. crowd' = crowd
    BY <1>1, <2>3, FlightsFinite DEF Larger
  <2> QED
    BY <1>1, <2>1, <2>4, Idling DEF overlaps
<1> QED
  BY <1>3, <1>4

\* One whose user has no redemption is counted among that user's rivals.
LEMMA ReadRedemptionStep == ASSUME IInv, NEW r \in Requests, ReadRedemption(r) PROVE IInv'
<1> USE DEF Check
<1>1. /\ req[r] = "redemption" /\ r \in CouponRequests /\ r \in PastLimit
      /\ UNCHANGED <<db, environment, given, crashes>>
      /\ crowd' = crowd
      /\ rivals' = [u \in Users |-> Larger(rivals[u], Cardinality(PastRule(u)'))]
  BY DEF ReadRedemption, IInv, RequestInv, PastLimit
<1>2. UNCHANGED <<redemptions, usedCount, discounted>> /\ rivals \in [Users -> Nat]
  BY <1>1 DEF db, IInv, TypeOK
<1>3. CASE NotRedeemedYet(r)
  <2> DEFINE s == IF FirstOrderOnly THEN "history" ELSE "create"
  <2>1. Goto(r, s) /\ s \in {"history", "create"}
    BY <1>3 DEF ReadRedemption
  <2> HIDE DEF s
  <2>2. req'[r] = s /\ \A q \in Requests : q # r => req'[q] = req[q]
    BY <2>1 DEF Goto, IInv, TypeOK
  <2>3. PastLimit' = PastLimit
    BY <1>1, <2>1, <2>2, PlacementAssumption DEF PastLimit
  <2>4. ASSUME NEW u \in Users
        PROVE  /\ rivals'[u] \in Nat
               /\ Cardinality(RedeemedBy(u)') + Cardinality(PastRule(u)') <= rivals'[u]
    <3>1. PastRule(u)' \subseteq PastLimit
      BY <2>3 DEF PastRule
    <3>2. IsFiniteSet(PastRule(u)') /\ Cardinality(PastRule(u)') \in Nat
      BY <3>1, FlightsFinite, FS_Subset, FS_CardinalityType
    <3>3. /\ rivals'[u] \in Nat /\ rivals[u] <= rivals'[u]
          /\ Cardinality(PastRule(u)') <= rivals'[u]
      BY <1>1, <1>2, <3>2, LargerBounds
    <3>4. RedeemedBy(u)' = RedeemedBy(u)
      BY <1>2 DEF RedeemedBy
    <3>5. CASE u = Sender[r]
      <4>1. RedeemedBy(u) = {}
        BY <1>3, <3>5 DEF NotRedeemedYet, RedeemedBy
      <4>2. Cardinality(RedeemedBy(u)') = 0
        BY <3>4, <4>1, FS_EmptySet
      <4> QED
        BY <3>2, <3>3, <4>2
    <3>6. CASE u # Sender[r]
      <4>1. PastRule(u)' = PastRule(u)
        BY <2>2, <2>3, <3>6, PlacementAssumption DEF PastRule, PastLimit
      <4> QED
        BY <3>3, <3>4, <4>1, FlightsFinite DEF IInv, FlightInv
    <3> QED
      BY <3>5, <3>6
  <2>5. FlightInv'
    BY <1>1, <1>2, <2>3, <2>4 DEF FlightInv, IInv
  <2>6. rivals' \in [Users -> Nat] /\ crowd' \in Nat
    BY <1>1, <2>4, FlightsFinite
  <2> QED
    BY <1>1, <2>1, <2>5, <2>6, Move
<1>4. CASE ~NotRedeemedYet(r)
  <2>1. Goto(r, "refused")
    BY <1>4 DEF ReadRedemption
  <2>2. PastLimit' \subseteq PastLimit /\ \A u \in Users : PastRule(u)' \subseteq PastRule(u)
    BY <2>1, FlightsKept
  <2>3. ASSUME NEW u \in Users PROVE Larger(rivals[u], Cardinality(PastRule(u)')) = rivals[u]
    <3>1. /\ Cardinality(PastRule(u)') \in Nat
          /\ Cardinality(PastRule(u)') <= Cardinality(PastRule(u))
      BY <2>2, FlightsFinite, FS_Subset, FS_CardinalityType
    <3>2. Cardinality(PastRule(u)) <= rivals[u]
      BY FlightsFinite DEF IInv, FlightInv
    <3> QED
      BY <3>1, <3>2, FlightsFinite DEF Larger
  <2>4. rivals' = rivals
    BY <1>1, <1>2, <2>3
  <2> QED
    BY <1>1, <2>1, <2>4, Idling DEF overlaps
<1> QED
  BY <1>3, <1>4

LEMMA ReadHistoryStep == ASSUME IInv, NEW r \in Requests, ReadHistory(r) PROVE IInv'
<1> USE DEF ReadHistory, Check
<1>1. r \in CouponRequests /\ r \in PastLimit
  BY DEF IInv, RequestInv, PastLimit
<1>2. CASE NothingPaid(r)
  BY <1>1, <1>2, Idling
<1>3. CASE ~NothingPaid(r)
  BY <1>3, Idling
<1> QED
  BY <1>2, <1>3

-----------------------------------------------------------------------------
(* Steps that answer, create or redeem *)

LEMMA LookupStep == ASSUME IInv, NEW r \in Requests, Lookup(r) PROVE IInv'
<1> USE DEF Lookup, Goto, Answer, db, environment
<1> PICK s \in {"answered", "quote"} : req' = [req EXCEPT ![r] = s]
  OBVIOUS
<1>1. s \notin {"redemption", "history", "create", "redeem"} /\ s \in Steps /\ Goto(r, s)
  OBVIOUS
<1>2. given' \in [Requests -> Requests] /\ \A q \in Requests : q # r => given'[q] = given[q]
  BY DEF IInv, TypeOK, Recent
<1>3. TypeOK'
  <2>1. UNCHANGED <<orders, discounted, aged, buyers, redemptions, usedCount, overlaps, crashes>>
    OBVIOUS
  <2>2. req' \in [Requests -> Steps]
    BY <1>1 DEF IInv, TypeOK
  <2> QED
    BY <1>2, <2>1, <2>2 DEF IInv, TypeOK, overlaps
<1>4. req'[r] = s /\ r \notin orders
  BY DEF IInv, TypeOK, RequestInv
<1>5. \A q \in Requests : q # r => req'[q] = req[q]
  BY <1>1 DEF IInv, TypeOK
<1>6. \A q \in Requests : RequestInv(q)'
  BY <1>1, <1>4, <1>5 DEF IInv, TypeOK, RequestInv
<1>7. FlightInv'
  BY <1>1, FlightsKept, FlightsShrink
<1>8. AnsweredWithOwnOrder'
  <2>1. s = "answered" => given'[r] \in orders /\ SameAttempt(given'[r], r)
    BY DEF IInv, TypeOK, Recent
  <2> QED
    BY <1>2, <1>4, <1>5, <2>1 DEF IInv, AnsweredWithOwnOrder, SameAttempt
<1>9. OneOrderPerAttempt' /\ CountMatchesRows'
  BY DEF IInv, OneOrderPerAttempt, CountMatchesRows
<1>10. Unredeemed' \subseteq Unredeemed
  BY <1>4, <1>5 DEF IInv, TypeOK, Unredeemed
<1> QED
  BY <1>3, <1>6, <1>7, <1>8, <1>9, <1>10, UnredeemedShrinks DEF IInv

LEMMA CreateStep == ASSUME IInv, NEW r \in Requests, Create(r) PROVE IInv'
<1> USE DEF Goto, Answer, db, environment
<1>1. CASE ~Free(r)
  <2>1. Goto(r, "conflict") /\ UNCHANGED <<db, environment, given, overlaps, crashes>>
    BY <1>1 DEF Create
  <2> QED
    BY <2>1, Idling DEF Create
<1>2. CASE Free(r)
  <2>1. /\ orders' = orders \cup {r} /\ r \notin orders
        /\ UNCHANGED <<aged, buyers, redemptions, usedCount, overlaps, crashes>>
    BY <1>2 DEF Create, IInv, RequestInv
  <2>2. OneOrderPerAttempt'
    BY <1>2, <2>1 DEF Free, SameAttempt, IInv, OneOrderPerAttempt
  <2>3. CountMatchesRows'
    BY <2>1 DEF IInv, CountMatchesRows
  <2>4. CASE r \in CouponRequests
    <3>1. /\ discounted' = discounted \cup {r} /\ req' = [req EXCEPT ![r] = "redeem"]
          /\ given' = given
      BY <1>2, <2>4 DEF Create
    <3>2. TypeOK'
      BY <2>1, <3>1 DEF IInv, TypeOK, overlaps
    <3>3. req'[r] = "redeem" /\ \A q \in Requests : q # r => req'[q] = req[q]
      BY <3>1 DEF IInv, TypeOK
    <3>4. \A q \in Requests : RequestInv(q)'
      BY <2>1, <2>4, <3>1, <3>3 DEF IInv, TypeOK, RequestInv
    <3>5. FlightInv'
      <4>1. r \in PastLimit /\ req[r] = "create"
        BY <2>4 DEF Create, PastLimit
      <4>2. crowd > 0
        <5>1. Cardinality(PastLimit) # 0
          BY <4>1, FlightsFinite, FS_EmptySet
        <5> QED
          BY <5>1, FlightsFinite DEF IInv, FlightInv
      <4>3. PastLimit' \subseteq PastLimit /\ \A u \in Users : PastRule(u)' \subseteq PastRule(u)
        BY <3>1, <4>1, FlightsKept
      <4> QED
        BY <2>1, <4>2, <4>3, FlightsShrink
    <3>6. AnsweredWithOwnOrder'
      BY <2>1, <3>1, <3>3 DEF IInv, AnsweredWithOwnOrder
    <3>7. Unredeemed' \subseteq Unredeemed
      BY <2>1, <3>1, <3>3 DEF IInv, TypeOK, Unredeemed
    <3>8. IsFiniteSet(discounted') /\ discounted' \subseteq CouponRequests
      BY <2>4, <3>1, FS_AddElement DEF IInv
    <3> QED
      BY <2>1, <2>2, <2>3, <3>2, <3>4, <3>5, <3>6, <3>7, <3>8, UnredeemedShrinks DEF IInv
  <2>5. CASE r \notin CouponRequests
    <3>1. /\ discounted' = discounted /\ req' = [req EXCEPT ![r] = "answered"]
          /\ given' = [given EXCEPT ![r] = r]
      BY <1>2, <2>5 DEF Create
    <3>2. TypeOK'
      BY <2>1, <3>1 DEF IInv, TypeOK, overlaps
    <3>3. req'[r] = "answered" /\ \A q \in Requests : q # r => req'[q] = req[q]
      BY <3>1 DEF IInv, TypeOK
    <3>4. \A q \in Requests : RequestInv(q)'
      BY <2>1, <2>5, <3>1, <3>3 DEF IInv, TypeOK, RequestInv
    <3>5. FlightInv'
      BY <2>1, <2>5, <3>1, FlightsKept, FlightsShrink
    <3>6. AnsweredWithOwnOrder'
      BY <2>1, <3>1, <3>3 DEF IInv, TypeOK, AnsweredWithOwnOrder
    <3>7. Unredeemed' \subseteq Unredeemed
      BY <2>1, <2>5, <3>1, <3>3 DEF IInv, TypeOK, Unredeemed
    <3> QED
      BY <2>1, <2>2, <2>3, <3>1, <3>2, <3>4, <3>5, <3>6, <3>7, UnredeemedShrinks DEF IInv
  <2> QED
    BY <2>4, <2>5
<1> QED
  BY <1>1, <1>2

LEMMA ConflictStep == ASSUME IInv, NEW r \in Requests, Conflict(r) PROVE IInv'
<1>1. CASE Free(r) /\ Goto(r, "refused") /\ UNCHANGED given
  BY <1>1, Idling DEF Conflict
<1>2. ASSUME NEW o \in orders, SameAttempt(o, r), Answer(r, o) PROVE IInv'
  <2> USE DEF Goto, Answer, db, environment
  <2>1. /\ req' = [req EXCEPT ![r] = "answered"] /\ given' = [given EXCEPT ![r] = o]
        /\ UNCHANGED <<db, environment, overlaps, crashes>>
    BY <1>2 DEF Conflict
  <2>2. TypeOK'
    BY <2>1 DEF IInv, TypeOK, overlaps
  <2>3. req'[r] = "answered" /\ \A q \in Requests : q # r => req'[q] = req[q]
    BY <2>1 DEF IInv, TypeOK
  <2>4. \A q \in Requests : RequestInv(q)'
    BY <2>1, <2>3 DEF IInv, RequestInv
  <2>5. FlightInv'
    BY <2>1, FlightsKept, FlightsShrink
  <2>6. AnsweredWithOwnOrder'
    BY <1>2, <2>1, <2>3 DEF IInv, TypeOK, AnsweredWithOwnOrder, SameAttempt
  <2>7. Unredeemed' \subseteq Unredeemed
    BY <2>1, <2>3 DEF IInv, TypeOK, Unredeemed, Conflict
  <2>8. OneOrderPerAttempt' /\ CountMatchesRows'
    BY <2>1 DEF IInv, OneOrderPerAttempt, CountMatchesRows
  <2> QED
    BY <2>1, <2>2, <2>4, <2>5, <2>6, <2>7, <2>8, UnredeemedShrinks DEF IInv
<1> QED
  BY <1>1, <1>2 DEF Conflict

LEMMA RedeemStep == ASSUME IInv, NEW r \in Requests, Redeem(r) PROVE IInv'
<1> USE DEF Goto, Answer, db, environment
<1>1. /\ redemptions' = redemptions \cup {r} /\ usedCount' = usedCount + 1
      /\ req' = [req EXCEPT ![r] = "answered"] /\ given' = [given EXCEPT ![r] = r]
      /\ UNCHANGED <<orders, discounted, aged, buyers, overlaps, crashes>>
  BY DEF Redeem
<1>2. r \in discounted \ redemptions /\ r \in CouponRequests
  BY DEF Redeem, IInv, RequestInv
<1>3. TypeOK'
  BY <1>1, <1>2 DEF IInv, TypeOK, overlaps
<1>4. req'[r] = "answered" /\ \A q \in Requests : q # r => req'[q] = req[q]
  BY <1>1 DEF IInv, TypeOK
<1>5. \A q \in Requests : RequestInv(q)'
  BY <1>1, <1>4 DEF IInv, RequestInv
<1>6. FlightInv'
  <2>1. r \in PastLimit /\ req[r] = "redeem"
    BY <1>2 DEF Redeem, PastLimit
  <2>2. PastLimit' = PastLimit \ {r}
    BY <1>4, PlacementAssumption DEF PastLimit
  <2>3. /\ IsFiniteSet(PastLimit') /\ Cardinality(PastLimit') \in Nat
        /\ Cardinality(PastLimit') = Cardinality(PastLimit) - 1
    BY <2>1, <2>2, FlightsFinite, FS_RemoveElement, FS_CardinalityType
  <2>4. crowd' = crowd /\ rivals' = rivals
    BY <1>1 DEF overlaps
  <2>5. crowd > 0
    BY <2>3, FlightsFinite DEF IInv, FlightInv
  <2>6. /\ Cardinality(PastLimit') <= crowd' /\ crowd' # 0
        /\ usedCount' + Cardinality(PastLimit') < UsageLimit + crowd'
    BY <1>1, <2>3, <2>4, <2>5, FlightsFinite DEF IInv, FlightInv
  <2>7. ASSUME NEW u \in Users
        PROVE  Cardinality(RedeemedBy(u)') + Cardinality(PastRule(u)') <= rivals'[u]
    <3>1. CASE u = Sender[r]
      <4>1. /\ RedeemedBy(u)' = RedeemedBy(u) \cup {r} /\ r \notin RedeemedBy(u)
            /\ PastRule(u)' = PastRule(u) \ {r} /\ r \in PastRule(u)
        BY <1>1, <1>2, <1>4, <2>1, <2>2, <3>1, PlacementAssumption
           DEF RedeemedBy, PastRule, PastLimit
      <4>2. Cardinality(RedeemedBy(u)') = Cardinality(RedeemedBy(u)) + 1
        BY <4>1, FlightsFinite, FS_AddElement
      <4>3. Cardinality(PastRule(u)') = Cardinality(PastRule(u)) - 1
        BY <4>1, FlightsFinite, FS_RemoveElement
      <4> QED
        BY <2>4, <4>2, <4>3, FlightsFinite DEF IInv, FlightInv
    <3>2. CASE u # Sender[r]
      <4>1. RedeemedBy(u)' = RedeemedBy(u) /\ PastRule(u)' = PastRule(u)
        BY <1>1, <1>4, <2>2, <3>2, PlacementAssumption DEF RedeemedBy, PastRule, PastLimit
      <4> QED
        BY <2>4, <4>1 DEF IInv, FlightInv
    <3> QED
      BY <3>1, <3>2
  <2> QED
    BY <2>3, <2>6, <2>7 DEF FlightInv
<1>7. AnsweredWithOwnOrder'
  BY <1>1, <1>2, <1>4 DEF IInv, TypeOK, AnsweredWithOwnOrder
<1>8. CountMatchesRows'
  BY <1>1, <1>2, UnredeemedFinite, FS_AddElement DEF IInv, TypeOK, CountMatchesRows
<1>9. Unredeemed' \subseteq Unredeemed
  BY <1>1, <1>4 DEF IInv, TypeOK, Unredeemed
<1>10. OneOrderPerAttempt'
  BY <1>1 DEF IInv, OneOrderPerAttempt
<1> QED
  BY <1>1, <1>3, <1>5, <1>6, <1>7, <1>8, <1>9, <1>10, UnredeemedShrinks DEF IInv

-----------------------------------------------------------------------------
(* Faults and the environment *)

LEMMA CrashStep == ASSUME IInv, NEW r \in Requests, Crash(r) PROVE IInv'
<1> USE DEF Crash, Goto, db, environment
<1>1. crashes' = crashes + 1 /\ crashes' \in 0..MaxCrashes
  BY PlacementAssumption DEF IInv, TypeOK
<1>2. TypeOK'
  BY <1>1 DEF IInv, TypeOK, overlaps
<1>3. req'[r] = "lost" /\ \A q \in Requests : q # r => req'[q] = req[q]
  BY DEF IInv, TypeOK
<1>4. \A q \in Requests : RequestInv(q)'
  BY <1>3 DEF IInv, RequestInv
<1>5. FlightInv'
  BY FlightsKept, FlightsShrink DEF overlaps
<1>6. OneOrderPerAttempt' /\ AnsweredWithOwnOrder' /\ CountMatchesRows'
  BY <1>3 DEF IInv, OneOrderPerAttempt, AnsweredWithOwnOrder, CountMatchesRows
<1>7. UnredeemedNeedsCrash'
  <2>1. Unredeemed' \subseteq Unredeemed \cup {r}
    BY <1>3 DEF IInv, TypeOK, Unredeemed
  <2>2. /\ IsFiniteSet(Unredeemed \cup {r})
        /\ Cardinality(Unredeemed \cup {r}) <= Cardinality(Unredeemed) + 1
        /\ Cardinality(Unredeemed \cup {r}) \in Nat
    <3>1. CASE r \in Unredeemed
      <4>1. Unredeemed \cup {r} = Unredeemed
        BY <3>1
      <4>2. IsFiniteSet(Unredeemed) /\ Cardinality(Unredeemed) \in Nat
        BY UnredeemedFinite
      <4>3. Cardinality(Unredeemed) <= Cardinality(Unredeemed) + 1
        BY <4>2
      <4> QED
        BY <4>1, <4>2, <4>3
    <3>2. CASE r \notin Unredeemed
      <4>1. /\ IsFiniteSet(Unredeemed \cup {r})
            /\ Cardinality(Unredeemed \cup {r}) = Cardinality(Unredeemed) + 1
        BY <3>2, UnredeemedFinite, FS_AddElement
      <4>2. Cardinality(Unredeemed) \in Nat
        BY UnredeemedFinite
      <4> QED
        BY <4>1, <4>2
    <3> QED
      BY <3>1, <3>2
  <2>3. /\ Cardinality(Unredeemed') <= Cardinality(Unredeemed \cup {r})
        /\ Cardinality(Unredeemed') \in Nat
    BY <2>1, <2>2, FS_Subset, FS_CardinalityType
  <2> QED
    BY <1>1, <2>2, <2>3, UnredeemedFinite
       DEF UnredeemedNeedsCrash, Unredeemed, IInv, TypeOK
<1> QED
  BY <1>2, <1>4, <1>5, <1>6, <1>7 DEF IInv

LEMMA EnvironmentStep ==
    ASSUME IInv, NEW o \in Requests, Age(o) \/ Pay(o)
    PROVE  IInv'
<1> USE DEF db
<1>1. UNCHANGED <<orders, discounted, redemptions, usedCount, req, given, overlaps, crashes>>
  BY DEF Age, Pay
<1>2. TypeOK'
  BY <1>1, PlacementAssumption DEF IInv, TypeOK, Age, Pay, overlaps
<1>3. \A q \in Requests : RequestInv(q)'
  BY <1>1 DEF IInv, RequestInv
<1>4. FlightInv'
  <2>1. PastLimit' = PastLimit /\ \A u \in Users : PastRule(u)' = PastRule(u)
    BY <1>1 DEF PastLimit, PastRule
  <2> QED
    BY <1>1, <2>1, FlightsShrink
<1>5. OneOrderPerAttempt' /\ AnsweredWithOwnOrder' /\ CountMatchesRows' /\ UnredeemedNeedsCrash'
  BY <1>1 DEF IInv, OneOrderPerAttempt, AnsweredWithOwnOrder, CountMatchesRows,
              UnredeemedNeedsCrash
<1> QED
  BY <1>1, <1>2, <1>3, <1>4, <1>5 DEF IInv

-----------------------------------------------------------------------------

LEMMA NextIInv == IInv /\ [Next]_vars => IInv'
<1> SUFFICES ASSUME IInv, [Next]_vars PROVE IInv'
  OBVIOUS
<1>1. ASSUME NEW r \in Requests, Serve(r) PROVE IInv'
  BY <1>1, LookupStep, QuoteStep, ReadCouponStep, ReadRedemptionStep, ReadHistoryStep,
     CreateStep, ConflictStep, RedeemStep DEF Serve
<1>2. ASSUME NEW r \in Requests, Crash(r) PROVE IInv'
  BY <1>2, CrashStep
<1>3. ASSUME NEW o \in Requests, Age(o) \/ Pay(o) PROVE IInv'
  BY <1>3, EnvironmentStep
<1>4. CASE UNCHANGED vars
  <2>1. PastLimit' = PastLimit /\ \A u \in Users : PastRule(u)' = PastRule(u)
    BY <1>4 DEF vars, PastLimit, PastRule
  <2>2. FlightInv'
    BY <1>4, <2>1, FlightsShrink DEF vars, overlaps
  <2> QED
    BY <1>4, <2>2 DEF vars, IInv, TypeOK, RequestInv, OneOrderPerAttempt,
                      AnsweredWithOwnOrder, CountMatchesRows, UnredeemedNeedsCrash
<1> QED
  BY <1>1, <1>2, <1>3, <1>4 DEF Next

\* The inductive invariant of order placement: what evaluateCoupon established,
\* and what the request's step says of its rows, holds until they are used.
THEOREM PlacementInvariant == Spec => []IInv
<1> QED
  BY InitIInv, NextIInv, PTL DEF Spec

\* However many requests one attempt is sent in, it makes one order, and every
\* request is answered with an order of its own sender and attempt.
THEOREM OneOrder == Spec => [](OneOrderPerAttempt /\ AnsweredWithOwnOrder)
<1>1. IInv => OneOrderPerAttempt /\ AnsweredWithOwnOrder
  BY DEF IInv
<1> QED
  BY <1>1, PlacementInvariant, PTL

\* An order keeps an unredeemed discount only where a request died for it, and
\* the coupon's count is the number of its rows.
THEOREM RedemptionAccounted == Spec => [](CountMatchesRows /\ UnredeemedNeedsCrash)
<1>1. IInv => CountMatchesRows /\ UnredeemedNeedsCrash
  BY DEF IInv
<1> QED
  BY <1>1, PlacementInvariant, PTL

\* A discount is redeemed, or on its way to be, or cost a request its life.
LEMMA DiscountsCounted ==
    ASSUME IInv
    PROVE  DiscountsWithinLimits
<1>1. ASSUME discounted # {}
      PROVE  Cardinality(discounted) < UsageLimit + crowd + crashes
  <2>1. discounted \subseteq (redemptions \cup PastLimit) \cup Unredeemed
    BY DEF IInv, TypeOK, Unredeemed, PastLimit
  <2>2. /\ IsFiniteSet(redemptions \cup PastLimit)
        /\ Cardinality(redemptions \cup PastLimit) <= usedCount + Cardinality(PastLimit)
    BY UnredeemedFinite, FlightsFinite, UnionBound DEF IInv, CountMatchesRows
  <2>3. Cardinality(discounted)
            <= Cardinality(redemptions \cup PastLimit) + Cardinality(Unredeemed)
    BY <2>1, <2>2, UnredeemedFinite, UnionBound
  <2>4. usedCount + Cardinality(PastLimit) < UsageLimit + crowd
    BY <1>1, FlightsFinite DEF IInv, FlightInv
  <2>5. Cardinality(redemptions \cup PastLimit) \in Nat /\ Cardinality(discounted) \in Nat
    BY <2>2, FS_CardinalityType DEF IInv
  <2> QED
    BY <2>2, <2>3, <2>4, <2>5, UnredeemedFinite, FlightsFinite DEF IInv, TypeOK
<1>2. ASSUME NEW u \in Users
      PROVE  Cardinality({o \in discounted : Sender[o] = u}) <= rivals[u] + crashes
  <2> DEFINE D == {o \in discounted : Sender[o] = u}
  <2>1. D \subseteq (RedeemedBy(u) \cup PastRule(u)) \cup Unredeemed
    BY DEF IInv, TypeOK, Unredeemed, RedeemedBy, PastRule, PastLimit
  <2>2. D \subseteq discounted /\ IsFiniteSet(D) /\ Cardinality(D) \in Nat
    BY FS_Subset, FS_CardinalityType DEF IInv
  <2> HIDE DEF D
  <2>3. /\ IsFiniteSet(RedeemedBy(u) \cup PastRule(u))
        /\ Cardinality(RedeemedBy(u) \cup PastRule(u))
               <= Cardinality(RedeemedBy(u)) + Cardinality(PastRule(u))
    BY FlightsFinite, UnionBound
  <2>4. Cardinality(D)
            <= Cardinality(RedeemedBy(u) \cup PastRule(u)) + Cardinality(Unredeemed)
    BY <2>1, <2>3, UnredeemedFinite, UnionBound
  <2>5. Cardinality(RedeemedBy(u)) + Cardinality(PastRule(u)) <= rivals[u]
    BY DEF IInv, FlightInv
  <2>6. Cardinality(RedeemedBy(u) \cup PastRule(u)) \in Nat
    BY <2>3, FS_CardinalityType
  <2>7. Cardinality(D) <= rivals[u] + crashes
    BY <2>2, <2>3, <2>4, <2>5, <2>6, UnredeemedFinite, FlightsFinite DEF IInv, TypeOK
  <2> QED
    BY <2>7 DEF D
<1> QED
  BY <1>1, <1>2 DEF DiscountsWithinLimits

\* For any limit, users and requests: the discounts granted exceed the code's
\* limit and its once-per-user rule by no more than the requests that were past
\* their checks at once and the requests that died.
THEOREM DiscountsAreLimited == Spec => []DiscountsWithinLimits
BY DiscountsCounted, PlacementInvariant, PTL

-----------------------------------------------------------------------------
(* Placement implements Attempts: an insert places, a transaction of        *)
(* redeemCoupon redeems, and every way out of the handler ends the request. *)

PromiseStep == [Promise!Next]_<<orders, redemptions, Outcomes, given>>

\* A request that goes on inside the handler shows nothing.
LEMMA GoingOn ==
    ASSUME IInv, NEW r \in Requests, NEW s \in Steps \ Ended, Goto(r, s),
           req[r] \notin Ended
    PROVE  Outcomes' = Outcomes
BY DEF IInv, TypeOK, Goto, Outcomes

\* A request that leaves the handler ends in the abstract specification.
LEMMA Leaving ==
    ASSUME IInv, NEW r \in Requests, NEW s \in Ended, Goto(r, s), req[r] \notin Ended
    PROVE  Promise!Ends(r, s)
BY DEF IInv, TypeOK, Goto, Outcomes, Promise!Ends

LEMMA Answering ==
    ASSUME IInv, NEW r \in Requests, NEW o, Answer(r, o), req[r] \notin Ended
    PROVE  Promise!EndsWith(r, o)
<1>1. Promise!Ends(r, "answered")
  BY Leaving DEF Answer
<1> QED
  BY <1>1 DEF Answer, Promise!EndsWith

LEMMA Serving ==
    ASSUME NEW r \in Requests, Promise!Serve(r)
    PROVE  PromiseStep
BY DEF Promise!Next, PromiseStep

LEMMA Refusing ==
    ASSUME IInv, NEW r \in Requests, Goto(r, "refused"),
           req[r] \notin Ended \cup {"redeem"},
           UNCHANGED <<db, given>>
    PROVE  PromiseStep
<1>1. r \notin orders
  BY DEF IInv, TypeOK, RequestInv
<1>2. Promise!Ends(r, "refused")
  BY Leaving
<1> QED
  BY <1>1, <1>2, Serving DEF db, Promise!Refuse, Promise!Serve

LEMMA Continuing ==
    ASSUME IInv, NEW r \in Requests, NEW s \in Steps \ Ended, Goto(r, s),
           req[r] \notin Ended,
           UNCHANGED <<db, given>>
    PROVE  PromiseStep
<1>1. Outcomes' = Outcomes
  BY GoingOn
<1> QED
  BY <1>1 DEF PromiseStep, db

\* An order of the same attempt answers a request that has none.
LEMMA AnsweringAgain ==
    ASSUME IInv, NEW r \in Requests, NEW o \in orders, SameAttempt(o, r), Answer(r, o),
           req[r] \notin Ended \cup {"redeem"},
           UNCHANGED db
    PROVE  PromiseStep
<1>1. r \notin orders
  BY DEF IInv, TypeOK, RequestInv
<1>2. Promise!EndsWith(r, o)
  BY Answering
<1> QED
  BY <1>1, <1>2, Serving DEF db, Promise!AnswerAgain, Promise!Serve

LEMMA CheckAsPromised ==
    ASSUME IInv, NEW r \in Requests, NEW from \in {"coupon", "redemption", "history"},
           NEW holds, NEW next \in {"redemption", "history", "create"},
           Check(r, from, holds, next)
    PROVE  PromiseStep
<1>1. req[r] = from /\ UNCHANGED <<db, given>>
  BY DEF Check
<1>2. CASE Goto(r, "refused")
  BY <1>1, <1>2, Refusing
<1>3. CASE Goto(r, next)
  BY <1>1, <1>3, Continuing
<1> QED
  BY <1>2, <1>3 DEF Check

LEMMA CreateAsPromised == ASSUME IInv, NEW r \in Requests, Create(r) PROVE PromiseStep
<1>1. req[r] = "create" /\ r \notin orders
  BY DEF Create, IInv, RequestInv
<1>2. CASE ~Free(r)
  <2>1. Goto(r, "conflict") /\ UNCHANGED <<db, given>>
    BY <1>2 DEF Create, db
  <2> QED
    BY <1>1, <2>1, Continuing
<1>3. CASE Free(r)
  <2>1. Promise!Places(r) /\ UNCHANGED redemptions
    BY <1>1, <1>3 DEF Create, Free, Promise!Places
  <2>2. CASE r \in CouponRequests
    <3>1. Goto(r, "redeem") /\ UNCHANGED given
      BY <1>3, <2>2 DEF Create
    <3>2. Outcomes' = Outcomes /\ Outcomes[r] = "open"
      BY <1>1, <3>1, GoingOn DEF Outcomes
    <3> QED
      BY <2>1, <2>2, <3>1, <3>2, Serving DEF Promise!PlaceDiscounted, Promise!Serve
  <2>3. CASE r \notin CouponRequests
    <3>1. Answer(r, r)
      BY <1>3, <2>3 DEF Create
    <3>2. Promise!EndsWith(r, r)
      BY <1>1, <3>1, Answering
    <3> QED
      BY <2>1, <2>3, <3>2, Serving DEF Promise!Place, Promise!Serve
  <2> QED
    BY <2>2, <2>3
<1> QED
  BY <1>2, <1>3

LEMMA ServeAsPromised == ASSUME IInv, NEW r \in Requests, Serve(r) PROVE PromiseStep
<1>1. CASE Lookup(r)
  <2>1. req[r] = "idle" /\ UNCHANGED db
    BY <1>1 DEF Lookup
  <2>2. CASE \E o \in Recent(r) : Answer(r, o)
    BY <2>1, <2>2, AnsweringAgain DEF Recent
  <2>3. CASE Goto(r, "quote") /\ UNCHANGED given
    BY <2>1, <2>3, Continuing
  <2> QED
    BY <1>1, <2>2, <2>3 DEF Lookup
<1>2. CASE Quote(r)
  <2>1. req[r] = "quote" /\ UNCHANGED <<db, given>>
    BY <1>2 DEF Quote
  <2>2. CASE Goto(r, "refused")
    BY <2>1, <2>2, Refusing
  <2>3. CASE Goto(r, IF r \in CouponRequests THEN "coupon" ELSE "create")
    BY <2>1, <2>3, Continuing
  <2> QED
    BY <1>2, <2>2, <2>3 DEF Quote
<1>3. CASE ReadCoupon(r)
  BY <1>3, CheckAsPromised DEF ReadCoupon
<1>4. CASE ReadRedemption(r)
  <2> DEFINE s == IF FirstOrderOnly THEN "history" ELSE "create"
  <2>1. Check(r, "redemption", NotRedeemedYet(r), s) /\ s \in {"history", "create"}
    BY <1>4 DEF ReadRedemption
  <2> HIDE DEF s
  <2> QED
    BY <2>1, CheckAsPromised
<1>5. CASE ReadHistory(r)
  BY <1>5, CheckAsPromised DEF ReadHistory
<1>6. CASE Create(r)
  BY <1>6, CreateAsPromised
<1>7. CASE Conflict(r)
  <2>1. req[r] = "conflict" /\ UNCHANGED db
    BY <1>7 DEF Conflict
  <2>2. CASE \E o \in orders : SameAttempt(o, r) /\ Answer(r, o)
    BY <2>1, <2>2, AnsweringAgain
  <2>3. CASE Goto(r, "refused") /\ UNCHANGED given
    BY <2>1, <2>3, Refusing
  <2> QED
    BY <1>7, <2>2, <2>3 DEF Conflict
<1>8. CASE Redeem(r)
  <2>1. /\ req[r] = "redeem" /\ Answer(r, r) /\ redemptions' = redemptions \cup {r}
        /\ UNCHANGED orders
    BY <1>8 DEF Redeem
  <2>2. r \in orders \ redemptions
    BY <2>1 DEF IInv, TypeOK, RequestInv
  <2>3. Promise!EndsWith(r, r)
    BY <2>1, Answering
  <2> QED
    BY <2>1, <2>2, <2>3, Serving DEF Promise!Redeem, Promise!Serve
<1> QED
  BY <1>1, <1>2, <1>3, <1>4, <1>5, <1>6, <1>7, <1>8 DEF Serve

LEMMA NextAsPromised == ASSUME IInv, [Next]_vars PROVE PromiseStep
<1>1. ASSUME NEW r \in Requests, Crash(r) PROVE PromiseStep
  <2>1. Promise!Ends(r, "lost") /\ UNCHANGED <<orders, redemptions, given>>
    BY <1>1, Leaving DEF Crash, db
  <2> QED
    BY <2>1, Serving DEF Promise!Lose, Promise!Serve
<1>2. CASE (\E o \in Requests : Age(o) \/ Pay(o)) \/ UNCHANGED vars
  <2>1. UNCHANGED <<orders, redemptions, req, given>>
    BY <1>2 DEF Age, Pay, vars, db
  <2> QED
    BY <2>1 DEF PromiseStep, Outcomes
<1> QED
  BY <1>1, <1>2, ServeAsPromised DEF Next

\* Placement implements Attempts, for any requests, users and keys and whatever
\* overlaps or dies: an attempt makes one order, an outcome is final, a refused
\* request leaves no order, and nobody is answered with another's.
THEOREM AttemptsImplemented == Spec => AttemptsHold
<1>1. Init => Promise!Init
  BY DEF Init, Promise!Init, Outcomes
<1>2. IInv /\ [Next]_vars => [Promise!Next]_<<orders, redemptions, Outcomes, given>>
  BY NextAsPromised DEF PromiseStep
<1> QED
  BY InitIInv, NextIInv, <1>1, <1>2, PTL DEF Spec, AttemptsHold, Promise!Spec
===============================================================================

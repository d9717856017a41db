------------------------------ MODULE GroupProofs ------------------------------
(***************************************************************************)
(* Proofs about the two group components.  GroupCart, for any number of    *)
(* people, items, seats and requests in flight: who is billed, what an     *)
(* order contains, and how far overlapping requests can exceed the seats   *)
(* and the one order of a cart.  GroupChat, for any devices, messages and  *)
(* mishaps: who can read what, which position of a chain may be used, and  *)
(* what the cursor of a screen passes.                                     *)
(***************************************************************************)
EXTENDS GroupCart, GroupChat, SequenceTheorems, FiniteSetTheorems, WellFoundedInduction, TLAPS

(***************************************************************************)
(* GroupCart.                                                              *)
(***************************************************************************)

RequestSteps == {"idle", "join", "add", "suggest", "apply", "order", "close"}
RequestRecord == [step : RequestSteps, who : People, lines : SUBSET Items,
                  riders : SUBSET People, placed : 0 .. Len(orders)]

LEMMA CartFacts ==
    ASSUME CartTypeOK
    PROVE  /\ Len(orders) \in Nat /\ DOMAIN orders = 1 .. Len(orders)
           /\ req \in [Requests -> RequestRecord]
           /\ \A r \in Requests : req[r] \in RequestRecord
           /\ IsFiniteSet(members) /\ Cardinality(members) \in Nat
           /\ Cardinality(Requests) \in Nat \ {0} /\ aborts \in Nat
<1>1. Len(orders) \in Nat /\ DOMAIN orders = 1 .. Len(orders)
  BY LenProperties DEF CartTypeOK
<1>2. req \in [Requests -> RequestRecord]
  BY DEF CartTypeOK, RequestRecord, RequestSteps
<1>3. IsFiniteSet(members) /\ Cardinality(members) \in Nat
  BY GroupAssumption, FS_Subset, FS_CardinalityType DEF CartTypeOK
<1>4. Cardinality(Requests) \in Nat \ {0}
  BY GroupAssumption, FS_CardinalityType, FS_EmptySet
<1>5. aborts \in Nat
  BY GroupAssumption DEF CartTypeOK
<1> QED
  BY <1>1, <1>2, <1>3, <1>4, <1>5

\* Any set of requests is finite and no larger than all of them.
LEMMA FewRequests ==
    ASSUME NEW S \in SUBSET Requests
    PROVE  IsFiniteSet(S) /\ Cardinality(S) \in Nat /\ Cardinality(S) <= Cardinality(Requests)
  BY GroupAssumption, FS_Subset, FS_CardinalityType

\* Fewer requests than all of them, when one of them is elsewhere.
LEMMA OneLess ==
    ASSUME NEW S \in SUBSET Requests, NEW r \in Requests
    PROVE  /\ r \in S => Cardinality(S \ {r}) = Cardinality(S) - 1
           /\ r \notin S => Cardinality(S \cup {r}) = Cardinality(S) + 1
<1>1. IsFiniteSet(S)
  BY FewRequests
<1> QED
  BY <1>1, FS_RemoveElement, FS_AddElement

LEMMA Larger ==
    ASSUME NEW S \in SUBSET Requests, NEW T \in SUBSET S
    PROVE  Cardinality(T) <= Cardinality(S)
  BY FewRequests, FS_Subset

LEMMA NoRequestIs ==
    ASSUME CartTypeOK
    PROVE  NoRequest \in RequestRecord /\ NoRequest.step = "idle" /\ NoRequest.lines = {} /\ NoRequest.who = Host
           /\ NoRequest.riders = {} /\ NoRequest.placed = 0 /\ RequestInv(NoRequest)
<1>1. 0 \in 0 .. Len(orders)
  BY CartFacts
<1> QED
  BY <1>1, GroupAssumption DEF NoRequest, RequestRecord, RequestSteps, RequestInv

LEMMA CartStarts == CartInit => CartInv
<1> SUFFICES ASSUME CartInit PROVE CartInv
  OBVIOUS
<1>1. orders = <<>> /\ orders \in Seq([lines : SUBSET Items, billed : SUBSET People]) /\ Len(orders) = 0
  BY EmptySeq DEF CartInit
<1>2. \A r \in Requests : /\ req[r] = NoRequest /\ NoRequest.step = "idle"
                          /\ NoRequest \in [step : {"idle", "join", "add", "suggest", "apply", "order", "close"},
                                       who : People, lines : SUBSET Items,
                                       riders : SUBSET People, placed : 0 .. Len(orders)]
  BY <1>1, GroupAssumption DEF CartInit, NoRequest
<1>3. CartTypeOK
  BY <1>1, <1>2, GroupAssumption DEF CartInit, CartTypeOK
<1>4. \A r \in Requests : RequestInv(req[r])
  BY <1>2 DEF RequestInv
<1>5. OnlyMembersAreBilled /\ EarlyContentIsOrdered
  BY <1>1 DEF CartInit, OnlyMembersAreBilled, EarlyContentIsOrdered, EarlyItemsAreOrdered, EarlyRidersShare
<1>6. During("join") = {} /\ During("order") = {} /\ Joining = {} /\ Cardinality({}) = 0
  BY <1>2, FS_EmptySet DEF During, Doing, Joining
<1>7. SeatsInv
  <2>1. domain = "ride" => members = {Host}
    BY DEF CartInit
  <2>2. Cardinality({Host}) = 1 /\ Cardinality(Joining) = 0
    BY <1>6, FS_Singleton
  <2>3. Cardinality(Requests) \in Nat \ {0} /\ Seats \in Nat \ {0}
    BY <1>3, CartFacts, GroupAssumption
  <2>4. domain = "ride" => Cardinality(members) = 1
    BY <2>1, <2>2
  <2> QED
    BY <2>2, <2>3, <2>4 DEF SeatsInv
<1>8. OrdersInv
  <2>1. Cardinality(During("close")) \in Nat /\ Cardinality(Requests) \in Nat
    BY <1>3, CartFacts, FewRequests DEF During
  <2>2. Cardinality(During("order")) = 0 /\ aborts = 0
    BY <1>6 DEF CartInit
  <2> QED
    BY <1>1, <2>1, <2>2 DEF OrdersInv
<1> QED
  BY <1>3, <1>4, <1>5, <1>7, <1>8 DEF CartInv

-------------------------------------------------------------------------------
(* RequestSteps of one request that leave the orders alone.                       *)

\* The cart may grow, and what is added while a checkout is under way is late;
\* or shrink.
LEMMA RequestMoves ==
    ASSUME CartInv, NEW r \in Requests, NEW q,
           req' = [req EXCEPT ![r] = q], q \in RequestRecord,
           UNCHANGED <<domain, status, orderId, orders>>,
           members \subseteq members', members' \subseteq People,
           made \subseteq made', made' \subseteq Items, items' \subseteq made',
           late \subseteq late', late' \subseteq members' \cup made',
           Ordering => members' \ late' \subseteq members \ late /\ items' \ late' \subseteq items \ late,
           \A i \in made' : Owner[i] = Host \/ Owner[i] \in members',
           aborts' \in {aborts, aborts + 1}, aborts' <= MaxAborts,
           RequestInv(q)',
           q.step \in {"order", "close"} => q.step = req[r].step \/ (q.step = "order" /\ IsOpen),
           req[r].step = "close" => q.step = "close" \/ aborts' = aborts + 1,
           SeatsInv'
    PROVE  CartInv'
<1>0. /\ \A d \in Requests : req'[d] = IF d = r THEN q ELSE req[d]
      /\ req' \in [Requests -> RequestRecord] /\ CartTypeOK
      /\ Len(orders) \in Nat /\ aborts \in Nat /\ Cardinality(Requests) \in Nat
  BY CartFacts DEF CartInv
<1>1. CartTypeOK'
  <2>1. aborts' \in 0 .. MaxAborts
    BY <1>0, GroupAssumption DEF CartTypeOK
  <2> QED
    BY <1>0, <2>1 DEF CartTypeOK, RequestRecord, RequestSteps
<1>2. \A d \in Requests : RequestInv(req[d])'
  <2> SUFFICES ASSUME NEW d \in Requests \ {r} PROVE RequestInv(req[d])'
    BY <1>0 DEF RequestInv
  <2>1. req'[d] = req[d] /\ RequestInv(req[d])
    BY <1>0 DEF CartInv
  <2>2. req[d].step = "order" => Ordering
    BY DEF Ordering, Doing
  <2> QED
    BY <2>1, <2>2 DEF RequestInv, MayEnter
<1>3. OnlyMembersAreBilled'
  BY DEF CartInv, OnlyMembersAreBilled, MayEnter
<1>4. EarlyContentIsOrdered'
  <2>1. \A n \in 1 .. Len(orders) : Ordering
    BY <1>0 DEF Ordering
  <2> QED
    BY <2>1 DEF CartInv, EarlyContentIsOrdered, EarlyItemsAreOrdered, EarlyRidersShare
<1>5. OrdersInv'
  <2>1. /\ \A S \in SUBSET Requests : Cardinality(S) \in Nat /\ Cardinality(S) <= Cardinality(Requests)
        /\ During("order") \in SUBSET Requests /\ During("order")' \in SUBSET Requests
        /\ During("close") \in SUBSET Requests /\ During("close")' \in SUBSET Requests
    BY FewRequests DEF During
  <2>2. During("close")' \in {During("close"), During("close") \ {r}}
    BY <1>0 DEF During, Doing
  <2>3. During("close")' = During("close") \/ aborts' = aborts + 1
    BY <1>0 DEF During, Doing
  <2>4. Cardinality(During("close")) <= Cardinality(During("close")') + 1
    <3>1. CASE During("close")' = During("close")
      BY <2>1, <3>1
    <3>2. CASE During("close")' = During("close") \ {r} /\ r \in During("close")
      <4>1. Cardinality(During("close") \ {r}) = Cardinality(During("close")) - 1
        BY <2>1, <3>2, OneLess
      <4>2. Cardinality(During("close")') = Cardinality(During("close")) - 1
        BY <3>2, <4>1
      <4>3. Cardinality(During("close")') \in Nat /\ Cardinality(During("close")) \in Nat
        BY <2>1
      <4> QED
        BY <4>2, <4>3
    <3> QED
      BY <2>2, <3>1, <3>2
  <2>5. status = "open" => Len(orders) <= Cardinality(During("close")') + aborts'
    BY <1>0, <2>1, <2>3, <2>4 DEF CartInv, OrdersInv
  <2>6. CASE q.step # "order" \/ req[r].step = "order"
    <3>1. During("order")' \subseteq During("order")
      BY <1>0, <2>6 DEF During, Doing
    <3>2. Cardinality(During("order")') <= Cardinality(During("order"))
      BY <2>1, <3>1, Larger
    <3> QED
      BY <1>0, <2>1, <2>5, <3>2 DEF CartInv, OrdersInv
  <2>7. CASE q.step = "order" /\ req[r].step # "order"
    <3>1. IsOpen
      BY <2>7
    <3>2. During("order")' \cap During("close")' = {}
      BY <1>0 DEF During, Doing
    <3>3. Cardinality(During("order")') + Cardinality(During("close")') <= Cardinality(Requests)
      <4>1. /\ During("order")' \cup During("close")' \in SUBSET Requests
            /\ IsFiniteSet(During("order")') /\ IsFiniteSet(During("close")')
        BY <2>1, FewRequests
      <4>2. Cardinality(During("order")' \cup During("close")') =
                Cardinality(During("order")') + Cardinality(During("close")')
        <5>1. Cardinality(During("order")' \cap During("close")') = 0
          BY <3>2, FS_EmptySet
        <5>2. Cardinality(During("order")' \cup During("close")') =
                  Cardinality(During("order")') + Cardinality(During("close")')
                      - Cardinality(During("order")' \cap During("close")')
          BY <4>1, FS_Union
        <5> QED
          BY <2>1, <5>1, <5>2
      <4> QED
        BY <2>1, <4>1, <4>2
    <3> QED
      BY <1>0, <2>1, <2>5, <3>1, <3>3 DEF CartInv, OrdersInv, IsOpen
  <2> QED
    BY <2>6, <2>7
<1> QED
  BY <1>1, <1>2, <1>3, <1>4, <1>5 DEF CartInv

\* A step that admits nobody and seats nobody leaves the seats as they are.
LEMMA SeatsStay ==
    ASSUME CartInv, NEW r \in Requests, NEW q, req' = [req EXCEPT ![r] = q],
           UNCHANGED <<domain, members>>, q.step = "join" => q.who \in members
    PROVE  SeatsInv'
<1>1. Joining' \subseteq Joining /\ Joining \in SUBSET Requests /\ Joining' \in SUBSET Requests
  BY CartFacts DEF CartInv, Joining, During, Doing
<1>2. Cardinality(Joining') <= Cardinality(Joining)
  BY <1>1, Larger
<1>3. Cardinality(Joining) \in Nat /\ Cardinality(Joining') \in Nat /\ Cardinality(members) \in Nat
  BY <1>1, FewRequests, CartFacts DEF CartInv
<1>4. Cardinality(Requests) \in Nat /\ Seats \in Nat
  BY CartFacts, GroupAssumption DEF CartInv
<1> QED
  BY <1>2, <1>3, <1>4 DEF CartInv, SeatsInv

LEMMA StartSafe ==
    ASSUME CartInv, NEW r \in Requests, Start(r)
    PROVE  CartInv'
<1>0. /\ CartTypeOK /\ Len(orders) \in Nat /\ req[r].step = "idle" /\ aborts \in Nat /\ aborts <= MaxAborts
      /\ members \subseteq People /\ made \subseteq Items /\ items \subseteq made
      /\ late \subseteq members \cup made
      /\ \A i \in made : Owner[i] = Host \/ Owner[i] \in members
      /\ NoRequest \in RequestRecord /\ NoRequest.step = "idle" /\ NoRequest.lines = {} /\ NoRequest.riders = {} /\ NoRequest.placed = 0
  <2>1. req[r].step = "idle"
    BY DEF Start, JoinStart, AddStart, ApplyStart, CheckoutStart, Doing
  <2>2. \A i \in made : Owner[i] = Host \/ Owner[i] \in members
    BY DEF CartInv, OnlyMembersAreBilled, MayEnter
  <2>3. aborts \in Nat /\ aborts <= MaxAborts
    BY GroupAssumption DEF CartInv, CartTypeOK
  <2> QED
    BY <2>1, <2>2, <2>3, CartFacts, NoRequestIs DEF CartInv, CartTypeOK
<1>1. ASSUME NEW q \in RequestRecord, req' = [req EXCEPT ![r] = q],
             UNCHANGED <<domain, cart, content, orders, aborts>>, RequestInv(q),
             q.step # "close", q.step = "order" => IsOpen, SeatsInv'
      PROVE  CartInv'
  <2>1. UNCHANGED <<domain, status, orderId, orders, members, items, made, late, aborts>>
    BY <1>1 DEF cart, content
  <2>2. RequestInv(q)'
    BY <1>1, <2>1 DEF RequestInv, MayEnter
  <2> QED
    BY <1>0, <1>1, <2>1, <2>2, RequestMoves
<1>2. ASSUME NEW p \in People, JoinStart(r, p) PROVE CartInv'
  <2> DEFINE q == [NoRequest EXCEPT !.step = "join", !.who = p]
  <2>1. q \in RequestRecord /\ q.step = "join" /\ q.who = p
    BY <1>0 DEF RequestRecord, RequestSteps
  <2>2. req' = [req EXCEPT ![r] = q] /\ UNCHANGED <<domain, cart, content, orders, aborts>>
    BY <1>2 DEF JoinStart, Proceed
  <2> HIDE DEF q
  <2>3. SeatsInv'
    <3>1. CASE p \in members
      BY <2>1, <2>2, <3>1, SeatsStay DEF content
    <3>2. CASE p \notin members /\ domain = "ride"
      <4>1. Cardinality(members) < Seats
        BY <1>2, <3>2 DEF JoinStart, HasRoom
      <4>2. Cardinality(Joining') <= Cardinality(Requests) /\ Cardinality(Joining') \in Nat
        BY FewRequests DEF Joining, During
      <4>3. Cardinality(members) \in Nat /\ Cardinality(Requests) \in Nat /\ Seats \in Nat
        BY <1>0, CartFacts, GroupAssumption
      <4>4. members' = members
        BY <2>2 DEF content
      <4> QED
        BY <4>1, <4>2, <4>3, <4>4 DEF SeatsInv
    <3>3. CASE domain # "ride"
      BY <2>2, <3>3 DEF SeatsInv
    <3> QED
      BY <3>1, <3>2, <3>3
  <2>4. RequestInv(q)
    BY <2>1 DEF RequestInv
  <2> QED
    BY <1>1, <2>1, <2>2, <2>3, <2>4
<1>3. ASSUME NEW p \in People, AddStart(r, p) PROVE CartInv'
  <2> DEFINE q == [NoRequest EXCEPT !.step = "add", !.who = p]
  <2>1. q \in RequestRecord /\ q.step = "add" /\ q.who = p
    BY <1>0 DEF RequestRecord, RequestSteps
  <2>2. req' = [req EXCEPT ![r] = q] /\ UNCHANGED <<domain, cart, content, orders, aborts>> /\ MayEnter(p)
    BY <1>3 DEF AddStart, Proceed
  <2> HIDE DEF q
  <2>3. SeatsInv' /\ RequestInv(q)
    BY <2>1, <2>2, SeatsStay DEF content, RequestInv
  <2> QED
    BY <1>1, <2>1, <2>2, <2>3
<1>4. CASE ApplyStart(r)
  <2> DEFINE q == [NoRequest EXCEPT !.step = "suggest"]
  <2>1. q \in RequestRecord /\ q.step = "suggest"
    BY <1>0 DEF RequestRecord, RequestSteps
  <2>2. req' = [req EXCEPT ![r] = q] /\ UNCHANGED <<domain, cart, content, orders, aborts>>
    BY <1>4 DEF ApplyStart, Proceed
  <2> HIDE DEF q
  <2>3. SeatsInv' /\ RequestInv(q)
    BY <2>1, <2>2, SeatsStay DEF content, RequestInv
  <2> QED
    BY <1>1, <2>1, <2>2, <2>3
<1>5. CASE CheckoutStart(r)
  <2> DEFINE q == [NoRequest EXCEPT !.step = "order", !.lines = CartItems, !.riders = Riders]
  <2>1. q \in RequestRecord /\ q.step = "order" /\ q.lines = items /\ q.riders = members
    BY <1>0 DEF RequestRecord, RequestSteps, CartItems, Riders
  <2>2. req' = [req EXCEPT ![r] = q] /\ UNCHANGED <<domain, cart, content, orders, aborts>> /\ IsOpen
    BY <1>5 DEF CheckoutStart, Proceed
  <2> HIDE DEF q
  <2>3. SeatsInv' /\ RequestInv(q)
    BY <1>0, <2>1, <2>2, SeatsStay DEF content, RequestInv
  <2> QED
    BY <1>1, <2>1, <2>2, <2>3
<1> QED
  BY <1>2, <1>3, <1>4, <1>5 DEF Start

\* Joining, adding, swapping for a pack; a suggestion or a checkout that comes to
\* nothing; a request that dies.
LEMMA ContentSafe ==
    ASSUME CartInv, NEW r \in Requests,
           \/ Join(r) \/ Suggest(r) \/ Decline(r) \/ Abort(r)
           \/ \E i \in Items : AddItem(r, i) \/ Apply(r, i)
    PROVE  CartInv'
<1>0. /\ CartTypeOK /\ Len(orders) \in Nat /\ aborts \in Nat /\ aborts <= MaxAborts
      /\ MaxAborts \in Nat /\ req[r] \in RequestRecord /\ req[r].who \in People
      /\ members \subseteq People /\ made \subseteq Items /\ items \subseteq made
      /\ late \subseteq members \cup made
      /\ \A i \in made : Owner[i] = Host \/ Owner[i] \in members
      /\ RequestInv(req[r]) /\ Host \in People
  BY CartFacts, GroupAssumption DEF CartInv, CartTypeOK, OnlyMembersAreBilled, MayEnter, RequestRecord
<1>1. NoRequest \in RequestRecord /\ NoRequest.step = "idle" /\ NoRequest.lines = {} /\ NoRequest.riders = {}
  BY <1>0, NoRequestIs
<1>2. RequestInv(NoRequest)'
  BY <1>1 DEF RequestInv
<1>3. CASE Join(r)
  <2> DEFINE p == req[r].who
  <2>1. /\ req[r].step = "join" /\ members' = members \cup {p} /\ req' = [req EXCEPT ![r] = NoRequest]
        /\ UNCHANGED <<domain, status, orderId, items, made, orders, aborts>>
        /\ late' = IF Ordering /\ p \notin members THEN late \cup {p} ELSE late
    BY <1>3 DEF Join, Doing, Finish, Proceed, Late, cart
  <2>2. SeatsInv'
    <3>1. CASE p \in members
      <4>1. members' = members
        BY <2>1, <3>1
      <4> QED
        BY <1>1, <2>1, <4>1, SeatsStay
    <3>2. CASE p \notin members
      <4>1. \A d \in Requests : req'[d] = IF d = r THEN NoRequest ELSE req[d]
        BY <1>0, <2>1, CartFacts
      <4>2. Joining' \subseteq Joining \ {r} /\ r \in Joining /\ Joining \in SUBSET Requests
        BY <1>1, <2>1, <3>2, <4>1 DEF Joining, During, Doing
      <4>3. Cardinality(Joining \ {r}) = Cardinality(Joining) - 1
        BY <4>2, OneLess
      <4>4. Cardinality(Joining') <= Cardinality(Joining \ {r})
        BY <4>2, Larger
      <4>5. Cardinality(Joining) \in Nat /\ Cardinality(Joining') \in Nat
        BY FewRequests DEF Joining, During
      <4>6. Cardinality(members') = Cardinality(members) + 1
        BY <1>0, <2>1, <3>2, CartFacts, FS_AddElement
      <4>7. Cardinality(members) \in Nat /\ Cardinality(Requests) \in Nat /\ Seats \in Nat
        BY <1>0, CartFacts, GroupAssumption
      <4> QED
        BY <2>1, <4>3, <4>4, <4>5, <4>6, <4>7 DEF CartInv, SeatsInv
    <3> QED
      BY <3>1, <3>2
  <2> HIDE DEF p
  <2>3. p \in People
    BY <1>0 DEF p
  <2>4. Ordering => members' \ late' \subseteq members \ late /\ items' \ late' \subseteq items \ late
    BY <2>1
  <2> QED
    BY <1>0, <1>1, <1>2, <2>1, <2>2, <2>3, <2>4, RequestMoves
<1>4. ASSUME NEW i \in Items, AddItem(r, i) PROVE CartInv'
  <2>1. /\ req[r].step = "add" /\ Owner[i] = req[r].who /\ req' = [req EXCEPT ![r] = NoRequest]
        /\ items' = items \cup {i} /\ made' = made \cup {i}
        /\ UNCHANGED <<domain, status, orderId, members, orders, aborts>>
        /\ late' = IF Ordering THEN late \cup {i} ELSE late
    BY <1>4 DEF AddItem, Doing, Finish, Proceed, Late, cart
  <2>2. Owner[i] = Host \/ Owner[i] \in members
    BY <1>0, <2>1 DEF RequestInv, MayEnter
  <2>3. SeatsInv'
    BY <1>1, <2>1, SeatsStay
  <2> QED
    BY <1>0, <1>1, <1>2, <2>1, <2>2, <2>3, RequestMoves
<1>5. ASSUME NEW i \in Items, Apply(r, i) PROVE CartInv'
  <2>1. /\ req[r].step = "apply" /\ i \in Packs /\ req' = [req EXCEPT ![r] = NoRequest]
        /\ items' = (items \ req[r].lines) \cup {i} /\ made' = made \cup {i}
        /\ UNCHANGED <<domain, status, orderId, members, orders, aborts>>
        /\ late' = IF Ordering THEN late \cup {i} ELSE late
    BY <1>5 DEF Apply, Doing, Finish, Proceed, Late, cart
  <2>2. Owner[i] = Host
    BY <2>1, GroupAssumption
  <2>3. SeatsInv'
    BY <1>1, <2>1, SeatsStay
  <2> QED
    BY <1>0, <1>1, <1>2, <2>1, <2>2, <2>3, RequestMoves
<1>6. CASE Decline(r) \/ Abort(r)
  <2>1. /\ req' = [req EXCEPT ![r] = NoRequest]
        /\ UNCHANGED <<domain, status, orderId, members, items, made, late, orders>>
        /\ aborts' \in {aborts, aborts + 1} /\ aborts' <= MaxAborts
        /\ req[r].step = "close" => aborts' = aborts + 1
    BY <1>0, <1>6 DEF Decline, Abort, Doing, Finish, Proceed, cart, content
  <2>2. SeatsInv'
    BY <1>1, <2>1, SeatsStay
  <2> QED
    BY <1>0, <1>1, <1>2, <2>1, <2>2, RequestMoves
<1>7. CASE Suggest(r)
  <2> DEFINE p == [NoRequest EXCEPT !.step = "apply", !.lines = Matching(items)]
  <2>1. /\ req[r].step = "suggest"
        /\ req' = [req EXCEPT ![r] = p] \/ req' = [req EXCEPT ![r] = NoRequest]
        /\ UNCHANGED <<domain, status, orderId, members, items, made, late, orders, aborts>>
    BY <1>7 DEF Suggest, Doing, Finish, Proceed, cart, content
  <2>2. p \in RequestRecord /\ p.step = "apply"
    <3>1. Matching(items) \subseteq Items
      BY <1>0 DEF Matching
    <3> HIDE DEF Matching
    <3> QED
      BY <1>1, <3>1 DEF RequestRecord, RequestSteps
  <2> HIDE DEF p
  <2>3. PICK q \in RequestRecord : q.step \in {"apply", "idle"} /\ req' = [req EXCEPT ![r] = q]
    BY <1>1, <2>1, <2>2
  <2>4. SeatsInv'
    BY <2>1, <2>3, SeatsStay
  <2>5. RequestInv(q)'
    BY <2>3 DEF RequestInv
  <2> QED
    BY <1>0, <2>1, <2>3, <2>4, <2>5, RequestMoves
<1> QED
  BY <1>3, <1>4, <1>5, <1>6, <1>7

LEMMA RemoveSafe ==
    ASSUME CartInv, NEW i \in Items, RemoveItem(i)
    PROVE  CartInv'
<1>1. items' \subseteq items /\ UNCHANGED <<domain, status, orderId, members, made, late, orders, req, aborts>>
  BY DEF RemoveItem, cart
<1>2. CartTypeOK'
  BY <1>1 DEF CartInv, CartTypeOK
<1>3. (\A r \in Requests : RequestInv(req[r])') /\ OnlyMembersAreBilled' /\ EarlyContentIsOrdered'
  BY <1>1 DEF CartInv, RequestInv, MayEnter, OnlyMembersAreBilled, EarlyContentIsOrdered,
              EarlyItemsAreOrdered, EarlyRidersShare
<1>4. SeatsInv' /\ OrdersInv'
  BY <1>1 DEF CartInv, SeatsInv, OrdersInv, Joining, During, Doing
<1> QED
  BY <1>2, <1>3, <1>4 DEF CartInv

-------------------------------------------------------------------------------
(* The order, and the cart it closes.                                      *)

LEMMA PlaceSafe ==
    ASSUME CartInv, NEW r \in Requests, PlaceOrder(r)
    PROVE  CartInv'
<1> DEFINE n == Len(orders) + 1
           q == [req[r] EXCEPT !.step = "close", !.placed = n]
           order == [lines |-> req[r].lines, billed |-> Billed(req[r])]
           Order == [lines : SUBSET Items, billed : SUBSET People]
<1>0. /\ CartTypeOK /\ Len(orders) \in Nat /\ DOMAIN orders = 1 .. Len(orders) /\ aborts \in Nat
      /\ orders \in Seq(Order) /\ req[r] \in RequestRecord /\ req[r].step = "order"
      /\ req \in [Requests -> RequestRecord] /\ RequestInv(req[r]) /\ members \subseteq People
      /\ Host \in People /\ Cardinality(Requests) \in Nat
  BY CartFacts, GroupAssumption DEF CartInv, CartTypeOK, PlaceOrder, Doing
<1>1. /\ req' = [req EXCEPT ![r] = q] /\ orders' = Append(orders, order)
      /\ UNCHANGED <<domain, status, orderId, members, items, made, late, aborts>>
  BY DEF PlaceOrder, Proceed, cart, content
<1>2. /\ order.lines = req[r].lines /\ order.billed = Billed(req[r])
      /\ order.billed \subseteq members \cup {Host} /\ order \in Order
  <2>1. \A i \in made : Owner[i] \in members \cup {Host}
    BY DEF CartInv, OnlyMembersAreBilled, MayEnter
  <2>2. req[r].lines \subseteq made /\ req[r].riders \subseteq members /\ made \subseteq Items
    BY <1>0 DEF RequestInv, CartTypeOK
  <2>3. Billed(req[r]) \subseteq members \cup {Host}
    BY <2>1, <2>2 DEF Billed
  <2> QED
    BY <1>0, <2>2, <2>3
<1> HIDE DEF order
<1>3. /\ orders' \in Seq(Order) /\ Len(orders') = n /\ orders'[n] = order
      /\ \A k \in 1 .. Len(orders) : orders'[k] = orders[k]
  BY <1>0, <1>1, <1>2, AppendProperties
<1>4. /\ q.step = "close" /\ q.placed = n /\ q.who = req[r].who /\ q.lines = req[r].lines
      /\ q.riders = req[r].riders
  BY <1>0 DEF RequestRecord
<1>5. \A d \in Requests : req'[d] = IF d = r THEN q ELSE req[d]
  BY <1>0, <1>1
<1>6. \A k \in 1 .. n : k \in 1 .. Len(orders) \/ k = n
  BY <1>0
<1>7. 0 .. Len(orders) \subseteq 0 .. n /\ n \in 0 .. n /\ n # 0
  BY <1>0
<1>8. CartTypeOK'
  <2>1. \A d \in Requests : req'[d] \in RequestRecord'
    <3> TAKE d \in Requests
    <3>1. req[d] \in RequestRecord
      BY <1>0
    <3>2. CASE d # r
      BY <1>3, <1>5, <1>7, <3>1, <3>2 DEF RequestRecord
    <3>3. CASE d = r
      <4>1. q \in [step : RequestSteps, who : People, lines : SUBSET Items, riders : SUBSET People, placed : 0 .. n]
        BY <1>0, <1>7 DEF RequestRecord, RequestSteps
      <4> QED
        BY <1>3, <1>5, <3>3, <4>1 DEF RequestRecord
    <3> QED
      BY <3>2, <3>3
  <2>2. req' \in [Requests -> RequestRecord']
    BY <1>0, <1>1, <2>1
  <2> QED
    BY <1>0, <1>1, <1>3, <1>7, <2>2 DEF CartTypeOK, RequestRecord, RequestSteps
<1> HIDE DEF q
<1>9. \A d \in Requests : RequestInv(req[d])'
  <2> SUFFICES ASSUME NEW d \in Requests PROVE RequestInv(req[d])'
    OBVIOUS
  <2>1. CASE d # r
    BY <1>1, <1>5, <2>1 DEF CartInv, RequestInv, MayEnter
  <2>2. CASE d = r
    BY <1>4, <1>5, <1>7, <2>2 DEF RequestInv
  <2> QED
    BY <2>1, <2>2
<1>10. OnlyMembersAreBilled'
  <2>1. \A k \in 1 .. n : orders'[k].billed \subseteq members \cup {Host}
    BY <1>2, <1>3, <1>6 DEF CartInv, OnlyMembersAreBilled
  <2> QED
    BY <1>1, <1>3, <2>1 DEF CartInv, OnlyMembersAreBilled, MayEnter
<1>11. EarlyContentIsOrdered'
  <2>1. \A k \in 1 .. n : domain = "food" => items \ late \subseteq orders'[k].lines
    BY <1>0, <1>2, <1>3, <1>6 DEF CartInv, EarlyContentIsOrdered, EarlyItemsAreOrdered, RequestInv
  <2>2. \A k \in 1 .. n : domain = "ride" => members \ late \subseteq orders'[k].billed
    BY <1>0, <1>2, <1>3, <1>6 DEF CartInv, EarlyContentIsOrdered, EarlyRidersShare, RequestInv, Billed
  <2> QED
    BY <1>1, <1>3, <2>1, <2>2 DEF EarlyContentIsOrdered, EarlyItemsAreOrdered, EarlyRidersShare
<1>12. SeatsInv'
  BY <1>1, <1>4, SeatsStay
<1>13. OrdersInv'
  <2>1. /\ During("order")' = During("order") \ {r} /\ During("close")' = During("close") \cup {r}
        /\ r \in During("order") /\ r \notin During("close")
        /\ During("order") \in SUBSET Requests /\ During("close") \in SUBSET Requests
    BY <1>0, <1>4, <1>5 DEF During, Doing
  <2>2. /\ Cardinality(During("order")') = Cardinality(During("order")) - 1
        /\ Cardinality(During("close")') = Cardinality(During("close")) + 1
    <3>1. /\ Cardinality(During("order") \ {r}) = Cardinality(During("order")) - 1
          /\ Cardinality(During("close") \cup {r}) = Cardinality(During("close")) + 1
      BY <2>1, OneLess
    <3> QED
      BY <2>1, <3>1
  <2>3. Cardinality(During("order")) \in Nat /\ Cardinality(During("close")) \in Nat
    BY <2>1, FewRequests
  <2>4. Len(orders') = Len(orders) + 1 /\ aborts' = aborts /\ status' = status
    BY <1>1, <1>3
  <2> QED
    BY <1>0, <2>2, <2>3, <2>4 DEF CartInv, OrdersInv
<1> QED
  BY <1>8, <1>9, <1>10, <1>11, <1>12, <1>13 DEF CartInv

LEMMA CloseSafe ==
    ASSUME CartInv, NEW r \in Requests, Close(r)
    PROVE  CartInv'
<1>0. /\ CartTypeOK /\ Len(orders) \in Nat /\ req[r] \in RequestRecord /\ req[r].step = "close"
      /\ req \in [Requests -> RequestRecord] /\ req[r].placed \in 0 .. Len(orders) /\ req[r].placed # 0
  BY CartFacts DEF CartInv, Close, Doing, RequestInv, RequestRecord
<1>1. /\ req' = [req EXCEPT ![r] = NoRequest] /\ status' = "ordered" /\ orderId' = req[r].placed
      /\ UNCHANGED <<domain, members, items, made, late, orders, aborts>>
  BY DEF Close, Finish, Proceed, content
<1>2. NoRequest \in RequestRecord /\ NoRequest.step = "idle" /\ req' \in [Requests -> RequestRecord]
      /\ \A d \in Requests : req'[d] = IF d = r THEN NoRequest ELSE req[d]
  BY <1>0, <1>1, NoRequestIs
<1>3. CartTypeOK'
  BY <1>0, <1>1, <1>2 DEF CartTypeOK, RequestRecord, RequestSteps
<1>4. (\A d \in Requests : RequestInv(req[d])') /\ OnlyMembersAreBilled' /\ EarlyContentIsOrdered'
  BY <1>1, <1>2 DEF CartInv, RequestInv, MayEnter, OnlyMembersAreBilled, EarlyContentIsOrdered,
                    EarlyItemsAreOrdered, EarlyRidersShare
<1>5. SeatsInv'
  BY <1>1, <1>2, SeatsStay
<1>6. OrdersInv'
  <2>1. During("order")' = During("order")
    BY <1>0, <1>2 DEF During, Doing
  <2> QED
    BY <1>1, <2>1 DEF CartInv, OrdersInv
<1> QED
  BY <1>3, <1>4, <1>5, <1>6 DEF CartInv

-------------------------------------------------------------------------------
(* Every step.                                                             *)

LEMMA CartNextSafe == CartInv /\ [CartNext]_cartVars => CartInv'
<1> SUFFICES ASSUME CartInv, [CartNext]_cartVars PROVE CartInv'
  OBVIOUS
<1>1. ASSUME NEW r \in Requests, RunOn(r) PROVE CartInv'
  BY <1>1, ContentSafe, PlaceSafe, CloseSafe DEF RunOn
<1>2. ASSUME NEW r \in Requests, Start(r) \/ Abort(r) PROVE CartInv'
  BY <1>2, StartSafe, ContentSafe
<1>3. CASE UNCHANGED cartVars
  <2>1. CartTypeOK' /\ (\A r \in Requests : RequestInv(req[r])') /\ OnlyMembersAreBilled' /\ EarlyContentIsOrdered'
    BY <1>3 DEF cartVars, CartInv, CartTypeOK, RequestInv, MayEnter, OnlyMembersAreBilled, EarlyContentIsOrdered,
                EarlyItemsAreOrdered, EarlyRidersShare
  <2>2. SeatsInv' /\ OrdersInv'
    BY <1>3 DEF cartVars, CartInv, SeatsInv, OrdersInv, Joining, During, Doing
  <2> QED
    BY <2>1, <2>2 DEF CartInv
<1> QED
  BY <1>1, <1>2, <1>3, RemoveSafe DEF CartNext

\* Seats, members and orders agree with what each join, edit and checkout has read
\* so far, in every reachable state.
THEOREM CartInvariantHolds == CartSpec => []CartInv
<1> QED
  BY CartStarts, CartNextSafe, PTL DEF CartSpec

\* Type correctness of a shared cart, for any cart and any requests.
THEOREM CartTypeCorrect == CartSpec => []CartTypeOK
<1>1. CartInv => CartTypeOK
  BY DEF CartInv
<1> QED
  BY <1>1, CartInvariantHolds, PTL

\* Everything in a cart was put there by a member, and an order bills nobody else
\* (assertMember and POST /groups/:id/checkout).
THEOREM MembersAreBilled == CartSpec => []OnlyMembersAreBilled
<1>1. CartInv => OnlyMembersAreBilled
  BY DEF CartInv
<1> QED
  BY <1>1, CartInvariantHolds, PTL

\* What was in the cart when the host pressed checkout, and is still there, is in
\* every order placed for it (POST /groups/:id/checkout).
THEOREM EarlyContentOrdered == CartSpec => []EarlyContentIsOrdered
<1>1. CartInv => EarlyContentIsOrdered
  BY DEF CartInv
<1> QED
  BY <1>1, CartInvariantHolds, PTL

\* A ride takes fewer extra riders, and a cart no more orders, than there are
\* requests that overlap or checkouts that died.
THEOREM RacesAreBounded == CartSpec => []LimitsBreakOnlyByRace
<1>1. CartInv => LimitsBreakOnlyByRace
  <2> SUFFICES ASSUME CartInv PROVE LimitsBreakOnlyByRace
    OBVIOUS
  <2>1. /\ Cardinality(Joining) \in Nat /\ Cardinality(During("order")) \in Nat
        /\ Cardinality(members) \in Nat /\ Cardinality(Requests) \in Nat
        /\ Seats \in Nat /\ Len(orders) \in Nat /\ aborts \in Nat
    BY FewRequests, CartFacts, GroupAssumption DEF CartInv, Joining, During
  <2> QED
    BY <2>1 DEF CartInv, SeatsInv, OrdersInv, LimitsBreakOnlyByRace, OverfullOnlyByRace, ReorderedOnlyByRace
<1> QED
  BY <1>1, CartInvariantHolds, PTL

(***************************************************************************)
(* GroupChat.                                                              *)
(***************************************************************************)

(***************************************************************************)
(* Least elements: induction over the naturals without an operator.        *)
(***************************************************************************)

\* A set of naturals that is not empty has a least element.
LEMMA Least ==
    ASSUME NEW T \in SUBSET Nat, T # {}
    PROVE  \E k \in T : \A y \in T : k <= y
<1> DEFINE R == OpToRel(<, Nat)
<1>1. IsWellFoundedOn(R, Nat)
  BY NatLessThanWellFounded
<1>2. PICK k \in T : \A y \in T : ~(<<y, k>> \in R)
  <2> HIDE DEF R
  <2> QED
    BY <1>1, WFMin
<1>3. \A x, y \in Nat : x < y => <<x, y>> \in R
  <2> SUFFICES ASSUME NEW x \in Nat, NEW y \in Nat, x < y
               PROVE  <<x, y>> \in R
    OBVIOUS
  <2>1. <<x, y>> \in Nat \X Nat
    OBVIOUS
  <2>2. <<x, y>>[1] < <<x, y>>[2]
    OBVIOUS
  <2> QED
    BY <2>1, <2>2, Zenon DEF OpToRel
<1>4. \A y \in T : k <= y
  <2> SUFFICES ASSUME NEW y \in T PROVE k <= y
    OBVIOUS
  <2> HIDE DEF R
  <2>1. ~(y < k)
    BY <1>2, <1>3, Zenon
  <2> QED
    BY <2>1
<1> QED
  BY <1>4

\* A bounded set of naturals has a maximum.
LEMMA MaxIsThere ==
    ASSUME NEW n \in Nat, NEW S \in SUBSET (0..n), S # {}
    PROVE  Max(S) \in S /\ \A y \in S : Max(S) >= y
<1> DEFINE T == {n - x : x \in S}
<1>1. T \subseteq Nat
  <2>1. \A x \in S : n - x \in Nat
    OBVIOUS
  <2> QED
    BY <2>1
<1>2. T # {}
  OBVIOUS
<1>3. PICK k \in T : \A y \in T : k <= y
  <2> HIDE DEF T
  <2> QED
    BY <1>1, <1>2, Least
<1>4. PICK m \in S : k = n - m
  BY DEF T
<1>5. \A y \in S : m >= y
  BY <1>3, <1>4
<1> QED
  BY <1>4, <1>5 DEF Max

\* Finitely many naturals have a bound.
LEMMA Bounded ==
    ASSUME NEW n \in Nat, NEW f, \A p \in 1..n : f[p] \in Nat
    PROVE  \E b \in Nat : \A p \in 1..n : f[p] <= b
<1> DEFINE Fits(k) == \E b \in Nat : \A p \in 1..k : f[p] <= b
           T == {k \in Nat : k <= n /\ ~Fits(k)}
<1>1. CASE T = {}
  BY <1>1
<1>2. CASE T # {}
  <2>1. PICK k \in T : \A y \in T : k <= y
    <3>1. T \in SUBSET Nat
      OBVIOUS
    <3> HIDE DEF T
    <3> QED
      BY <1>2, <3>1, Least
  <2>2. k \in Nat /\ k <= n /\ ~Fits(k)
    OBVIOUS
  <2>3. \A y \in Nat : y < k => Fits(y)
    <3> SUFFICES ASSUME NEW y \in Nat, y < k, ~Fits(y) PROVE FALSE
      OBVIOUS
    <3>1. y \in T
      BY <2>2
    <3> HIDE DEF T
    <3>2. k <= y
      BY <2>1, <3>1
    <3> QED
      BY <2>2, <3>2
  <2>4. Fits(0)
    OBVIOUS
  <2> HIDE DEF T
  <2>5. k # 0
    BY <2>2, <2>4
  <2>6. k - 1 \in Nat /\ k - 1 < k
    BY <2>2, <2>5
  <2>7. PICK b \in Nat : \A p \in 1..(k - 1) : f[p] <= b
    BY <2>3, <2>6
  <2>8. f[k] \in Nat
    BY <2>2, <2>5
  <2>9. PICK c \in Nat : b <= c /\ f[k] <= c
    BY <2>8
  <2>10. \A p \in 1..k : f[p] <= c
    <3> SUFFICES ASSUME NEW p \in 1..k PROVE f[p] <= c
      OBVIOUS
    <3>1. CASE p = k
      BY <2>9, <3>1
    <3>2. CASE p # k
      <4>1. p \in 1..(k - 1) /\ p \in 1..n
        BY <2>2, <3>2
      <4> QED
        BY <4>1, <2>7, <2>9
    <3> QED
      BY <3>1, <3>2
  <2> QED
    BY <2>2, <2>10
<1> QED
  BY <1>1, <1>2

(***************************************************************************)
(* Types.                                                                  *)
(***************************************************************************)

LEMMA ChatFacts ==
    ASSUME ChatTypeOK
    PROVE  /\ Len(messages) \in Nat /\ DOMAIN messages = Stored
           /\ \A p \in Stored : messages[p] \in Rows
           /\ \A d \in Devices, a \in Activities : task[d][a] \in Tasks
<1>1. Len(messages) \in Nat /\ DOMAIN messages = Stored
  BY LenProperties DEF ChatTypeOK, Stored
<1>2. \A p \in Stored : messages[p] \in Rows
  BY <1>1, ElementOfSeq DEF ChatTypeOK, Stored
<1>3. \A d \in Devices, a \in Activities : task[d][a] \in Tasks
  BY DEF ChatTypeOK
<1> QED
  BY <1>1, <1>2, <1>3

LEMMA IdleIs ==
    ASSUME ChatTypeOK
    PROVE  /\ Idle \in Tasks /\ Idle.step = "idle" /\ Idle.audience = {} /\ Idle.owed = {}
           /\ Idle.inbound = {} /\ Idle.since = 0 /\ Idle.upto = 0
  BY ChatFacts DEF Idle, Tasks, Steps, Pasts

LEMMA BecomeIs ==
    ASSUME ChatTypeOK, NEW d \in Devices, NEW a \in Activities, NEW t, Become(d, a, t)
    PROVE  /\ task'[d][a] = t
           /\ \A b \in Activities : b # a => task'[d][b] = task[d][b]
           /\ \A x \in Devices : x # d => task'[x] = task[x]
           /\ t \in Tasks => task' \in [Devices -> [Activities -> Tasks]]
  BY DEF ChatTypeOK, Become

LEMMA OtherTasks ==
    ASSUME ChatTypeOK, NEW d \in Devices, NEW a \in Activities, NEW t, Become(d, a, t)
    PROVE  \A x \in Devices, b \in Activities : task'[x][b] = task[x][b] \/ (x = d /\ b = a)
<1>1. \A b \in Activities : b # a => task'[d][b] = task[d][b]
  BY BecomeIs
<1>2. \A x \in Devices : x # d => task'[x] = task[x]
  BY BecomeIs
<1> QED
  BY <1>1, <1>2

LEMMA LastOfIs ==
    ASSUME ChatTypeOK, NEW s \in SUBSET Stored
    PROVE  /\ LastOf(s) \in 0..Len(messages)
           /\ s # {} => LastOf(s) \in s
           /\ \A q \in s : q <= LastOf(s)
<1>1. s \in SUBSET (0..Len(messages)) /\ Len(messages) \in Nat
  BY ChatFacts DEF Stored
<1>2. CASE s = {}
  BY <1>1, <1>2 DEF LastOf
<1>3. CASE s # {}
  <2>1. Max(s) \in s /\ \A q \in s : Max(s) >= q
    BY <1>1, <1>3, MaxIsThere
  <2> QED
    BY <1>1, <1>3, <2>1 DEF LastOf
<1> QED
  BY <1>2, <1>3

\* What GET /keys answers.
LEMMA AnswerIs ==
    ASSUME ChatTypeOK, NEW d \in Devices
    PROVE  /\ Answer(d) \in Tasks /\ Answer(d).step = "settle"
           /\ Answer(d).owed = Owed(d)
           /\ Answer(d).audience = {r \in Devices \ {d} : known[r] # 0}
           /\ Answer(d).inbound = {e \in envelopes : e.to = d /\ chains[d][e.from] = NoRow}
<1>1. Owed(d) \subseteq Offers /\ Siblings(d) \subseteq Offers
  BY DEF Owed, Siblings, Offers, ChatTypeOK
<1>2. {r \in Devices \ {d} : known[r] # 0} \subseteq Devices
  OBVIOUS
<1>3. {e \in envelopes : e.to = d /\ chains[d][e.from] = NoRow} \subseteq Envelopes
  BY DEF ChatTypeOK
<1>4. history[d] \in Pasts
  BY DEF ChatTypeOK
<1>5. {x \in Siblings(d) : history[x.to] = NoRow} \subseteq Offers
  BY <1>1
<1>6. Len(messages) \in Nat
  BY ChatFacts
<1> DEFINE t == Answer(d)
<1>7. /\ t.step = "settle" /\ t.owed = Owed(d)
      /\ t.audience = {r \in Devices \ {d} : known[r] # 0}
      /\ t.inbound = {e \in envelopes : e.to = d /\ chains[d][e.from] = NoRow}
      /\ t.past = history[d] /\ t.siblings = {x \in Siblings(d) : history[x.to] = NoRow}
      /\ t.since = 0 /\ t.upto = 0 /\ t.before = 0 /\ t.place = 0
  BY DEF Answer, Idle
<1>9. t = [step |-> t.step, audience |-> t.audience, owed |-> t.owed,
           inbound |-> t.inbound, past |-> t.past, siblings |-> t.siblings,
           since |-> t.since, upto |-> t.upto, before |-> t.before, place |-> t.place]
  <2> HIDE DEF Owed, Siblings
  <2> DEFINE o == Owed(d)
             v == {r \in Devices \ {d} : known[r] # 0}
             i == {e \in envelopes : e.to = d /\ chains[d][e.from] = NoRow}
             b == {x \in Siblings(d) : history[x.to] = NoRow}
  <2>1. t = [Idle EXCEPT !.step = "settle", !.owed = o, !.audience = v, !.inbound = i,
                         !.past = history[d], !.siblings = b]
    BY DEF Answer
  <2> HIDE DEF t, o, v, i, b
  <2> QED
    BY <2>1 DEF Idle
<1> HIDE DEF t
<1>8. t \in Tasks
  <2>1. t.step \in Steps /\ t.audience \in SUBSET Devices /\ t.owed \in SUBSET Offers
    BY <1>1, <1>2, <1>7 DEF Steps
  <2>2. t.inbound \in SUBSET Envelopes /\ t.past \in Pasts /\ t.siblings \in SUBSET Offers
    BY <1>3, <1>4, <1>5, <1>7
  <2>3. /\ t.since \in 0..Len(messages) /\ t.upto \in 0..Len(messages)
        /\ t.before \in Nat /\ t.place \in 0..Len(messages)
    BY <1>6, <1>7
  <2> HIDE DEF Steps
  <2> QED
    BY <1>9, <2>1, <2>2, <2>3, Zenon DEF Tasks
<1> QED
  BY <1>7, <1>8 DEF t

LEMMA SealedIs ==
    ASSUME ChatTypeOK, NEW d \in Devices, NEW o \in Offers
    PROVE  /\ Sealed(d, o) \in Envelopes
           /\ Sealed(d, o).from = d /\ Sealed(d, o).to = o.to /\ Sealed(d, o).pk = o.pk
           /\ Sealed(d, o).gen = keys[d] /\ Sealed(d, o).index = own[d]
  BY DEF Sealed, Envelopes, Offers, ChatTypeOK

\* POST /keys adds envelopes of d, to devices it had none for.
LEMMA PublishIs ==
    ASSUME ChatTypeOK, NEW d \in Devices, NEW a \in Activities, Publish(d, a)
    PROVE  /\ envelopes \subseteq envelopes'
           /\ \A e \in envelopes' \ envelopes :
                  \E o \in task[d][a].owed : e = Sealed(d, o) /\ o.to \notin Sent(d)
           /\ \A o \in task[d][a].owed : \E e \in envelopes' : e.from = d /\ e.to = o.to
<1>1. task[d][a].owed \subseteq Offers
  BY ChatFacts DEF Tasks
<1>2. envelopes \subseteq envelopes'
  BY DEF Publish
<1>3. \A e \in envelopes' \ envelopes :
          \E o \in task[d][a].owed : e = Sealed(d, o) /\ o.to \notin Sent(d)
  BY Zenon DEF Publish
<1>4. ASSUME NEW o \in task[d][a].owed
      PROVE  \E e \in envelopes' : e.from = d /\ e.to = o.to
  <2>1. CASE o.to \in Sent(d)
    BY <1>2, <2>1 DEF Sent
  <2>2. CASE o.to \notin Sent(d)
    BY <1>1, <2>2, SealedIs DEF Publish
  <2> QED
    BY <2>1, <2>2
<1> QED
  BY <1>2, <1>3, <1>4

\* An activity that starts over, but for its step and what a send has to remember.
LEMMA IdleButStep ==
    ASSUME ChatTypeOK, NEW s \in Steps
    PROVE  /\ [Idle EXCEPT !.step = s] \in Tasks /\ [Idle EXCEPT !.step = s].step = s
           /\ [Idle EXCEPT !.step = s].owed = {} /\ [Idle EXCEPT !.step = s].inbound = {}
<1> DEFINE t == [Idle EXCEPT !.step = s]
<1>1. t = [step |-> s, audience |-> {}, owed |-> {}, inbound |-> {}, past |-> NoRow,
           siblings |-> {}, since |-> 0, upto |-> 0, before |-> 0, place |-> 0]
  BY DEF Idle
<1>2. 0 \in 0..Len(messages) /\ NoRow \in Pasts
  BY ChatFacts DEF Pasts
<1> HIDE DEF t
<1>3. t \in Tasks
  BY <1>1, <1>2 DEF Tasks
<1>4. t.step = s /\ t.owed = {} /\ t.inbound = {}
  BY <1>1
<1> QED
  BY <1>3, <1>4 DEF t

Built(i, v) == [Idle EXCEPT !.step = "post", !.before = i, !.audience = v]

LEMMA BuiltIs ==
    ASSUME NEW i, NEW v, NEW t, t = Built(i, v)
    PROVE  t = [step |-> "post", audience |-> v, owed |-> {}, inbound |-> {}, past |-> NoRow,
                siblings |-> {}, since |-> 0, upto |-> 0, before |-> i, place |-> 0]
  BY DEF Idle, Built

LEMMA Building ==
    ASSUME ChatTypeOK, NEW i \in Nat, NEW v \in SUBSET Devices
    PROVE  /\ Built(i, v) \in Tasks /\ Built(i, v).step = "post" /\ Built(i, v).before = i
           /\ Built(i, v).audience = v /\ Built(i, v).owed = {} /\ Built(i, v).inbound = {}
<1> DEFINE t == Built(i, v)
<1>1. t = [step |-> "post", audience |-> v, owed |-> {}, inbound |-> {}, past |-> NoRow,
           siblings |-> {}, since |-> 0, upto |-> 0, before |-> i, place |-> 0]
  BY BuiltIs
<1>2. 0 \in 0..Len(messages) /\ NoRow \in Pasts
  BY ChatFacts DEF Pasts
<1> HIDE DEF t
<1>3. t \in Tasks
  BY <1>1, <1>2 DEF Tasks, Steps
<1>4. /\ t.step = "post" /\ t.before = i /\ t.audience = v
      /\ t.owed = {} /\ t.inbound = {}
  BY <1>1
<1> QED
  BY <1>3, <1>4 DEF t

LEMMA ContinueIs ==
    ASSUME ChatTypeOK, NEW d \in Devices, NEW a \in Activities, Continue(d, a)
    PROVE  /\ task' \in [Devices -> [Activities -> Tasks]] /\ own' \in [Devices -> Nat]
           /\ \A b \in Activities : b # a => task'[d][b] = task[d][b]
           /\ \A x \in Devices : x # d => task'[x] = task[x] /\ own'[x] = own[x]
           /\ task'[d][a].owed = {} /\ task'[d][a].inbound = {}
           /\ a # "send" => own' = own /\ task'[d][a].step \in {"idle", "again"}
           /\ a = "send" => /\ own'[d] = own[d] + 1
                            /\ task'[d][a].step = "post" /\ task'[d][a].before = own[d]
                            /\ task'[d][a].audience = task[d][a].audience
<1>1. task[d][a].audience \in SUBSET Devices /\ own[d] \in Nat
  BY ChatFacts DEF Tasks, ChatTypeOK
<1>2. CASE a = "send"
  <2> DEFINE t == Built(own[d], task[d][a].audience)
  <2>1. Become(d, a, t)
    BY <1>2 DEF Continue, Built
  <2>2. /\ t \in Tasks /\ t.step = "post" /\ t.before = own[d]
        /\ t.audience = task[d][a].audience /\ t.owed = {} /\ t.inbound = {}
    BY <1>1, Building
  <2>3. own' = Put(own, d, own[d] + 1)
    BY <1>2 DEF Continue
  <2> HIDE DEF t
  <2>4. own' \in [Devices -> Nat] /\ own'[d] = own[d] + 1
        /\ \A x \in Devices : x # d => own'[x] = own[x]
    BY <1>1, <2>3 DEF Put, ChatTypeOK
  <2> QED
    BY <1>2, <2>1, <2>2, <2>4, BecomeIs
<1>3. CASE a = "poll"
  <2> DEFINE t == [Idle EXCEPT !.step = "again"]
  <2>1. Become(d, a, t) /\ own' = own
    BY <1>3 DEF Continue
  <2>2. t \in Tasks /\ t.step = "again" /\ t.owed = {} /\ t.inbound = {}
    <3>1. "again" \in Steps
      BY DEF Steps
    <3> QED
      BY <3>1, IdleButStep
  <2> HIDE DEF t
  <2> QED
    BY <1>3, <2>1, <2>2, BecomeIs DEF ChatTypeOK
<1>4. CASE a \notin {"send", "poll"}
  <2>1. Become(d, a, Idle) /\ own' = own
    BY <1>4 DEF Continue
  <2> QED
    BY <1>4, <2>1, BecomeIs, IdleIs DEF ChatTypeOK
<1> QED
  BY <1>2, <1>3, <1>4

\* What drain does with a queue.
LEMMA DrainIs ==
    ASSUME ChatTypeOK, NEW d \in Devices, NEW queue \in SUBSET Stored, Drain(d, queue)
    PROVE  /\ log' \in [Devices -> SUBSET Stored] /\ pending' \in [Devices -> SUBSET Stored]
           /\ refused' \in [Devices -> SUBSET Stored]
           /\ chains' \in [Devices -> [Devices -> Chains \cup {NoRow}]]
           /\ task' \in [Devices -> [Activities -> Tasks]]
           /\ log[d] \subseteq log'[d] /\ refused[d] \subseteq refused'[d]
           /\ pending'[d] \subseteq queue
           /\ \A p \in log'[d] \ log[d] : p \in queue /\ messages[p].from # d /\ Opens(d, p)
           /\ \A p \in queue : messages[p].from # d =>
                  p \in log'[d] \cup refused'[d] \cup pending'[d]
           /\ \A s \in Devices :
                  \/ chains'[d][s] = chains[d][s]
                  \/ /\ chains[d][s] # NoRow
                     /\ chains'[d][s].gen = chains[d][s].gen
                     /\ chains'[d][s].index >= chains[d][s].index
           /\ \A x \in Devices : x # d => /\ log'[x] = log[x] /\ refused'[x] = refused[x]
                                          /\ pending'[x] = pending[x] /\ chains'[x] = chains[x]
                                          /\ task'[x] = task[x]
           /\ \A b \in Activities : b # "poll" => task'[d][b] = task[d][b]
           /\ task'[d]["poll"].step \in {"idle", "keys"}
           /\ task'[d]["poll"].owed = {} /\ task'[d]["poll"].inbound = {}
<1> DEFINE fresh == {p \in queue : messages[p].from # d /\ p \notin log[d]}
           opened == {p \in fresh : Opens(d, p)}
           kept == {p \in fresh : chains[d][messages[p].from] = NoRow}
           read(s) == {messages[p].index : p \in {x \in opened : messages[x].from = s}}
<1>1. /\ log' = Put(log, d, log[d] \cup opened)
      /\ pending' = Put(pending, d, kept)
      /\ refused' = Put(refused, d, refused[d] \cup (fresh \ (opened \cup kept)))
      /\ chains' = Put(chains, d, [s \in Devices |->
             IF read(s) = {} THEN chains[d][s]
             ELSE [chains[d][s] EXCEPT !.index = Max(read(s)) + 1]])
      /\ Become(d, "poll", IF At(d, "poll", "drain") /\ kept # {}
                           THEN [Idle EXCEPT !.step = "keys"] ELSE Idle)
  BY DEF Drain
<1>2. fresh \subseteq Stored /\ opened \subseteq fresh /\ kept \subseteq fresh
  OBVIOUS
<1>3. /\ log' \in [Devices -> SUBSET Stored] /\ pending' \in [Devices -> SUBSET Stored]
      /\ refused' \in [Devices -> SUBSET Stored]
      /\ log'[d] = log[d] \cup opened /\ pending'[d] = kept
      /\ refused'[d] = refused[d] \cup (fresh \ (opened \cup kept))
      /\ \A x \in Devices : x # d => /\ log'[x] = log[x] /\ refused'[x] = refused[x]
                                     /\ pending'[x] = pending[x]
  <2> HIDE DEF fresh, opened, kept
  <2> QED
    BY <1>1, <1>2 DEF Put, ChatTypeOK
<1>4. PICK b \in Nat : \A p \in Stored : messages[p].index <= b
  <2> DEFINE f == [p \in Stored |-> messages[p].index]
  <2>1. \A p \in 1..Len(messages) : f[p] \in Nat
    BY ChatFacts DEF Rows, Stored
  <2>2. Len(messages) \in Nat
    BY ChatFacts
  <2>3. \E c \in Nat : \A p \in 1..Len(messages) : f[p] <= c
    <3> HIDE DEF f
    <3> QED
      BY <2>1, <2>2, Bounded
  <2> QED
    BY <2>3 DEF Stored
<1>5. ASSUME NEW s \in Devices, read(s) # {}
      PROVE  /\ chains[d][s] # NoRow /\ Max(read(s)) + 1 \in Nat
             /\ Max(read(s)) + 1 >= chains[d][s].index
  <2>1. \A p \in Stored : messages[p].index \in 0..b
    BY <1>4, ChatFacts DEF Rows
  <2>2. read(s) \in SUBSET (0..b)
    BY <2>1, <1>2
  <2>3. PICK p \in opened : messages[p].from = s
    BY <1>5
  <2>4. messages[p].index \in read(s)
    BY <2>3
  <2>5. chains[d][s] # NoRow /\ messages[p].index >= chains[d][s].index
    BY <2>3 DEF Opens
  <2>6. chains[d][s].index \in Nat
    BY <2>5 DEF ChatTypeOK, Chains
  <2> HIDE DEF read, opened
  <2>7. Max(read(s)) \in 0..b /\ Max(read(s)) >= messages[p].index
    BY <1>4, <1>5, <2>2, <2>4, MaxIsThere
  <2> QED
    BY <1>4, <2>1, <1>2, <2>5, <2>6, <2>7
<1>6. \A s \in Devices : chains'[d][s] =
          IF read(s) = {} THEN chains[d][s] ELSE [chains[d][s] EXCEPT !.index = Max(read(s)) + 1]
  <2> HIDE DEF read
  <2> QED
    BY <1>1 DEF Put, ChatTypeOK
<1>7. \A s \in Devices :
          /\ chains'[d][s] \in Chains \cup {NoRow}
          /\ \/ chains'[d][s] = chains[d][s]
             \/ /\ chains[d][s] # NoRow
                /\ chains'[d][s].gen = chains[d][s].gen
                /\ chains'[d][s].index >= chains[d][s].index
  <2> SUFFICES ASSUME NEW s \in Devices
               PROVE  /\ chains'[d][s] \in Chains \cup {NoRow}
                      /\ \/ chains'[d][s] = chains[d][s]
                         \/ /\ chains[d][s] # NoRow
                            /\ chains'[d][s].gen = chains[d][s].gen
                            /\ chains'[d][s].index >= chains[d][s].index
    OBVIOUS
  <2> HIDE DEF read
  <2>1. chains[d][s] \in Chains \cup {NoRow}
    BY DEF ChatTypeOK
  <2>2. CASE read(s) = {}
    BY <1>6, <2>1, <2>2
  <2>3. CASE read(s) # {}
    <3> DEFINE m == Max(read(s)) + 1
    <3>1. chains[d][s] \in Chains /\ chains'[d][s] = [chains[d][s] EXCEPT !.index = m]
          /\ m \in Nat /\ m >= chains[d][s].index
      BY <1>5, <1>6, <2>1, <2>3
    <3> HIDE DEF m
    <3> QED
      BY <1>5, <2>3, <3>1 DEF Chains
  <2> QED
    BY <2>2, <2>3
<1>8. chains' \in [Devices -> [Devices -> Chains \cup {NoRow}]]
      /\ \A x \in Devices : x # d => chains'[x] = chains[x]
  <2> DEFINE g == [s \in Devices |->
             IF read(s) = {} THEN chains[d][s]
             ELSE [chains[d][s] EXCEPT !.index = Max(read(s)) + 1]]
  <2>1. chains' = Put(chains, d, g)
    BY <1>1
  <2>2. DOMAIN g = Devices /\ g = [s \in Devices |-> g[s]]
    OBVIOUS
  <2> HIDE DEF g
  <2>3. chains'[d] = g
    BY <2>1 DEF Put, ChatTypeOK
  <2>4. g \in [Devices -> Chains \cup {NoRow}]
    BY <1>7, <2>2, <2>3
  <2> QED
    BY <2>1, <2>4 DEF Put, ChatTypeOK
<1>9. /\ task' \in [Devices -> [Activities -> Tasks]]
      /\ \A x \in Devices : x # d => task'[x] = task[x]
      /\ \A c \in Activities : c # "poll" => task'[d][c] = task[d][c]
      /\ task'[d]["poll"].step \in {"idle", "keys"}
      /\ task'[d]["poll"].owed = {} /\ task'[d]["poll"].inbound = {}
  <2>1. "poll" \in Activities /\ "keys" \in Steps
    BY DEF Activities, Steps
  <2>2. CASE At(d, "poll", "drain") /\ kept # {}
    <3> DEFINE t == [Idle EXCEPT !.step = "keys"]
    <3>1. Become(d, "poll", t)
      BY <1>1, <2>2
    <3>2. t \in Tasks /\ t.step = "keys" /\ t.owed = {} /\ t.inbound = {}
      BY <2>1, IdleButStep
    <3> HIDE DEF t
    <3> QED
      BY <2>1, <3>1, <3>2, BecomeIs
  <2>3. CASE ~(At(d, "poll", "drain") /\ kept # {})
    <3>1. Become(d, "poll", Idle)
      BY <1>1, <2>3
    <3> QED
      BY <2>1, <3>1, BecomeIs, IdleIs
  <2> QED
    BY <2>2, <2>3
<1>10. \A p \in log'[d] \ log[d] : p \in queue /\ messages[p].from # d /\ Opens(d, p)
  BY <1>3
<1>11. \A p \in queue : messages[p].from # d => p \in log'[d] \cup refused'[d] \cup pending'[d]
  BY <1>3
<1>12. log[d] \subseteq log'[d] /\ refused[d] \subseteq refused'[d] /\ pending'[d] \subseteq queue
  BY <1>3
<1> HIDE DEF fresh, opened, kept, read
<1> QED
  BY <1>3, <1>7, <1>8, <1>9, <1>10, <1>11, <1>12

\* What the local work of a synchronisation does.
LEMMA SettleIs ==
    ASSUME ChatTypeOK, NEW d \in Devices, NEW a \in Activities, Settle(d, a)
    PROVE  /\ log' \in [Devices -> SUBSET Stored] /\ handed' \in [Devices -> SUBSET Stored]
           /\ passed' \in [Devices -> SUBSET Stored]
           /\ cursor' \in [Devices -> 0..Len(messages)]
           /\ history' \in [Devices -> Pasts]
           /\ chains' \in [Devices -> [Devices -> Chains \cup {NoRow}]]
           /\ \A x \in Devices : x # d => /\ log'[x] = log[x] /\ handed'[x] = handed[x]
                                          /\ passed'[x] = passed[x] /\ cursor'[x] = cursor[x]
                                          /\ chains'[x] = chains[x]
           /\ \A s \in Devices :
                  \/ chains'[d][s] = chains[d][s]
                  \/ \E e \in task[d][a].inbound :
                        /\ e.from = s /\ e.pk = keys[d]
                        /\ chains'[d][s].gen = e.gen /\ chains'[d][s].index = e.index
           /\ \/ /\ log'[d] = log[d] /\ handed'[d] = handed[d]
                 /\ passed'[d] = passed[d] /\ cursor'[d] = cursor[d]
              \/ /\ log[d] = {} /\ handed'[d] = log'[d]
                 /\ cursor'[d] = LastOf(log'[d])
                 /\ passed'[d] = passed[d] \cup (1..LastOf(log'[d]) \ log'[d])
<1> DEFINE t == task[d][a]
           now == IF TakesPast(d, a) THEN t.past.log ELSE log[d]
           left == IF TakesPast(d, a) THEN Put(history, d, NoRow) ELSE history
<1>1. /\ chains' = Put(chains, d, Learned(d, a))
      /\ log' = Put(log, d, now)
      /\ handed' = IF TakesPast(d, a) THEN Put(handed, d, now) ELSE handed
      /\ cursor' = IF TakesPast(d, a) THEN Put(cursor, d, LastOf(now)) ELSE cursor
      /\ passed' = IF TakesPast(d, a) THEN Put(passed, d, passed[d] \cup (1..LastOf(now) \ now))
                   ELSE passed
      /\ history' = [r \in Devices |->
             IF now # {} /\ left[r] = NoRow /\ \E x \in t.siblings : x.to = r
             THEN [pk |-> (CHOOSE x \in t.siblings : x.to = r).pk, log |-> now]
             ELSE left[r]]
  BY DEF Settle
<1>2. /\ t.past \in Pasts /\ t.siblings \in SUBSET Offers /\ t.inbound \in SUBSET Envelopes
  BY ChatFacts DEF Tasks
<1>3. now \in SUBSET Stored
  BY <1>2 DEF TakesPast, Pasts, ChatTypeOK
<1>4. left \in [Devices -> Pasts]
  BY DEF ChatTypeOK, Put, Pasts
<1>5. LastOf(now) \in 0..Len(messages) /\ (1..LastOf(now)) \subseteq Stored
  <2> HIDE DEF now
  <2> QED
    BY <1>3, LastOfIs, ChatFacts DEF Stored
<1> HIDE DEF now, left
<1>6. log' \in [Devices -> SUBSET Stored] /\ log'[d] = now
      /\ \A x \in Devices : x # d => log'[x] = log[x]
  BY <1>1, <1>3 DEF ChatTypeOK, Put
<1>7. history' \in [Devices -> Pasts]
  <2>1. ASSUME NEW r \in Devices, \E x \in t.siblings : x.to = r
        PROVE  [pk |-> (CHOOSE x \in t.siblings : x.to = r).pk, log |-> now] \in Pasts
    <3>1. (CHOOSE x \in t.siblings : x.to = r) \in Offers
      BY <1>2, <2>1
    <3>2. (CHOOSE x \in t.siblings : x.to = r).pk \in Nat
      BY <3>1 DEF Offers
    <3> QED
      BY <1>3, <3>2 DEF Pasts
  <2> HIDE DEF t
  <2> QED
    BY <1>1, <1>4, <2>1
<1>8. \A s \in Devices :
          /\ Learned(d, a)[s] \in Chains \cup {NoRow}
          /\ \/ Learned(d, a)[s] = chains[d][s]
             \/ \E e \in t.inbound :
                   /\ e.from = s /\ e.pk = keys[d]
                   /\ Learned(d, a)[s].gen = e.gen /\ Learned(d, a)[s].index = e.index
  <2> SUFFICES ASSUME NEW s \in Devices
               PROVE  /\ Learned(d, a)[s] \in Chains \cup {NoRow}
                      /\ \/ Learned(d, a)[s] = chains[d][s]
                         \/ \E e \in t.inbound :
                               /\ e.from = s /\ e.pk = keys[d]
                               /\ Learned(d, a)[s].gen = e.gen
                               /\ Learned(d, a)[s].index = e.index
    OBVIOUS
  <2> DEFINE mine == {e \in t.inbound : e.from = s /\ e.pk = keys[d]}
             e == CHOOSE x \in mine : TRUE
  <2>1. Learned(d, a)[s] = IF chains[d][s] = NoRow /\ mine # {}
                           THEN [gen |-> e.gen, index |-> e.index] ELSE chains[d][s]
    BY DEF Learned
  <2>2. mine # {} => e \in mine
    OBVIOUS
  <2>3. mine # {} => e \in t.inbound /\ e.from = s /\ e.pk = keys[d]
                     /\ e.gen \in Nat /\ e.index \in Nat
    BY <1>2, <2>2 DEF Envelopes
  <2>4. chains[d][s] \in Chains \cup {NoRow}
    BY DEF ChatTypeOK
  <2> HIDE DEF mine, e, t
  <2> QED
    BY <2>1, <2>3, <2>4 DEF Chains
<1>9. /\ chains' \in [Devices -> [Devices -> Chains \cup {NoRow}]]
      /\ chains'[d] = Learned(d, a)
      /\ \A x \in Devices : x # d => chains'[x] = chains[x]
  <2>1. Learned(d, a) \in [Devices -> Chains \cup {NoRow}]
    <3>1. Learned(d, a) = [s \in Devices |-> Learned(d, a)[s]]
      BY DEF Learned
    <3> QED
      BY <1>8, <3>1, Zenon
  <2> QED
    BY <1>1, <2>1 DEF Put, ChatTypeOK
<1>10. CASE TakesPast(d, a)
  <2>1. /\ log[d] = {} /\ handed' = Put(handed, d, now) /\ cursor' = Put(cursor, d, LastOf(now))
        /\ passed' = Put(passed, d, passed[d] \cup (1..LastOf(now) \ now))
    BY <1>1, <1>10 DEF TakesPast
  <2>2. /\ handed' \in [Devices -> SUBSET Stored] /\ handed'[d] = now
        /\ passed' \in [Devices -> SUBSET Stored]
        /\ passed'[d] = passed[d] \cup (1..LastOf(now) \ now)
        /\ cursor' \in [Devices -> 0..Len(messages)] /\ cursor'[d] = LastOf(now)
        /\ \A x \in Devices : x # d => /\ handed'[x] = handed[x] /\ passed'[x] = passed[x]
                                       /\ cursor'[x] = cursor[x]
    BY <1>3, <1>5, <2>1 DEF Put, ChatTypeOK
  <2>3. /\ log[d] = {} /\ handed'[d] = log'[d] /\ cursor'[d] = LastOf(log'[d])
        /\ passed'[d] = passed[d] \cup (1..LastOf(log'[d]) \ log'[d])
    BY <1>6, <2>1, <2>2, Zenon
  <2>4. \A s \in Devices :
            \/ chains'[d][s] = chains[d][s]
            \/ \E e \in task[d][a].inbound :
                  /\ e.from = s /\ e.pk = keys[d]
                  /\ chains'[d][s].gen = e.gen /\ chains'[d][s].index = e.index
    <3>1. \A s \in Devices : chains'[d][s] = Learned(d, a)[s]
      BY <1>9
    <3> QED
      BY <1>8, <3>1
  <2> QED
    BY <1>6, <1>7, <1>9, <2>2, <2>3, <2>4, Zenon
<1>11. CASE ~TakesPast(d, a)
  <2>1. now = log[d] /\ handed' = handed /\ cursor' = cursor /\ passed' = passed
    BY <1>1, <1>11 DEF now
  <2> QED
    BY <1>6, <1>7, <1>8, <1>9, <2>1 DEF ChatTypeOK
<1> QED
  BY <1>10, <1>11

(***************************************************************************)
(* What keeps each part of the invariant.                                  *)
(***************************************************************************)

\* Keys and their registrations only move on, and troubles are never forgotten.
Onward ==
    /\ \A x \in Devices : keys[x] <= keys'[x] /\ known[x] <= known'[x] /\ known'[x] <= keys'[x]
    /\ \A x \in Devices : trouble[x] \subseteq trouble'[x]

LEMMA KeysKept ==
    ASSUME ChatTypeOK, ChatTypeOK', KeysInv, Onward, messages' = messages,
           \A e \in envelopes' \ envelopes : e.pk \in 1..known[e.to] /\ e.gen \in 1..keys[e.from],
           \A x \in Devices, b \in Activities :
               /\ \A o \in task'[x][b].owed \ task[x][b].owed : o.pk \in 1..known[o.to]
               /\ \A e \in task'[x][b].inbound \ task[x][b].inbound : e \in envelopes /\ e.to = x
    PROVE  KeysInv'
<1>1. \A x \in Devices : keys[x] \in Nat /\ keys'[x] \in Nat /\ known[x] \in Nat /\ known'[x] \in Nat
                         /\ keys[x] <= keys'[x] /\ known[x] <= known'[x] /\ known'[x] <= keys'[x]
                         /\ keys[x] > 0
  BY DEF ChatTypeOK, Onward, KeysInv
<1>2. \A x \in Devices : known'[x] <= keys'[x] /\ keys'[x] > 0
  BY <1>1
<1>3. \A e \in envelopes' : e.pk \in 1..known'[e.to] /\ e.gen \in 1..keys'[e.from]
  <2> SUFFICES ASSUME NEW e \in envelopes'
               PROVE  e.pk \in 1..known'[e.to] /\ e.gen \in 1..keys'[e.from]
    OBVIOUS
  <2>1. e.to \in Devices /\ e.from \in Devices
    BY DEF ChatTypeOK, Envelopes
  <2>2. e.pk \in 1..known[e.to] /\ e.gen \in 1..keys[e.from]
    BY DEF KeysInv
  <2> QED
    BY <1>1, <2>1, <2>2
<1>4. ASSUME NEW x \in Devices, NEW b \in Activities
      PROVE  /\ \A o \in task'[x][b].owed : o.pk \in 1..known'[o.to]
             /\ \A e \in task'[x][b].inbound : e.to = x /\ e.pk \in 1..known'[x]
  <2>1. task'[x][b].owed \subseteq Offers
    BY DEF ChatTypeOK, Tasks
  <2>2. ASSUME NEW o \in task'[x][b].owed
        PROVE  o.pk \in 1..known'[o.to]
    <3>1. o.to \in Devices
      BY <2>1 DEF Offers
    <3>2. o.pk \in 1..known[o.to]
      BY DEF KeysInv
    <3> QED
      BY <1>1, <3>1, <3>2
  <2>3. ASSUME NEW e \in task'[x][b].inbound
        PROVE  e.to = x /\ e.pk \in 1..known'[x]
    <3>1. e.to = x /\ e.pk \in 1..known[x]
      BY DEF KeysInv
    <3> QED
      BY <1>1, <3>1
  <2> QED
    BY <2>2, <2>3
<1>5. \A p \in Stored' : messages'[p].gen \in 1..keys'[messages'[p].from]
  <2> SUFFICES ASSUME NEW p \in Stored
               PROVE  messages[p].gen \in 1..keys'[messages[p].from]
    BY DEF Stored
  <2>1. messages[p].from \in Devices /\ messages[p].gen \in 1..keys[messages[p].from]
    BY ChatFacts DEF Rows, KeysInv
  <2> QED
    BY <1>1, <2>1
<1> QED
  BY <1>2, <1>3, <1>4, <1>5, Zenon DEF KeysInv

LEMMA PositionKept ==
    ASSUME ChatTypeOK, ChatTypeOK', KeysInv, PositionInv, Onward, messages' = messages,
           \A x \in Devices : "unsure" \notin trouble'[x] /\ keys'[x] = keys[x] =>
               /\ \/ own[x] <= own'[x]
                  \/ At(x, "send", "post") /\ own'[x] = task[x]["send"].before
               /\ At(x, "send", "post")' =>
                      \/ task'[x]["send"].before = own[x]
                      \/ At(x, "send", "post")
                         /\ task'[x]["send"].before = task[x]["send"].before
    PROVE  PositionInv'
<1> SUFFICES ASSUME NEW x \in Devices, "unsure" \notin trouble'[x], NEW p \in Stored,
                    messages[p].from = x, messages[p].gen = keys'[x]
             PROVE  /\ messages[p].index < own'[x]
                    /\ At(x, "send", "post")' => messages[p].index < task'[x]["send"].before
  BY DEF PositionInv, Stored
<1>1. keys'[x] = keys[x]
  <2>1. messages[p].gen \in 1..keys[x] /\ keys[x] \in Nat /\ keys'[x] \in Nat /\ keys[x] <= keys'[x]
    BY DEF KeysInv, ChatTypeOK, Onward
  <2> QED
    BY <2>1
<1>2. "unsure" \notin trouble[x]
  BY DEF Onward
<1>3. /\ messages[p].index < own[x]
      /\ At(x, "send", "post") => messages[p].index < task[x]["send"].before
  BY <1>1, <1>2 DEF PositionInv
<1>4. messages[p].index \in Nat /\ own[x] \in Nat /\ own'[x] \in Nat
  BY ChatFacts DEF Rows, ChatTypeOK
<1>5. messages[p].index < own'[x]
  BY <1>1, <1>3, <1>4
<1> QED
  BY <1>1, <1>3, <1>5

LEMMA LockedKept ==
    ASSUME ChatTypeOK, ChatTypeOK', LockedOutOnlyByMishap, Onward, messages' = messages
    PROVE  LockedOutOnlyByMishap'
<1> SUFFICES ASSUME NEW p \in Stored, messages[p].out # {}
             PROVE  \/ trouble'[messages[p].from] # {} \/ messages[p].gen > 1
                    \/ \E r \in messages[p].out : keys'[r] > 1
  BY DEF LockedOutOnlyByMishap, Stored
<1>1. messages[p].from \in Devices /\ messages[p].out \subseteq Devices
  BY ChatFacts DEF Rows
<1>2. \/ trouble[messages[p].from] # {} \/ messages[p].gen > 1
      \/ \E r \in messages[p].out : keys[r] > 1
  BY DEF LockedOutOnlyByMishap, Stored
<1>3. \A r \in Devices : keys[r] > 1 => keys'[r] > 1
  BY DEF ChatTypeOK, Onward
<1> QED
  BY <1>1, <1>2, <1>3 DEF Onward

LEMMA ReadsKept ==
    ASSUME ChatTypeOK, ReadsNothingEarlier, Onward, messages' = messages,
           \A x \in Devices : \A p \in log'[x] \ handed'[x] :
               /\ keys'[x] = keys[x]
               /\ \/ p \in log[x] \ handed[x]
                  \/ messages[p].from = x
                  \/ messages[p].knew[x] = keys[x] \/ "unsure" \in trouble[messages[p].from],
           log' \in [Devices -> SUBSET Stored]
    PROVE  ReadsNothingEarlier'
<1> SUFFICES ASSUME NEW x \in Devices, NEW p \in log'[x] \ handed'[x], messages[p].from # x
             PROVE  messages[p].knew[x] = keys'[x] \/ "unsure" \in trouble'[messages[p].from]
  BY Zenon DEF ReadsNothingEarlier
<1>1. messages[p].from \in Devices
  BY ChatFacts DEF Rows
<1>2. messages[p].knew[x] = keys[x] \/ "unsure" \in trouble[messages[p].from]
  BY DEF ReadsNothingEarlier
<1> QED
  BY <1>1, <1>2 DEF Onward

LEMMA OwedKept ==
    ASSUME OwedInv,
           \A x \in Devices, b \in Activities :
               task'[x][b].owed = task[x][b].owed \/ task'[x][b].owed = {}
    PROVE  OwedInv'
<1> SUFFICES ASSUME NEW x \in Devices, NEW b \in Activities,
                    NEW o \in task'[x][b].owed, NEW z \in task'[x][b].owed, o.to = z.to
             PROVE  o = z
  BY Zenon DEF OwedInv
<1>1. o \in task[x][b].owed /\ z \in task[x][b].owed
  OBVIOUS
<1> QED
  BY <1>1, Zenon DEF OwedInv

LEMMA DeliveryKept ==
    ASSUME ChatTypeOK, ChatTypeOK', KeysInv, DeliveryInv, Onward,
           \A e \in envelopes : keys'[e.to] = 1 => e \in envelopes',
           \A e \in envelopes' \ envelopes : e.index = own[e.from],
           \A x \in Devices : trouble'[x] = {} /\ keys'[x] = 1 =>
               /\ own[x] <= own'[x]
               /\ \A b \in Activities : At(x, b, "settle")' =>
                      \/ task'[x][b] = task[x][b]
                      \/ \A r \in task'[x][b].audience : keys'[r] = 1 =>
                             HandedOver(x, r) \/ \E o \in task'[x][b].owed : o.to = r
               /\ At(x, "send", "post")' =>
                      \/ task'[x]["send"] = task[x]["send"]
                      \/ \A r \in task'[x]["send"].audience : keys'[r] = 1 =>
                             \E e \in envelopes' : e.from = x /\ e.to = r
                                                   /\ e.index <= task'[x]["send"].before
    PROVE  DeliveryInv'
<1> SUFFICES ASSUME NEW x \in Devices, trouble'[x] = {}, keys'[x] = 1
             PROVE  /\ \A e \in envelopes' : e.from = x => e.index <= own'[x]
                    /\ \A b \in Activities : At(x, b, "settle")' =>
                           \A r \in task'[x][b].audience : keys'[r] = 1 =>
                               HandedOver(x, r)' \/ \E o \in task'[x][b].owed : o.to = r
                    /\ At(x, "send", "post")' =>
                           \A r \in task'[x]["send"].audience : keys'[r] = 1 =>
                               \E e \in envelopes' : e.from = x /\ e.to = r
                                                     /\ e.index <= task'[x]["send"].before
  BY Zenon DEF DeliveryInv
<1>1. trouble[x] = {} /\ keys[x] = 1
  BY DEF Onward, ChatTypeOK, KeysInv
<1>2. \A r \in Devices : keys'[r] = 1 => keys[r] = 1
  BY DEF Onward, ChatTypeOK, KeysInv
<1>3. \A r \in Devices : keys'[r] = 1 /\ HandedOver(x, r) => HandedOver(x, r)'
  BY DEF HandedOver
<1>4. own[x] \in Nat /\ own'[x] \in Nat /\ own[x] <= own'[x]
  BY <1>1 DEF ChatTypeOK
<1>5. ASSUME NEW e \in envelopes', e.from = x
      PROVE  e.index <= own'[x]
  <2>1. e.index \in Nat
    BY DEF ChatTypeOK, Envelopes
  <2>2. e.index <= own[x]
    BY <1>1, <1>4, <1>5, <2>1 DEF DeliveryInv
  <2> QED
    BY <1>4, <2>1, <2>2
<1>6. ASSUME NEW b \in Activities, At(x, b, "settle")', NEW r \in task'[x][b].audience,
             keys'[r] = 1
      PROVE  HandedOver(x, r)' \/ \E o \in task'[x][b].owed : o.to = r
  <2>1. r \in Devices
    BY DEF ChatTypeOK, Tasks
  <2>2. CASE task'[x][b] = task[x][b]
    <3>1. At(x, b, "settle")
      BY <1>6, <2>2 DEF At
    <3>2. HandedOver(x, r) \/ \E o \in task[x][b].owed : o.to = r
      BY <1>1, <1>2, <1>6, <2>1, <2>2, <3>1 DEF DeliveryInv
    <3> QED
      BY <1>3, <1>6, <2>1, <2>2, <3>2
  <2>3. CASE task'[x][b] # task[x][b]
    <3>1. HandedOver(x, r) \/ \E o \in task'[x][b].owed : o.to = r
      BY <1>6, <2>3
    <3> QED
      BY <1>3, <1>6, <2>1, <3>1
  <2> QED
    BY <2>2, <2>3
<1>7. ASSUME At(x, "send", "post")', NEW r \in task'[x]["send"].audience, keys'[r] = 1
      PROVE  \E e \in envelopes' : e.from = x /\ e.to = r /\ e.index <= task'[x]["send"].before
  <2>1. r \in Devices
    <3>1. "send" \in Activities
      BY DEF Activities
    <3> QED
      BY <3>1 DEF ChatTypeOK, Tasks
  <2>2. CASE task'[x]["send"] = task[x]["send"]
    <3>1. At(x, "send", "post")
      BY <1>7, <2>2 DEF At
    <3>2. PICK e \in envelopes : e.from = x /\ e.to = r /\ e.index <= task[x]["send"].before
      BY <1>1, <1>2, <1>7, <2>1, <2>2, <3>1 DEF DeliveryInv
    <3> QED
      BY <1>7, <2>2, <3>2
  <2>3. CASE task'[x]["send"] # task[x]["send"]
    BY <1>7, <2>3
  <2> QED
    BY <2>2, <2>3
<1> QED
  BY <1>5, <1>6, <1>7

LEMMA FreshKept ==
    ASSUME ChatTypeOK, Onward, messages' = messages, NEW s \in Devices, NEW d \in Devices,
           keys'[d] = keys[d], NEW c, NEW v, Fresh(s, d, c),
           c.index \in Nat, v.index \in Nat, v.gen = c.gen, c.index <= v.index
    PROVE  \A p \in Stored' :
               messages'[p].from = s /\ messages'[p].gen = v.gen /\ messages'[p].index >= v.index =>
                   messages'[p].knew[d] = keys'[d] \/ "unsure" \in trouble'[s]
<1> SUFFICES ASSUME NEW p \in Stored, messages[p].from = s, messages[p].gen = v.gen,
                    messages[p].index >= v.index
             PROVE  messages[p].knew[d] = keys'[d] \/ "unsure" \in trouble'[s]
  BY DEF Stored
<1>1. messages[p].index \in Nat
  BY ChatFacts DEF Rows
<1>2. messages[p].index >= c.index
  BY <1>1
<1> QED
  BY <1>2 DEF Fresh, Onward

LEMMA SecrecyKept ==
    ASSUME ChatTypeOK, ChatTypeOK', KeysInv, SecrecyInv, Onward, messages' = messages,
           \A x \in Devices : keys'[x] = keys[x] \/ \A s \in Devices : chains'[x][s] = NoRow,
           \A x \in Devices : known'[x] \in {known[x], keys'[x]},
           \A e \in envelopes' \ envelopes : e.pk <= known[e.to] /\ Fresh(e.from, e.to, e),
           \A x \in Devices, b \in Activities : \A e \in task'[x][b].inbound :
               e \in task[x][b].inbound \/ (e \in envelopes /\ e.to = x),
           \A x, s \in Devices :
               \/ chains'[x][s] = NoRow
               \/ chains'[x][s] = chains[x][s]
               \/ /\ chains[x][s] # NoRow
                  /\ chains'[x][s].gen = chains[x][s].gen
                  /\ chains'[x][s].index >= chains[x][s].index
               \/ \E b \in Activities : \E e \in task[x][b].inbound :
                      /\ e.from = s /\ e.pk = keys[x]
                      /\ chains'[x][s].gen = e.gen /\ chains'[x][s].index = e.index
    PROVE  SecrecyInv'
<1>1. \A x \in Devices : keys[x] \in Nat /\ keys'[x] \in Nat /\ known[x] \in Nat /\ known'[x] \in Nat
                         /\ keys[x] <= keys'[x] /\ known[x] <= keys[x] /\ known[x] <= known'[x]
  BY DEF ChatTypeOK, Onward, KeysInv
<1>2. ASSUME NEW e \in envelopes', e.pk = keys'[e.to]
      PROVE  Fresh(e.from, e.to, e)'
  <2>1. e.from \in Devices /\ e.to \in Devices /\ e.index \in Nat
    BY DEF ChatTypeOK, Envelopes
  <2>2. e.pk <= known[e.to]
    BY <2>1, <1>1 DEF KeysInv
  <2>3. keys'[e.to] = keys[e.to]
    BY <1>1, <1>2, <2>1, <2>2
  <2>4. Fresh(e.from, e.to, e)
    BY <1>2, <2>3 DEF SecrecyInv
  <2> QED
    BY <2>1, <2>3, <2>4, FreshKept DEF Fresh
<1>3. ASSUME NEW x \in Devices, NEW b \in Activities, NEW e \in task'[x][b].inbound,
             e.pk = keys'[x]
      PROVE  Fresh(e.from, x, e)'
  <2>1. e \in Envelopes
    BY DEF ChatTypeOK, Tasks
  <2>2. e.from \in Devices /\ e.index \in Nat
    BY <2>1 DEF Envelopes
  <2>3. e.pk <= known[x]
    BY <1>1, <1>3 DEF KeysInv
  <2>4. keys'[x] = keys[x]
    BY <1>1, <1>3, <2>3
  <2>5. Fresh(e.from, x, e)
    BY <1>3, <2>4 DEF SecrecyInv
  <2> QED
    BY <2>2, <2>4, <2>5, FreshKept DEF Fresh
<1>4. ASSUME NEW x \in Devices, NEW s \in Devices, chains'[x][s] # NoRow
      PROVE  (known[x] = keys[x] /\ Fresh(s, x, chains[x][s]))'
  <2>1. keys'[x] = keys[x]
    BY <1>4
  <2>2. chains'[x][s] \in Chains
    BY <1>4 DEF ChatTypeOK
  <2>3. chains'[x][s].index \in Nat
    BY <2>2 DEF Chains
  <2>4. CASE chains[x][s] # NoRow /\ (chains'[x][s] = chains[x][s]
             \/ (/\ chains'[x][s].gen = chains[x][s].gen
                 /\ chains'[x][s].index >= chains[x][s].index))
    <3>1. chains[x][s] \in Chains
      BY <2>4 DEF ChatTypeOK
    <3>2. chains[x][s].index \in Nat
      BY <3>1 DEF Chains
    <3>3. known[x] = keys[x] /\ Fresh(s, x, chains[x][s])
      BY <2>4 DEF SecrecyInv
    <3>4. chains'[x][s].gen = chains[x][s].gen /\ chains[x][s].index <= chains'[x][s].index
      BY <2>3, <2>4, <3>2
    <3>5. Fresh(s, x, chains[x][s])'
      BY <2>1, <2>3, <3>2, <3>3, <3>4, FreshKept DEF Fresh
    <3> QED
      BY <2>1, <3>3, <3>5
  <2>5. CASE \E b \in Activities : \E e \in task[x][b].inbound :
                 /\ e.from = s /\ e.pk = keys[x]
                 /\ chains'[x][s].gen = e.gen /\ chains'[x][s].index = e.index
    <3>1. PICK b \in Activities : \E e \in task[x][b].inbound :
                 /\ e.from = s /\ e.pk = keys[x]
                 /\ chains'[x][s].gen = e.gen /\ chains'[x][s].index = e.index
      BY <2>5
    <3>2. PICK e \in task[x][b].inbound :
                 /\ e.from = s /\ e.pk = keys[x]
                 /\ chains'[x][s].gen = e.gen /\ chains'[x][s].index = e.index
      BY <3>1
    <3>3. e.pk \in 1..known[x] /\ Fresh(s, x, e)
      BY <3>2 DEF KeysInv, SecrecyInv
    <3>4. known'[x] = keys'[x]
      BY <1>1, <2>1, <3>2, <3>3
    <3>5. Fresh(s, x, chains[x][s])'
      <4>1. e.index \in Nat
        BY <1>4, ChatFacts DEF Tasks, Envelopes
      <4> QED
        BY <2>1, <2>3, <3>2, <3>3, <4>1, FreshKept DEF Fresh
    <3> QED
      BY <3>4, <3>5
  <2> QED
    BY <1>4, <2>4, <2>5
<1> QED
  BY <1>2, <1>3, <1>4 DEF SecrecyInv

LEMMA CursorKept ==
    ASSUME ChatTypeOK, ChatTypeOK', CursorInv, messages' = messages,
           \A x \in Devices :
               /\ \A p \in Stored : p \in log[x] \cup refused[x] \cup pending[x] \cup passed[x] =>
                      messages[p].from = x
                      \/ p \in log'[x] \cup refused'[x] \cup pending'[x] \cup passed'[x]
               /\ log'[x] \cup pending'[x] \subseteq log[x] \cup pending[x]
               /\ cursor'[x] = cursor[x]
               /\ screen'[x] # "closed" => screen[x] # "closed"
               /\ At(x, "poll", "drain")' =>
                      \/ task'[x]["poll"] = task[x]["poll"]
                      \/ /\ screen[x] # "closed"
                         /\ task'[x]["poll"].since = cursor[x]
                         /\ task'[x]["poll"].upto = Len(messages)
    PROVE  CursorInv'
<1>0. Len(messages) \in Nat
  BY ChatFacts
<1>1. \A x \in Devices, n \in 0..Len(messages) : Covered(x, n) => Covered(x, n)'
  <2> SUFFICES ASSUME NEW x \in Devices, NEW n \in 0..Len(messages), Covered(x, n),
                      NEW p \in 1..n, messages[p].from # x
               PROVE  p \in log'[x] \cup refused'[x] \cup pending'[x] \cup passed'[x]
    BY DEF Covered
  <2>1. p \in Stored
    BY <1>0 DEF Stored
  <2> QED
    BY <2>1 DEF Covered
<1> SUFFICES ASSUME NEW x \in Devices
             PROVE  /\ screen'[x] # "closed" => Covered(x, cursor[x])'
                    /\ \A q \in log'[x] \cup pending'[x] : Covered(x, q)'
                    /\ At(x, "poll", "drain")' =>
                           /\ Covered(x, task[x]["poll"].since)'
                           /\ task'[x]["poll"].since <= task'[x]["poll"].upto
  BY Zenon DEF CursorInv
<1>2. cursor[x] \in 0..Len(messages) /\ task[x]["poll"].since \in 0..Len(messages)
      /\ \A q \in log[x] \cup pending[x] : q \in 0..Len(messages)
  <2>1. "poll" \in Activities
    BY DEF Activities
  <2>2. task[x]["poll"].since \in 0..Len(messages)
    BY <2>1, ChatFacts DEF Tasks
  <2> QED
    BY <1>0, <2>2 DEF ChatTypeOK, Stored
<1>3. screen'[x] # "closed" => Covered(x, cursor[x])'
  <2>1. screen'[x] # "closed" => Covered(x, cursor[x])
    BY DEF CursorInv
  <2>2. screen'[x] # "closed" => \A p \in 1..cursor[x] :
            messages[p].from # x => p \in log'[x] \cup refused'[x] \cup pending'[x] \cup passed'[x]
    BY <1>1, <1>2, <2>1 DEF Covered
  <2> QED
    BY <2>2 DEF Covered
<1>4. \A q \in log'[x] \cup pending'[x] : Covered(x, q)'
  BY <1>1, <1>2 DEF CursorInv
<1>5. ASSUME At(x, "poll", "drain")'
      PROVE  /\ Covered(x, task[x]["poll"].since)'
             /\ task'[x]["poll"].since <= task'[x]["poll"].upto
  <2>1. CASE task'[x]["poll"] = task[x]["poll"]
    <3>1. At(x, "poll", "drain")
      BY <1>5, <2>1 DEF At
    <3>2. Covered(x, task[x]["poll"].since) /\ task[x]["poll"].since <= task[x]["poll"].upto
      BY <3>1 DEF CursorInv
    <3>3. \A p \in 1..task[x]["poll"].since :
            messages[p].from # x => p \in log'[x] \cup refused'[x] \cup pending'[x] \cup passed'[x]
      BY <1>1, <1>2, <3>2 DEF Covered
    <3> QED
      BY <2>1, <3>2, <3>3 DEF Covered
  <2>2. CASE task'[x]["poll"] # task[x]["poll"]
    <3>1. screen[x] # "closed" /\ task'[x]["poll"].since = cursor[x]
          /\ task'[x]["poll"].upto = Len(messages)
      BY <1>5, <2>2
    <3>2. Covered(x, cursor[x])
      BY <3>1 DEF CursorInv
    <3>3. \A p \in 1..cursor[x] :
            messages[p].from # x => p \in log'[x] \cup refused'[x] \cup pending'[x] \cup passed'[x]
      BY <1>1, <1>2, <3>2 DEF Covered
    <3> QED
      BY <1>0, <1>2, <3>1, <3>3 DEF Covered
  <2> QED
    BY <2>1, <2>2
<1> QED
  BY <1>3, <1>4, <1>5

(***************************************************************************)
(* One lemma per action.                                                   *)
(***************************************************************************)

\* The sets the types are built from do not move with the messages standing still.
LEMMA SameTypes ==
    ASSUME messages' = messages
    PROVE  Stored' = Stored /\ Pasts' = Pasts /\ Tasks' = Tasks
<1>1. Stored' = Stored
  BY DEF Stored
<1>2. Pasts' = Pasts
  BY <1>1 DEF Pasts
<1> QED
  BY <1>1, <1>2 DEF Tasks

\* GET /keys.
LEMMA FetchKeysKeeps ==
    ASSUME ChatInv, NEW d \in Devices, NEW a \in Activities, FetchKeys(d, a)
    PROVE  ChatInv'
<1>0. /\ ChatTypeOK /\ KeysInv /\ TaskInv /\ PositionInv /\ DeliveryInv /\ SecrecyInv /\ CursorInv
      /\ LockedOutOnlyByMishap /\ ReadsNothingEarlier /\ OwedInv
  BY DEF ChatInv
<1>1. /\ Become(d, a, Answer(d)) /\ screen[d] # "closed"
      /\ known' = known /\ envelopes' = envelopes /\ history' = history /\ messages' = messages
      /\ keys' = keys /\ own' = own /\ chains' = chains /\ log' = log /\ pending' = pending
      /\ cursor' = cursor /\ screen' = screen /\ refused' = refused /\ handed' = handed
      /\ passed' = passed /\ trouble' = trouble /\ mishaps' = mishaps
  BY DEF FetchKeys, server, device, seen
<1>2. /\ task'[d][a] = Answer(d) /\ Answer(d) \in Tasks /\ Answer(d).step = "settle"
      /\ Answer(d).owed = Owed(d)
      /\ Answer(d).audience = {r \in Devices \ {d} : known[r] # 0}
      /\ Answer(d).inbound = {e \in envelopes : e.to = d /\ chains[d][e.from] = NoRow}
      /\ task' \in [Devices -> [Activities -> Tasks]]
      /\ \A b \in Activities : b # a => task'[d][b] = task[d][b]
      /\ \A x \in Devices : x # d => task'[x] = task[x]
  BY <1>0, <1>1, AnswerIs, BecomeIs
<1>3. ChatTypeOK'
  BY <1>0, <1>1, <1>2, SameTypes DEF ChatTypeOK
<1>4. Onward
  BY <1>0, <1>1 DEF Onward, KeysInv, ChatTypeOK
<1>5. \A x \in Devices, b \in Activities :
          task'[x][b] = task[x][b] \/ (x = d /\ b = a)
  BY <1>0, <1>1, OtherTasks
<1>6. KeysInv'
  <2>1. ASSUME NEW x \in Devices, NEW b \in Activities
        PROVE  /\ \A o \in task'[x][b].owed \ task[x][b].owed : o.pk \in 1..known[o.to]
               /\ \A e \in task'[x][b].inbound \ task[x][b].inbound : e \in envelopes /\ e.to = x
    <3>1. \A o \in Owed(d) : o.pk \in 1..known[o.to]
      BY <1>0 DEF Owed, ChatTypeOK
    <3> QED
      BY <1>2, <1>5, <3>1
  <2> QED
    BY <1>0, <1>1, <1>3, <1>4, <2>1, KeysKept
<1>7. TaskInv'
  <2>1. /\ task[d]["send"].step = "answer" =>
                task[d]["send"].place \in Stored /\ messages[task[d]["send"].place].from = d
        /\ task[d]["send"].step = "post" => task[d]["send"].before < own[d]
    BY <1>0 DEF TaskInv, At
  <2> QED
    BY <1>0, <1>1, <1>2, SameTypes DEF TaskInv, At, Activities
<1>8. PositionInv'
  <2>1. ASSUME NEW x \in Devices
        PROVE  /\ own[x] <= own'[x]
               /\ At(x, "send", "post")' => task'[x]["send"] = task[x]["send"]
    BY <1>0, <1>1, <1>2, <1>5 DEF At, Activities, ChatTypeOK
  <2>2. \A x \in Devices : At(x, "send", "post")' => At(x, "send", "post")
    BY <2>1 DEF At
  <2> QED
    BY <1>0, <1>1, <1>3, <1>4, <2>1, <2>2, PositionKept
<1>9. DeliveryInv'
  <2>1. \A r \in Answer(d).audience : HandedOver(d, r) \/ \E o \in Owed(d) : o.to = r
    <3> SUFFICES ASSUME NEW r \in Devices \ {d}, known[r] # 0, ~HandedOver(d, r)
                 PROVE  \E o \in Owed(d) : o.to = r
      BY <1>2
    <3>1. r \notin Sent(d)
      BY DEF Sent, HandedOver
    <3>2. [to |-> r, pk |-> known[r]] \in Owed(d)
      BY <3>1 DEF Owed
    <3> QED
      BY <3>2
  <2>2. ASSUME NEW x \in Devices
        PROVE  /\ own[x] <= own'[x]
               /\ \A b \in Activities : At(x, b, "settle")' =>
                      \/ task'[x][b] = task[x][b]
                      \/ \A r \in task'[x][b].audience : keys'[r] = 1 =>
                             HandedOver(x, r) \/ \E o \in task'[x][b].owed : o.to = r
               /\ At(x, "send", "post")' => task'[x]["send"] = task[x]["send"]
    BY <1>0, <1>1, <1>2, <1>5, <2>1 DEF At, Activities, ChatTypeOK
  <2> QED
    BY <1>0, <1>1, <1>3, <1>4, <2>2, DeliveryKept
<1>10. SecrecyInv'
  <2>1. \A x \in Devices, b \in Activities : \A e \in task'[x][b].inbound :
               e \in task[x][b].inbound \/ (e \in envelopes /\ e.to = x)
    <3>1. \A e \in task'[d][a].inbound : e \in envelopes /\ e.to = d
      BY <1>2
    <3> QED
      BY <1>5, <3>1
  <2> QED
    BY <1>0, <1>1, <1>3, <1>4, <2>1, SecrecyKept
<1>11. CursorInv'
  <2>1. \A x \in Devices : At(x, "poll", "drain")' => task'[x]["poll"] = task[x]["poll"]
    BY <1>2, <1>5 DEF At, Activities
  <2> QED
    BY <1>0, <1>1, <1>3, <2>1, CursorKept
<1>12. LockedOutOnlyByMishap' /\ ReadsNothingEarlier'
  BY <1>0, <1>1 DEF LockedOutOnlyByMishap, ReadsNothingEarlier
<1>13. OwedInv'
  <2>1. \A o, x \in Owed(d) : o.to = x.to => o = x
    BY DEF Owed
  <2> SUFFICES ASSUME NEW x \in Devices, NEW b \in Activities,
                      NEW o \in task'[x][b].owed, NEW z \in task'[x][b].owed, o.to = z.to
               PROVE  o = z
    BY Zenon DEF OwedInv
  <2>2. CASE task'[x][b] = task[x][b]
    BY <1>0, <2>2 DEF OwedInv
  <2>3. CASE x = d /\ b = a
    BY <1>2, <2>1, <2>3
  <2> QED
    BY <1>5, <2>2, <2>3
<1> QED
  BY <1>3, <1>6, <1>7, <1>8, <1>9, <1>10, <1>11, <1>12, <1>13, Zenon DEF ChatInv

LEMMA DrainingIs ==
    ASSUME NEW i, NEW n, NEW t, t = [Idle EXCEPT !.step = "drain", !.since = i, !.upto = n]
    PROVE  t = [step |-> "drain", audience |-> {}, owed |-> {}, inbound |-> {}, past |-> NoRow,
                siblings |-> {}, since |-> i, upto |-> n, before |-> 0, place |-> 0]
  BY DEF Idle

\* An activity goes to another step, and takes nothing with it but what a poll was given.
LEMMA TaskMoves ==
    ASSUME ChatInv, NEW d \in Devices, NEW a \in Activities, NEW t \in Tasks, Become(d, a, t),
           UNCHANGED <<server, device, seen>>, mishaps' \in Nat,
           t.owed = {}, t.inbound = {}, t.step \notin {"settle", "post", "answer"},
           screen[d] = "closed" => t.step = "idle",
           t.step = "drain" =>
               a = "poll" /\ screen[d] # "closed" /\ t.since = cursor[d] /\ t.upto = Len(messages)
    PROVE  ChatInv'
<1>0. /\ ChatTypeOK /\ KeysInv /\ TaskInv /\ PositionInv /\ DeliveryInv /\ SecrecyInv /\ CursorInv
      /\ LockedOutOnlyByMishap /\ ReadsNothingEarlier /\ OwedInv
  BY DEF ChatInv
<1>1. /\ known' = known /\ envelopes' = envelopes /\ history' = history /\ messages' = messages
      /\ keys' = keys /\ own' = own /\ chains' = chains /\ log' = log /\ pending' = pending
      /\ cursor' = cursor /\ screen' = screen /\ refused' = refused /\ handed' = handed
      /\ passed' = passed /\ trouble' = trouble
  BY DEF server, device, seen
<1>2. /\ task'[d][a] = t /\ task' \in [Devices -> [Activities -> Tasks]]
      /\ \A b \in Activities : b # a => task'[d][b] = task[d][b]
      /\ \A x \in Devices : x # d => task'[x] = task[x]
  BY <1>0, BecomeIs
<1>3. ChatTypeOK'
  BY <1>0, <1>1, <1>2, SameTypes DEF ChatTypeOK
<1>4. Onward
  BY <1>0, <1>1 DEF Onward, KeysInv, ChatTypeOK
<1>5. \A x \in Devices, b \in Activities : task'[x][b] = task[x][b] \/ (x = d /\ b = a)
  BY <1>0, OtherTasks
<1>6. KeysInv'
  <2>1. \A x \in Devices, b \in Activities :
            /\ task'[x][b].owed \ task[x][b].owed = {}
            /\ task'[x][b].inbound \ task[x][b].inbound = {}
    BY <1>2, <1>5
  <2> QED
    BY <1>0, <1>1, <1>3, <1>4, <2>1, KeysKept
<1>7. TaskInv'
  <2>1. /\ task[d]["send"].step = "answer" =>
                task[d]["send"].place \in Stored /\ messages[task[d]["send"].place].from = d
        /\ task[d]["send"].step = "post" => task[d]["send"].before < own[d]
    BY <1>0 DEF TaskInv, At
  <2> QED
    BY <1>0, <1>1, <1>2, SameTypes DEF TaskInv, At, Activities
<1>8. PositionInv'
  <2>1. \A x \in Devices :
               /\ own[x] <= own'[x]
               /\ At(x, "send", "post")' =>
                      At(x, "send", "post") /\ task'[x]["send"] = task[x]["send"]
    BY <1>0, <1>1, <1>2, <1>5 DEF At, Activities, ChatTypeOK
  <2> QED
    BY <1>0, <1>1, <1>3, <1>4, <2>1, PositionKept
<1>9. DeliveryInv'
  <2>1. \A x \in Devices :
               /\ own[x] <= own'[x]
               /\ \A b \in Activities : At(x, b, "settle")' => task'[x][b] = task[x][b]
               /\ At(x, "send", "post")' => task'[x]["send"] = task[x]["send"]
    BY <1>0, <1>1, <1>2, <1>5 DEF At, Activities, ChatTypeOK
  <2> QED
    BY <1>0, <1>1, <1>3, <1>4, <2>1, DeliveryKept
<1>10. SecrecyInv'
  <2>1. \A x \in Devices, b \in Activities : \A e \in task'[x][b].inbound :
               e \in task[x][b].inbound
    BY <1>2, <1>5
  <2> QED
    BY <1>0, <1>1, <1>3, <1>4, <2>1, SecrecyKept
<1>11. CursorInv'
  <2>1. \A x \in Devices : At(x, "poll", "drain")' =>
            \/ task'[x]["poll"] = task[x]["poll"]
            \/ /\ screen[x] # "closed"
               /\ task'[x]["poll"].since = cursor[x]
               /\ task'[x]["poll"].upto = Len(messages)
    BY <1>2, <1>5 DEF At, Activities
  <2> QED
    BY <1>0, <1>1, <1>3, <2>1, CursorKept
<1>12. LockedOutOnlyByMishap' /\ ReadsNothingEarlier'
  BY <1>0, <1>1 DEF LockedOutOnlyByMishap, ReadsNothingEarlier
<1>13. OwedInv'
  <2>1. \A x \in Devices, b \in Activities :
            task'[x][b].owed = task[x][b].owed \/ task'[x][b].owed = {}
    BY <1>2, <1>5
  <2> QED
    BY <1>0, <2>1, OwedKept
<1> QED
  BY <1>3, <1>6, <1>7, <1>8, <1>9, <1>10, <1>11, <1>12, <1>13, Zenon DEF ChatInv

\* GET /messages and its loss.
LEMMA PollKeeps ==
    ASSUME ChatInv, NEW d \in Devices, Poll(d) \/ PollLost(d)
    PROVE  ChatInv'
<1>0. ChatTypeOK /\ "poll" \in Activities
  BY DEF ChatInv, Activities
<1>1. CASE Poll(d)
  <2> DEFINE t == [Idle EXCEPT !.step = "drain", !.since = cursor[d], !.upto = Len(messages)]
  <2>1. /\ Become(d, "poll", t) /\ screen[d] # "closed"
        /\ UNCHANGED <<server, device, seen>> /\ mishaps' = mishaps
    BY <1>1 DEF Poll
  <2>2. t = [step |-> "drain", audience |-> {}, owed |-> {}, inbound |-> {}, past |-> NoRow,
             siblings |-> {}, since |-> cursor[d], upto |-> Len(messages),
             before |-> 0, place |-> 0]
    BY DrainingIs
  <2>3. cursor[d] \in 0..Len(messages) /\ Len(messages) \in Nat /\ NoRow \in Pasts /\ mishaps \in Nat
    BY <1>0, ChatFacts DEF ChatTypeOK, Pasts
  <2> HIDE DEF t
  <2>4. t \in Tasks
    BY <2>2, <2>3 DEF Tasks, Steps
  <2>5. /\ t.step = "drain" /\ t.owed = {} /\ t.inbound = {}
        /\ t.since = cursor[d] /\ t.upto = Len(messages)
    BY <2>2
  <2> QED
    BY <1>0, <2>1, <2>3, <2>4, <2>5, TaskMoves
<1>2. CASE PollLost(d)
  <2>1. Become(d, "poll", Idle) /\ UNCHANGED <<server, device, seen>> /\ mishaps' \in Nat
    BY <1>0, <1>2 DEF PollLost, Mishap, ChatTypeOK
  <2> QED
    BY <1>0, <2>1, IdleIs, TaskMoves
<1> QED
  BY <1>1, <1>2

\* The tab is closed, and perhaps its stores are cleared.
LEMMA LeaveKeeps ==
    ASSUME ChatInv, NEW d \in Devices, CloseChat(d) \/ Wipe(d)
    PROVE  ChatInv'
<1>0. /\ ChatTypeOK /\ KeysInv /\ TaskInv /\ PositionInv /\ DeliveryInv /\ SecrecyInv /\ CursorInv
      /\ LockedOutOnlyByMishap /\ ReadsNothingEarlier /\ OwedInv
  BY DEF ChatInv
<1>1. /\ Leave(d) /\ mishaps' \in Nat
      /\ known' = known /\ envelopes' = envelopes /\ history' = history /\ messages' = messages
      /\ cursor' = cursor /\ refused' = refused /\ passed' = passed /\ trouble' = trouble
  BY <1>0 DEF CloseChat, Wipe, Mishap, server, seen, ChatTypeOK
<1>2. /\ task' \in [Devices -> [Activities -> Tasks]]
      /\ \A b \in Activities : task'[d][b] = Idle
      /\ \A x \in Devices : x # d => task'[x] = task[x] /\ screen'[x] = screen[x]
      /\ screen' \in [Devices -> {"closed", "setup", "ready", "failed"}] /\ screen'[d] = "closed"
  BY <1>0, <1>1, IdleIs DEF Leave, Put, ChatTypeOK
<1>3. /\ keys' \in [Devices -> Nat] /\ own' \in [Devices -> Nat]
      /\ chains' \in [Devices -> [Devices -> Chains \cup {NoRow}]]
      /\ log' \in [Devices -> SUBSET Stored] /\ pending' \in [Devices -> SUBSET Stored]
      /\ handed' \in [Devices -> SUBSET Stored]
      /\ \A x \in Devices : x # d =>
             /\ keys'[x] = keys[x] /\ own'[x] = own[x] /\ chains'[x] = chains[x]
             /\ log'[x] = log[x] /\ pending'[x] = pending[x] /\ handed'[x] = handed[x]
      /\ \/ /\ keys'[d] = keys[d] /\ own'[d] = own[d] /\ chains'[d] = chains[d]
            /\ log'[d] = log[d] /\ pending'[d] = pending[d] /\ handed'[d] = handed[d]
         \/ /\ keys'[d] = keys[d] + 1 /\ \A s \in Devices : chains'[d][s] = NoRow
            /\ log'[d] = {} /\ pending'[d] = {}
  <2>1. CASE CloseChat(d)
    BY <1>0, <2>1 DEF CloseChat, seen, ChatTypeOK
  <2>2. CASE Wipe(d)
    <3>1. /\ keys' = Put(keys, d, keys[d] + 1) /\ own' = Put(own, d, 0)
          /\ chains' = Put(chains, d, [s \in Devices |-> NoRow])
          /\ log' = Put(log, d, {}) /\ pending' = Put(pending, d, {})
          /\ handed' = Put(handed, d, {})
      BY <2>2 DEF Wipe
    <3>2. /\ keys' \in [Devices -> Nat] /\ own' \in [Devices -> Nat] /\ keys'[d] = keys[d] + 1
          /\ \A x \in Devices : x # d => keys'[x] = keys[x] /\ own'[x] = own[x]
      BY <1>0, <3>1 DEF Put, ChatTypeOK
    <3>3. /\ chains' \in [Devices -> [Devices -> Chains \cup {NoRow}]]
          /\ \A x \in Devices : x # d => chains'[x] = chains[x]
          /\ \A s \in Devices : chains'[d][s] = NoRow
      BY <1>0, <3>1 DEF Put, ChatTypeOK
    <3>4. /\ log' \in [Devices -> SUBSET Stored] /\ pending' \in [Devices -> SUBSET Stored]
          /\ handed' \in [Devices -> SUBSET Stored] /\ log'[d] = {} /\ pending'[d] = {}
          /\ \A x \in Devices : x # d =>
                 log'[x] = log[x] /\ pending'[x] = pending[x] /\ handed'[x] = handed[x]
      BY <1>0, <3>1 DEF Put, ChatTypeOK
    <3> QED
      BY <3>2, <3>3, <3>4
  <2> QED
    BY <2>1, <2>2
<1>4. ChatTypeOK'
  BY <1>0, <1>1, <1>2, <1>3, SameTypes DEF ChatTypeOK
<1>5. Onward
  <2>1. \A x \in Devices : keys'[x] = keys[x] \/ keys'[x] = keys[x] + 1
    BY <1>3
  <2>2. \A x \in Devices : keys[x] \in Nat /\ known[x] \in Nat /\ known[x] <= keys[x]
    BY <1>0 DEF KeysInv, ChatTypeOK
  <2> QED
    BY <1>1, <2>1, <2>2 DEF Onward
<1>6. \A x \in Devices, b \in Activities :
          task'[x][b] = task[x][b] \/ (task'[x][b] = Idle /\ x = d)
  BY <1>2
<1>7. KeysInv'
  <2>1. \A x \in Devices, b \in Activities :
            /\ task'[x][b].owed \ task[x][b].owed = {}
            /\ task'[x][b].inbound \ task[x][b].inbound = {}
    BY <1>0, <1>6, IdleIs
  <2> QED
    BY <1>0, <1>1, <1>4, <1>5, <2>1, KeysKept
<1>8. TaskInv'
  <2> SUFFICES ASSUME NEW x \in Devices
               PROVE  /\ screen'[x] = "closed" => \A b \in Activities : At(x, b, "idle")'
                      /\ \A b \in Activities \ {"send"} : ~At(x, b, "post")' /\ ~At(x, b, "answer")'
                      /\ At(x, "send", "answer")' =>
                             /\ task'[x]["send"].place \in Stored
                             /\ messages[task'[x]["send"].place].from = x
                      /\ At(x, "send", "post")' => task'[x]["send"].before < own'[x]
    BY <1>1, SameTypes DEF TaskInv
  <2>1. CASE x = d
    BY <1>0, <1>2, <2>1, IdleIs DEF At, Activities
  <2>2. CASE x # d
    <3>1. task'[x] = task[x] /\ screen'[x] = screen[x] /\ own'[x] = own[x]
      BY <1>2, <1>3, <2>2
    <3>2. /\ screen[x] = "closed" => \A b \in Activities : task[x][b].step = "idle"
          /\ \A b \in Activities \ {"send"} : task[x][b].step # "post" /\ task[x][b].step # "answer"
          /\ task[x]["send"].step = "answer" =>
                 task[x]["send"].place \in Stored /\ messages[task[x]["send"].place].from = x
          /\ task[x]["send"].step = "post" => task[x]["send"].before < own[x]
      BY <1>0, Zenon DEF TaskInv, At
    <3> QED
      BY <3>1, <3>2 DEF At
  <2> QED
    BY <2>1, <2>2
<1>9. \A x \in Devices, b \in Activities :
          task'[x][b].step # "idle" => task'[x][b] = task[x][b] /\ x # d
  BY <1>0, <1>2, IdleIs
<1>10. PositionInv'
  <2>1. \A x \in Devices :
               /\ keys'[x] = keys[x] => own[x] <= own'[x]
               /\ At(x, "send", "post")' =>
                      At(x, "send", "post") /\ task'[x]["send"] = task[x]["send"]
    <3>1. \A x \in Devices : keys'[x] = keys[x] => own[x] = own'[x]
      BY <1>0, <1>3 DEF ChatTypeOK
    <3> QED
      BY <1>0, <1>9, <3>1 DEF At, Activities, ChatTypeOK
  <2> QED
    BY <1>0, <1>1, <1>4, <1>5, <2>1, PositionKept
<1>11. DeliveryInv'
  <2>1. \A x \in Devices :
               /\ keys'[x] = 1 => own[x] <= own'[x]
               /\ \A b \in Activities : At(x, b, "settle")' => task'[x][b] = task[x][b]
               /\ At(x, "send", "post")' => task'[x]["send"] = task[x]["send"]
    BY <1>0, <1>3, <1>9 DEF At, Activities, ChatTypeOK, KeysInv
  <2> QED
    BY <1>0, <1>1, <1>4, <1>5, <2>1, DeliveryKept
<1>12. SecrecyInv'
  <2>1. \A x \in Devices, b \in Activities : \A e \in task'[x][b].inbound :
               e \in task[x][b].inbound
    BY <1>0, <1>6, IdleIs
  <2>2. \A x, s \in Devices : chains'[x][s] = NoRow \/ chains'[x][s] = chains[x][s]
    BY <1>3
  <2>3. \A x \in Devices : keys'[x] = keys[x] \/ \A s \in Devices : chains'[x][s] = NoRow
    BY <1>3
  <2> QED
    BY <1>0, <1>1, <1>4, <1>5, <2>1, <2>2, <2>3, SecrecyKept
<1>13. CursorInv'
  <2> SUFFICES ASSUME NEW x \in Devices
               PROVE  /\ screen'[x] # "closed" => Covered(x, cursor[x])'
                      /\ \A q \in log'[x] \cup pending'[x] : Covered(x, q)'
                      /\ At(x, "poll", "drain")' =>
                             /\ Covered(x, task[x]["poll"].since)'
                             /\ task'[x]["poll"].since <= task'[x]["poll"].upto
    BY Zenon DEF CursorInv
  <2>1. CASE log'[x] = log[x] /\ pending'[x] = pending[x]
    <3>1. \A n : Covered(x, n) => Covered(x, n)'
      BY <1>1, <2>1 DEF Covered
    <3>2. /\ screen'[x] # "closed" => x # d
          /\ At(x, "poll", "drain")' => x # d
      BY <1>2, <1>9 DEF At, Activities
    <3>3. x # d => screen'[x] = screen[x] /\ task'[x]["poll"] = task[x]["poll"]
      BY <1>2
    <3> QED
      BY <1>0, <1>1, <2>1, <3>1, <3>2, <3>3 DEF CursorInv, At, Covered
  <2>2. CASE x = d /\ log'[d] = {} /\ pending'[d] = {}
    BY <1>2, <1>9, <2>2 DEF At, Activities
  <2> QED
    BY <1>3, <2>1, <2>2
<1>14. LockedOutOnlyByMishap'
  BY <1>0, <1>1, <1>4, <1>5, LockedKept
<1>15. ReadsNothingEarlier'
  <2>1. \A x \in Devices : \A p \in log'[x] \ handed'[x] : keys'[x] = keys[x] /\ p \in log[x] \ handed[x]
    BY <1>3
  <2> QED
    BY <1>0, <1>1, <1>3, <1>5, <2>1, ReadsKept
<1>16. OwedInv'
  <2>1. \A x \in Devices, b \in Activities :
            task'[x][b].owed = task[x][b].owed \/ task'[x][b].owed = {}
    BY <1>0, <1>6, IdleIs
  <2> QED
    BY <1>0, <2>1, OwedKept
<1> QED
  BY <1>4, <1>7, <1>8, <1>10, <1>11, <1>12, <1>13, <1>14, <1>15, <1>16, Zenon DEF ChatInv

\* The chat is opened: the device registers its keys and loads what it stored.
LEMMA OpenChatKeeps ==
    ASSUME ChatInv, NEW d \in Devices, OpenChat(d)
    PROVE  ChatInv'
<1>0. /\ ChatTypeOK /\ KeysInv /\ TaskInv /\ PositionInv /\ DeliveryInv /\ SecrecyInv /\ CursorInv
      /\ LockedOutOnlyByMishap /\ ReadsNothingEarlier /\ OwedInv
  BY DEF ChatInv
<1> DEFINE t == [Idle EXCEPT !.step = "keys"]
           stale == {p \in pending[d] : p <= LastOf(log[d])}
           rekeyed == known[d] \notin {0, keys[d]}
<1>1. /\ messages' = messages /\ keys' = keys /\ own' = own /\ chains' = chains /\ log' = log
      /\ refused' = refused /\ handed' = handed /\ trouble' = trouble /\ mishaps' = mishaps
      /\ Become(d, "timer", t) /\ screen[d] = "closed" /\ screen' = Put(screen, d, "setup")
      /\ cursor' = Put(cursor, d, LastOf(log[d]))
      /\ passed' = Put(passed, d, passed[d] \cup stale) /\ pending' = Put(pending, d, {})
      /\ known' = Put(known, d, keys[d])
      /\ envelopes' = IF rekeyed THEN {e \in envelopes : e.to # d} ELSE envelopes
      /\ history' = IF rekeyed THEN Put(history, d, NoRow) ELSE history
  BY DEF OpenChat, Register
<1>2. "timer" \in Activities /\ t \in Tasks /\ t.step = "keys" /\ t.owed = {} /\ t.inbound = {}
  <2>1. "timer" \in Activities /\ "keys" \in Steps
    BY DEF Activities, Steps
  <2> QED
    BY <1>0, <2>1, IdleButStep
<1> HIDE DEF t
<1>3. /\ task' \in [Devices -> [Activities -> Tasks]] /\ task'[d]["timer"] = t
      /\ \A x \in Devices, b \in Activities :
             task'[x][b] = task[x][b] \/ (x = d /\ b = "timer")
  BY <1>0, <1>1, <1>2, BecomeIs, OtherTasks
<1>4. log[d] \in SUBSET Stored /\ LastOf(log[d]) \in 0..Len(messages)
      /\ (log[d] # {} => LastOf(log[d]) \in log[d]) /\ \A q \in log[d] : q <= LastOf(log[d])
  <2>1. log[d] \in SUBSET Stored
    BY <1>0 DEF ChatTypeOK
  <2> QED
    BY <1>0, <2>1, LastOfIs
<1>5. /\ screen' \in [Devices -> {"closed", "setup", "ready", "failed"}] /\ screen'[d] = "setup"
      /\ cursor' \in [Devices -> 0..Len(messages)] /\ cursor'[d] = LastOf(log[d])
      /\ passed' \in [Devices -> SUBSET Stored] /\ passed'[d] = passed[d] \cup stale
      /\ pending' \in [Devices -> SUBSET Stored] /\ pending'[d] = {}
      /\ known' \in [Devices -> Nat] /\ known'[d] = keys[d]
      /\ \A x \in Devices : x # d => /\ screen'[x] = screen[x] /\ cursor'[x] = cursor[x]
                                     /\ passed'[x] = passed[x] /\ pending'[x] = pending[x]
                                     /\ known'[x] = known[x]
  <2>1. stale \subseteq Stored
    BY <1>0 DEF ChatTypeOK
  <2> HIDE DEF stale
  <2> QED
    BY <1>0, <1>1, <1>4, <2>1 DEF Put, ChatTypeOK
<1>6. /\ envelopes' \subseteq envelopes /\ history' \in [Devices -> Pasts]
      /\ \A e \in envelopes : e.to # d => e \in envelopes'
      /\ ~rekeyed => envelopes' = envelopes
  BY <1>0, <1>1 DEF Put, Pasts, ChatTypeOK
<1>7. ChatTypeOK'
  <2>1. envelopes' \subseteq Envelopes
        /\ \A e, x \in envelopes' : e.from = x.from /\ e.to = x.to => e = x
    BY <1>0, <1>6 DEF ChatTypeOK
  <2> QED
    BY <1>0, <1>1, <1>3, <1>5, <1>6, <2>1, SameTypes DEF ChatTypeOK
<1>8. Onward
  <2>1. \A x \in Devices : /\ keys[x] \in Nat /\ known[x] \in Nat /\ known'[x] \in Nat
                           /\ known[x] <= keys[x] /\ known'[x] \in {known[x], keys[x]}
    BY <1>0, <1>5 DEF KeysInv, ChatTypeOK
  <2> QED
    BY <1>1, <2>1 DEF Onward
<1>9. \A x \in Devices, b \in Activities :
          task'[x][b] = task[x][b] \/ (task'[x][b] = t /\ x = d /\ b = "timer")
  BY <1>3
<1>10. KeysInv'
  <2>1. \A x \in Devices, b \in Activities :
            /\ task'[x][b].owed \ task[x][b].owed = {}
            /\ task'[x][b].inbound \ task[x][b].inbound = {}
    BY <1>2, <1>9
  <2> QED
    BY <1>0, <1>1, <1>6, <1>7, <1>8, <2>1, KeysKept
<1>11. TaskInv'
  <2> SUFFICES ASSUME NEW x \in Devices
               PROVE  /\ screen'[x] = "closed" => \A b \in Activities : At(x, b, "idle")'
                      /\ \A b \in Activities \ {"send"} : ~At(x, b, "post")' /\ ~At(x, b, "answer")'
                      /\ At(x, "send", "answer")' =>
                             /\ task'[x]["send"].place \in Stored
                             /\ messages[task'[x]["send"].place].from = x
                      /\ At(x, "send", "post")' => task'[x]["send"].before < own'[x]
    BY <1>1, SameTypes DEF TaskInv
  <2>1. task'[x]["send"] = task[x]["send"]
    BY <1>9 DEF Activities
  <2>2. screen'[x] = "closed" => \A b \in Activities : At(x, b, "idle")'
    BY <1>0, <1>2, <1>5, <1>9 DEF TaskInv, At
  <2>3. \A b \in Activities \ {"send"} : ~At(x, b, "post")' /\ ~At(x, b, "answer")'
    BY <1>0, <1>2, <1>9 DEF TaskInv, At
  <2>4. /\ At(x, "send", "answer")' =>
               task'[x]["send"].place \in Stored /\ messages[task'[x]["send"].place].from = x
        /\ At(x, "send", "post")' => task'[x]["send"].before < own'[x]
    BY <1>0, <1>1, <2>1, Zenon DEF TaskInv, At
  <2> QED
    BY <2>2, <2>3, <2>4
<1>12. \A x \in Devices, b \in Activities :
          task'[x][b].step # "keys" => task'[x][b] = task[x][b]
  BY <1>2, <1>9
<1>13. PositionInv'
  <2>1. \A x \in Devices :
               /\ own[x] <= own'[x]
               /\ At(x, "send", "post")' =>
                      At(x, "send", "post") /\ task'[x]["send"] = task[x]["send"]
    BY <1>0, <1>1, <1>12 DEF At, Activities, ChatTypeOK
  <2> QED
    BY <1>0, <1>1, <1>7, <1>8, <2>1, PositionKept
<1>14. DeliveryInv'
  <2>1. \A x \in Devices :
               /\ own[x] <= own'[x]
               /\ \A b \in Activities : At(x, b, "settle")' => task'[x][b] = task[x][b]
               /\ At(x, "send", "post")' => task'[x]["send"] = task[x]["send"]
    BY <1>0, <1>1, <1>12 DEF At, Activities, ChatTypeOK
  <2>2. \A e \in envelopes : keys'[e.to] = 1 => e \in envelopes'
    <3> SUFFICES ASSUME NEW e \in envelopes, e.to = d, keys[d] = 1
                 PROVE  e \in envelopes'
      BY <1>1, <1>6
    <3>1. ~rekeyed
      BY <1>0 DEF KeysInv, ChatTypeOK
    <3> QED
      BY <1>6, <3>1
  <2>3. envelopes' \ envelopes = {}
    BY <1>6
  <2> QED
    BY <1>0, <1>7, <1>8, <2>1, <2>2, <2>3, DeliveryKept
<1>15. SecrecyInv'
  <2>1. \A x \in Devices, b \in Activities : \A e \in task'[x][b].inbound :
               e \in task[x][b].inbound
    BY <1>2, <1>9
  <2>2. \A x \in Devices : known'[x] \in {known[x], keys'[x]}
    BY <1>1, <1>5
  <2> QED
    BY <1>0, <1>1, <1>6, <1>7, <1>8, <2>1, <2>2, SecrecyKept
<1>16. CursorInv'
  <2> SUFFICES ASSUME NEW x \in Devices
               PROVE  /\ screen'[x] # "closed" => Covered(x, cursor[x])'
                      /\ \A q \in log'[x] \cup pending'[x] : Covered(x, q)'
                      /\ At(x, "poll", "drain")' =>
                             /\ Covered(x, task[x]["poll"].since)'
                             /\ task'[x]["poll"].since <= task'[x]["poll"].upto
    BY Zenon DEF CursorInv
  <2>1. CASE x # d
    <3>1. \A n : Covered(x, n) => Covered(x, n)'
      BY <1>1, <1>5, <2>1 DEF Covered
    <3>2. screen'[x] = screen[x] /\ cursor'[x] = cursor[x] /\ pending'[x] = pending[x]
          /\ task'[x]["poll"] = task[x]["poll"]
      BY <1>5, <1>9, <2>1 DEF Activities
    <3> QED
      BY <1>0, <1>1, <2>1, <3>1, <3>2 DEF CursorInv, At, Covered
  <2>2. CASE x = d
    <3>1. ASSUME NEW p \in 1..LastOf(log[d]), messages[p].from # d
          PROVE  p \in log[d] \cup refused[d] \cup passed'[d]
      <4>1. LastOf(log[d]) \in log[d]
        BY <1>4 DEF LastOf
      <4>2. p \in log[d] \cup refused[d] \cup pending[d] \cup passed[d]
        BY <1>0, <3>1, <4>1 DEF CursorInv, Covered
      <4> QED
        BY <1>5, <4>2
    <3>2. Covered(d, cursor[d])'
      BY <1>1, <1>5, <3>1 DEF Covered
    <3>3. ASSUME NEW q \in log[d]
          PROVE  Covered(d, q)'
      <4>1. q \in Nat /\ q <= LastOf(log[d]) /\ LastOf(log[d]) \in Nat
        BY <1>4, <1>0, ChatFacts DEF Stored
      <4>2. \A p \in 1..q : p \in 1..LastOf(log[d])
        BY <4>1
      <4> QED
        BY <1>1, <3>1, <4>2 DEF Covered
    <3>4. ~At(d, "poll", "drain")'
      BY <1>0, <1>1, <1>2, <1>9 DEF TaskInv, At, Activities
    <3> QED
      BY <1>1, <1>5, <2>2, <3>2, <3>3, <3>4
  <2> QED
    BY <2>1, <2>2
<1>17. LockedOutOnlyByMishap' /\ ReadsNothingEarlier'
  BY <1>0, <1>1 DEF LockedOutOnlyByMishap, ReadsNothingEarlier
<1>18. OwedInv'
  <2>1. \A x \in Devices, b \in Activities :
            task'[x][b].owed = task[x][b].owed \/ task'[x][b].owed = {}
    BY <1>2, <1>9
  <2> QED
    BY <1>0, <2>1, OwedKept
<1> QED
  BY <1>7, <1>10, <1>11, <1>13, <1>14, <1>15, <1>16, <1>17, <1>18, Zenon DEF ChatInv

\* The local half of a synchronisation, with or without its POST /keys, or not at all.
LEMMA SyncKeeps ==
    ASSUME ChatInv, NEW d \in Devices, NEW a \in Activities,
           SettleKeys(d, a) \/ PublishLost(d, a) \/ SyncLost(d, a)
    PROVE  ChatInv'
<1>0. /\ ChatTypeOK /\ KeysInv /\ TaskInv /\ PositionInv /\ DeliveryInv /\ SecrecyInv /\ CursorInv
      /\ LockedOutOnlyByMishap /\ ReadsNothingEarlier /\ OwedInv
  BY DEF ChatInv
<1>1. /\ known' = known /\ messages' = messages /\ keys' = keys /\ pending' = pending
      /\ refused' = refused /\ mishaps' \in Nat /\ At(d, a, "settle") /\ Continue(d, a)
      /\ \E state \in {"ready", "failed"} : Readied(d, state)
      /\ Settle(d, a) \/ UNCHANGED <<history, chains, log, cursor, handed, passed>>
      /\ \/ Publish(d, a) /\ trouble' = trouble
         \/ envelopes' = envelopes /\ Note(d, {"missed"})
  BY <1>0 DEF SettleKeys, PublishLost, SyncLost, Mishap, server, ChatTypeOK
<1>2. /\ task' \in [Devices -> [Activities -> Tasks]] /\ own' \in [Devices -> Nat]
      /\ \A b \in Activities : b # a => task'[d][b] = task[d][b]
      /\ \A x \in Devices : x # d => task'[x] = task[x] /\ own'[x] = own[x]
      /\ task'[d][a].owed = {} /\ task'[d][a].inbound = {}
      /\ a # "send" => own' = own /\ task'[d][a].step \in {"idle", "again"}
      /\ a = "send" => /\ own'[d] = own[d] + 1
                       /\ task'[d][a].step = "post" /\ task'[d][a].before = own[d]
                       /\ task'[d][a].audience = task[d][a].audience
  BY <1>0, <1>1, ContinueIs
<1>3. /\ log' \in [Devices -> SUBSET Stored] /\ handed' \in [Devices -> SUBSET Stored]
      /\ passed' \in [Devices -> SUBSET Stored]
      /\ cursor' \in [Devices -> 0..Len(messages)]
      /\ history' \in [Devices -> Pasts]
      /\ chains' \in [Devices -> [Devices -> Chains \cup {NoRow}]]
      /\ \A x \in Devices : x # d => /\ log'[x] = log[x] /\ handed'[x] = handed[x]
                                     /\ passed'[x] = passed[x] /\ cursor'[x] = cursor[x]
                                     /\ chains'[x] = chains[x]
      /\ \A s \in Devices :
             \/ chains'[d][s] = chains[d][s]
             \/ \E e \in task[d][a].inbound :
                   /\ e.from = s /\ e.pk = keys[d]
                   /\ chains'[d][s].gen = e.gen /\ chains'[d][s].index = e.index
      /\ \/ /\ log'[d] = log[d] /\ handed'[d] = handed[d]
            /\ passed'[d] = passed[d] /\ cursor'[d] = cursor[d]
         \/ /\ log[d] = {} /\ handed'[d] = log'[d]
            /\ cursor'[d] = LastOf(log'[d])
            /\ passed'[d] = passed[d] \cup (1..LastOf(log'[d]) \ log'[d])
  <2>1. CASE Settle(d, a)
    BY <1>0, <2>1, SettleIs
  <2>2. CASE UNCHANGED <<history, chains, log, cursor, handed, passed>>
    BY <1>0, <2>2 DEF ChatTypeOK
  <2> QED
    BY <1>1, <2>1, <2>2
<1>4. /\ envelopes \subseteq envelopes'
      /\ \A e \in envelopes' \ envelopes :
             \E o \in task[d][a].owed : e = Sealed(d, o) /\ o.to \notin Sent(d)
      /\ trouble'[d] = {} =>
             \A o \in task[d][a].owed : \E e \in envelopes' : e.from = d /\ e.to = o.to
      /\ trouble' \in [Devices -> SUBSET {"missed", "rewound", "unsure"}]
      /\ \A x \in Devices : trouble[x] \subseteq trouble'[x]
      /\ \A x \in Devices : x # d => trouble'[x] = trouble[x]
      /\ trouble'[d] \subseteq trouble[d] \cup {"missed"}
  <2>1. CASE Publish(d, a) /\ trouble' = trouble
    BY <1>0, <2>1, PublishIs DEF ChatTypeOK
  <2>2. CASE envelopes' = envelopes /\ Note(d, {"missed"})
    BY <1>0, <2>2 DEF Note, Put, ChatTypeOK
  <2> QED
    BY <1>1, <2>1, <2>2
<1>5. /\ screen' \in [Devices -> {"closed", "setup", "ready", "failed"}]
      /\ \A x \in Devices : x # d => screen'[x] = screen[x]
      /\ screen[d] # "closed" /\ screen'[d] # "closed"
  <2>1. screen[d] # "closed"
    BY <1>0, <1>1 DEF TaskInv, At
  <2> QED
    BY <1>0, <1>1, <2>1 DEF Readied, Put, ChatTypeOK
<1>6. task[d][a].owed \subseteq Offers /\ task[d][a].inbound \subseteq Envelopes
      /\ task[d][a].audience \subseteq Devices
  BY <1>0, ChatFacts DEF Tasks
<1>7. \A e \in envelopes' \ envelopes :
          /\ e \in Envelopes /\ e.from = d /\ e.gen = keys[d] /\ e.index = own[d]
          /\ e.pk \in 1..known[e.to]
          /\ \A x \in envelopes : ~(x.from = d /\ x.to = e.to)
  <2> SUFFICES ASSUME NEW e \in envelopes' \ envelopes
               PROVE  /\ e \in Envelopes /\ e.from = d /\ e.gen = keys[d] /\ e.index = own[d]
                      /\ e.pk \in 1..known[e.to]
                      /\ \A x \in envelopes : ~(x.from = d /\ x.to = e.to)
    OBVIOUS
  <2>1. PICK o \in task[d][a].owed : e = Sealed(d, o) /\ o.to \notin Sent(d)
    BY <1>4
  <2>2. o \in Offers
    BY <1>6
  <2>3. o.pk \in 1..known[o.to]
    BY <1>0 DEF KeysInv
  <2>4. \A x \in envelopes : ~(x.from = d /\ x.to = o.to)
    BY <2>1 DEF Sent
  <2>5. /\ e \in Envelopes /\ e.from = d /\ e.gen = keys[d] /\ e.index = own[d]
        /\ e.to = o.to /\ e.pk = o.pk
    BY <1>0, <2>1, <2>2, SealedIs
  <2> QED
    BY <2>3, <2>4, <2>5
<1>8. \A e, x \in envelopes' : e.from = x.from /\ e.to = x.to => e = x
  <2> SUFFICES ASSUME NEW e \in envelopes', NEW x \in envelopes', e.from = x.from, e.to = x.to
               PROVE  e = x
    OBVIOUS
  <2>1. CASE e \in envelopes /\ x \in envelopes
    BY <1>0, <2>1 DEF ChatTypeOK
  <2>2. CASE e \notin envelopes /\ x \notin envelopes
    <3>1. PICK o \in task[d][a].owed : e = Sealed(d, o)
      BY <1>4, <2>2
    <3>2. PICK z \in task[d][a].owed : x = Sealed(d, z)
      BY <1>4, <2>2
    <3>3. o.to = z.to
      BY <1>0, <1>6, <3>1, <3>2, SealedIs
    <3>4. o = z
      BY <1>0, <3>3, Zenon DEF OwedInv
    <3> QED
      BY <3>1, <3>2, <3>4
  <2> QED
    BY <1>7, <2>1, <2>2
<1>9. ChatTypeOK'
  BY <1>0, <1>1, <1>2, <1>3, <1>4, <1>5, <1>7, <1>8, SameTypes DEF ChatTypeOK
<1>10. Onward
  BY <1>0, <1>1, <1>4 DEF Onward, KeysInv, ChatTypeOK
<1>11. \A x \in Devices, b \in Activities : task'[x][b] = task[x][b] \/ (x = d /\ b = a)
  BY <1>0, <1>1, OtherTasks DEF Continue
<1>12. \A x \in Devices, b \in Activities :
            /\ task'[x][b].owed = task[x][b].owed \/ task'[x][b].owed = {}
            /\ task'[x][b].inbound = task[x][b].inbound \/ task'[x][b].inbound = {}
  BY <1>2, <1>11
<1>13. KeysInv'
  <2>1. \A x \in Devices, b \in Activities :
            /\ task'[x][b].owed \ task[x][b].owed = {}
            /\ task'[x][b].inbound \ task[x][b].inbound = {}
    BY <1>12
  <2>2. \A e \in envelopes' \ envelopes : e.pk \in 1..known[e.to] /\ e.gen \in 1..keys[e.from]
    BY <1>0, <1>7 DEF KeysInv, ChatTypeOK
  <2> QED
    BY <1>0, <1>1, <1>9, <1>10, <2>1, <2>2, KeysKept
<1>14. TaskInv'
  <2> SUFFICES ASSUME NEW x \in Devices
               PROVE  /\ screen'[x] = "closed" => \A b \in Activities : At(x, b, "idle")'
                      /\ \A b \in Activities \ {"send"} : ~At(x, b, "post")' /\ ~At(x, b, "answer")'
                      /\ At(x, "send", "answer")' =>
                             /\ task'[x]["send"].place \in Stored
                             /\ messages[task'[x]["send"].place].from = x
                      /\ At(x, "send", "post")' => task'[x]["send"].before < own'[x]
    BY <1>1, SameTypes DEF TaskInv
  <2>0. /\ screen[x] = "closed" => \A b \in Activities : task[x][b].step = "idle"
        /\ \A b \in Activities \ {"send"} : task[x][b].step # "post" /\ task[x][b].step # "answer"
        /\ task[x]["send"].step = "answer" =>
               task[x]["send"].place \in Stored /\ messages[task[x]["send"].place].from = x
        /\ task[x]["send"].step = "post" => task[x]["send"].before < own[x]
    BY <1>0, Zenon DEF TaskInv, At
  <2>1. CASE x # d
    <3>1. task'[x] = task[x] /\ screen'[x] = screen[x] /\ own'[x] = own[x]
      BY <1>2, <1>5, <2>1
    <3> QED
      BY <2>0, <3>1 DEF At
  <2>2. CASE x = d
    <3>1. screen'[x] # "closed"
      BY <1>5, <2>2
    <3>2. \A b \in Activities \ {"send"} : ~At(x, b, "post")' /\ ~At(x, b, "answer")'
      BY <1>2, <2>0, <2>2 DEF At
    <3>3. CASE a = "send"
      <4>1. own[d] \in Nat
        BY <1>0 DEF ChatTypeOK
      <4> QED
        BY <1>2, <2>2, <3>1, <3>2, <3>3, <4>1 DEF At
    <3>4. CASE a # "send"
      <4>1. task'[x]["send"] = task[x]["send"] /\ own'[x] = own[x]
        BY <1>2, <2>2, <3>4 DEF Activities
      <4> QED
        BY <2>0, <3>1, <3>2, <4>1 DEF At
    <3> QED
      BY <3>3, <3>4
  <2> QED
    BY <2>1, <2>2
<1>15. OwedInv'
  BY <1>0, <1>12, OwedKept
<1>16. \A x \in Devices : own[x] <= own'[x]
  BY <1>0, <1>2 DEF ChatTypeOK
<1>17. \A x \in Devices : At(x, "send", "post")' =>
           \/ x = d /\ a = "send" /\ task'[x]["send"].before = own[x]
           \/ task'[x]["send"] = task[x]["send"] /\ At(x, "send", "post")
  BY <1>2, <1>11 DEF At, Activities
<1>18. PositionInv'
  BY <1>0, <1>1, <1>9, <1>10, <1>16, <1>17, PositionKept
<1>19. DeliveryInv'
  <2>1. \A x \in Devices, b \in Activities : At(x, b, "settle")' => task'[x][b] = task[x][b]
    BY <1>2, <1>11 DEF At
  <2>2. ASSUME trouble'[d] = {}, keys[d] = 1, a = "send", NEW r \in task'[d]["send"].audience,
               keys[r] = 1
        PROVE  \E e \in envelopes' : e.from = d /\ e.to = r /\ e.index <= task'[d]["send"].before
    <3>1. trouble[d] = {} /\ r \in task[d]["send"].audience /\ task'[d]["send"].before = own[d]
      BY <1>2, <1>4, <2>2
    <3>2. HandedOver(d, r) \/ \E o \in task[d]["send"].owed : o.to = r
      BY <1>0, <1>1, <2>2, <3>1 DEF DeliveryInv
    <3>3. PICK e \in envelopes' : e.from = d /\ e.to = r
      BY <1>4, <2>2, <3>2 DEF HandedOver
    <3>4. e.index <= own[d]
      <4>1. CASE e \in envelopes
        BY <1>0, <2>2, <3>1, <3>3, <4>1 DEF DeliveryInv
      <4>2. CASE e \notin envelopes
        BY <1>0, <1>7, <4>2 DEF ChatTypeOK
      <4> QED
        BY <4>1, <4>2
    <3> QED
      BY <3>1, <3>3, <3>4
  <2>3. \A x \in Devices : trouble'[x] = {} /\ keys'[x] = 1 /\ At(x, "send", "post")' =>
            \/ task'[x]["send"] = task[x]["send"]
            \/ \A r \in task'[x]["send"].audience : keys'[r] = 1 =>
                   \E e \in envelopes' : e.from = x /\ e.to = r
                                         /\ e.index <= task'[x]["send"].before
    BY <1>1, <1>17, <2>2
  <2>4. \A e \in envelopes' \ envelopes : e.index = own[e.from]
    BY <1>7
  <2> QED
    BY <1>0, <1>4, <1>9, <1>10, <1>16, <2>1, <2>3, <2>4, DeliveryKept
<1>20. SecrecyInv'
  <2>1. \A x \in Devices, b \in Activities : \A e \in task'[x][b].inbound :
               e \in task[x][b].inbound
    BY <1>12
  <2>2. ASSUME NEW e \in envelopes' \ envelopes
        PROVE  e.pk <= known[e.to] /\ Fresh(e.from, e.to, e)
    <3>1. e.pk <= known[e.to]
      BY <1>0, <1>7 DEF ChatTypeOK, Envelopes
    <3>2. ASSUME NEW p \in Stored, messages[p].from = d, messages[p].gen = keys[d],
                 messages[p].index >= own[d]
          PROVE  "unsure" \in trouble[d]
      <4>1. messages[p].index \in Nat /\ own[d] \in Nat
        BY <1>0, ChatFacts DEF Rows, ChatTypeOK
      <4> QED
        BY <1>0, <3>2, <4>1 DEF PositionInv
    <3> QED
      BY <1>7, <3>1, <3>2 DEF Fresh
  <2>3. \A x, s \in Devices :
            \/ chains'[x][s] = chains[x][s]
            \/ \E b \in Activities : \E e \in task[x][b].inbound :
                   /\ e.from = s /\ e.pk = keys[x]
                   /\ chains'[x][s].gen = e.gen /\ chains'[x][s].index = e.index
    BY <1>3
  <2> QED
    BY <1>0, <1>1, <1>9, <1>10, <2>1, <2>2, <2>3, SecrecyKept
<1>21. CursorInv'
  <2> SUFFICES ASSUME NEW x \in Devices
               PROVE  /\ screen'[x] # "closed" => Covered(x, cursor[x])'
                      /\ \A q \in log'[x] \cup pending'[x] : Covered(x, q)'
                      /\ At(x, "poll", "drain")' =>
                             /\ Covered(x, task[x]["poll"].since)'
                             /\ task'[x]["poll"].since <= task'[x]["poll"].upto
    BY Zenon DEF CursorInv
  <2>1. At(x, "poll", "drain")' =>
            /\ At(x, "poll", "drain") /\ task'[x]["poll"] = task[x]["poll"]
    BY <1>2, <1>11 DEF At, Activities
  <2>2. CASE /\ log'[x] = log[x] /\ passed'[x] = passed[x] /\ cursor'[x] = cursor[x]
    <3>1. \A n : Covered(x, n) => Covered(x, n)'
      BY <1>1, <2>2 DEF Covered
    <3>2. screen'[x] # "closed" => screen[x] # "closed"
      BY <1>5
    <3> QED
      BY <1>0, <1>1, <2>1, <2>2, <3>1, <3>2 DEF CursorInv, Covered
  <2>3. CASE /\ x = d /\ log[d] = {} /\ cursor'[d] = LastOf(log'[d])
             /\ passed'[d] = passed[d] \cup (1..LastOf(log'[d]) \ log'[d])
    <3>1. \A n : Covered(d, n) => Covered(d, n)'
      BY <1>1, <2>3 DEF Covered
    <3>2. ASSUME NEW p \in 1..LastOf(log'[d])
          PROVE  p \in log'[d] \cup passed'[d]
      BY <2>3
    <3>3. Covered(d, cursor[d])'
      BY <2>3, <3>2 DEF Covered
    <3>4. ASSUME NEW q \in log'[d]
          PROVE  Covered(d, q)'
      <4>1. log'[d] \in SUBSET Stored
        BY <1>3
      <4>2. q \in Stored /\ q <= LastOf(log'[d]) /\ LastOf(log'[d]) \in 0..Len(messages)
        BY <1>0, <4>1, LastOfIs
      <4>3. \A p \in 1..q : p \in 1..LastOf(log'[d])
        BY <1>0, <4>2, ChatFacts DEF Stored
      <4> QED
        BY <3>2, <4>3 DEF Covered
    <3>5. \A q \in pending[d] : Covered(d, q)'
      BY <1>0, <3>1 DEF CursorInv
    <3>6. At(x, "poll", "drain")' =>
              /\ Covered(d, task[d]["poll"].since)'
              /\ task'[d]["poll"].since <= task'[d]["poll"].upto
      BY <1>0, <2>1, <2>3, <3>1 DEF CursorInv, Covered
    <3> QED
      BY <1>1, <2>3, <3>3, <3>4, <3>5, <3>6
  <2> QED
    BY <1>3, <2>2, <2>3
<1>22. LockedOutOnlyByMishap'
  BY <1>0, <1>1, <1>9, <1>10, LockedKept
<1>23. ReadsNothingEarlier'
  <2>1. \A x \in Devices : \A p \in log'[x] \ handed'[x] : p \in log[x] \ handed[x]
    BY <1>3
  <2> QED
    BY <1>0, <1>1, <1>3, <1>10, <2>1, ReadsKept
<1> QED
  BY <1>9, <1>13, <1>14, <1>15, <1>18, <1>19, <1>20, <1>21, <1>22, <1>23, Zenon DEF ChatInv

\* rewindOwnChain, after a refusal, a lost request or a lost answer.
LEMMA RewindKeeps ==
    ASSUME ChatInv, NEW d \in Devices, Refused(d) \/ RequestLost(d) \/ AnswerLost(d)
    PROVE  ChatInv'
<1>0. /\ ChatTypeOK /\ KeysInv /\ TaskInv /\ PositionInv /\ DeliveryInv /\ SecrecyInv /\ CursorInv
      /\ LockedOutOnlyByMishap /\ ReadsNothingEarlier /\ OwedInv
  BY DEF ChatInv
<1>1. /\ known' = known /\ envelopes' = envelopes /\ history' = history /\ messages' = messages
      /\ keys' = keys /\ chains' = chains /\ log' = log /\ pending' = pending
      /\ cursor' = cursor /\ screen' = screen /\ refused' = refused /\ handed' = handed
      /\ passed' = passed /\ mishaps' \in Nat
      /\ own' = Put(own, d, task[d]["send"].before) /\ Become(d, "send", Idle)
      /\ \/ At(d, "send", "post") /\ Note(d, {"rewound"})
         \/ Note(d, {"rewound", "unsure"})
  BY <1>0 DEF Refused, RequestLost, AnswerLost, Rewind, Mishap, server, ChatTypeOK
<1>2. "send" \in Activities /\ task[d]["send"].before \in Nat
  <2>1. "send" \in Activities
    BY DEF Activities
  <2> QED
    BY <1>0, <2>1, ChatFacts DEF Tasks
<1>3. /\ own' \in [Devices -> Nat] /\ own'[d] = task[d]["send"].before
      /\ \A x \in Devices : x # d => own'[x] = own[x]
  BY <1>0, <1>1, <1>2 DEF Put, ChatTypeOK
<1>4. /\ trouble' \in [Devices -> SUBSET {"missed", "rewound", "unsure"}]
      /\ "rewound" \in trouble'[d] /\ trouble[d] \subseteq trouble'[d]
      /\ At(d, "send", "post") \/ "unsure" \in trouble'[d]
      /\ \A x \in Devices : x # d => trouble'[x] = trouble[x]
  <2>1. PICK what \in SUBSET {"rewound", "unsure"} :
            /\ trouble' = [trouble EXCEPT ![d] = trouble[d] \cup what] /\ "rewound" \in what
            /\ At(d, "send", "post") \/ "unsure" \in what
    BY <1>1 DEF Note, Put
  <2>2. trouble'[d] = trouble[d] \cup what /\ \A x \in Devices : x # d => trouble'[x] = trouble[x]
    BY <1>0, <2>1 DEF ChatTypeOK
  <2>3. trouble[d] \cup what \in SUBSET {"missed", "rewound", "unsure"}
    BY <1>0 DEF ChatTypeOK
  <2>4. trouble' \in [Devices -> SUBSET {"missed", "rewound", "unsure"}]
    BY <1>0, <2>1, <2>3 DEF ChatTypeOK
  <2> QED
    BY <2>1, <2>2, <2>4
<1>5. /\ task' \in [Devices -> [Activities -> Tasks]] /\ task'[d]["send"] = Idle
      /\ \A x \in Devices, b \in Activities :
             task'[x][b] = task[x][b] \/ (x = d /\ b = "send")
  BY <1>0, <1>1, <1>2, IdleIs, BecomeIs, OtherTasks
<1>6. Idle.step = "idle" /\ Idle.owed = {} /\ Idle.inbound = {}
  BY <1>0, IdleIs
<1>7. ChatTypeOK'
  BY <1>0, <1>1, <1>3, <1>4, <1>5, SameTypes DEF ChatTypeOK
<1>8. Onward
  <2>1. \A x \in Devices : trouble[x] \subseteq trouble'[x]
    BY <1>4
  <2> QED
    BY <1>0, <1>1, <2>1 DEF Onward, KeysInv, ChatTypeOK
<1>9. \A x \in Devices, b \in Activities :
          task'[x][b] = task[x][b] \/ (x = d /\ b = "send" /\ task'[x][b] = Idle)
  BY <1>5
<1>10. KeysInv'
  <2>1. \A x \in Devices, b \in Activities :
            /\ task'[x][b].owed \ task[x][b].owed = {}
            /\ task'[x][b].inbound \ task[x][b].inbound = {}
    BY <1>6, <1>9
  <2> QED
    BY <1>0, <1>1, <1>7, <1>8, <2>1, KeysKept
<1>11. TaskInv'
  <2> SUFFICES ASSUME NEW x \in Devices
               PROVE  /\ screen'[x] = "closed" => \A b \in Activities : At(x, b, "idle")'
                      /\ \A b \in Activities \ {"send"} : ~At(x, b, "post")' /\ ~At(x, b, "answer")'
                      /\ At(x, "send", "answer")' =>
                             /\ task'[x]["send"].place \in Stored
                             /\ messages[task'[x]["send"].place].from = x
                      /\ At(x, "send", "post")' => task'[x]["send"].before < own'[x]
    BY <1>1, SameTypes DEF TaskInv
  <2>0. /\ screen[x] = "closed" => \A b \in Activities : task[x][b].step = "idle"
        /\ \A b \in Activities \ {"send"} : task[x][b].step # "post" /\ task[x][b].step # "answer"
        /\ task[x]["send"].step = "answer" =>
               task[x]["send"].place \in Stored /\ messages[task[x]["send"].place].from = x
        /\ task[x]["send"].step = "post" => task[x]["send"].before < own[x]
    BY <1>0, Zenon DEF TaskInv, At
  <2>1. CASE x = d
    <3>1. \A b \in Activities : task'[d][b].step = "idle" \/ task'[d][b] = task[d][b]
      BY <1>6, <1>9
    <3>2. task'[d]["send"].step = "idle"
      BY <1>5, <1>6
    <3> QED
      BY <1>1, <2>0, <2>1, <3>1, <3>2 DEF At
  <2>2. CASE x # d
    <3>1. /\ \A b \in Activities : task'[x][b] = task[x][b]
          /\ screen'[x] = screen[x] /\ own'[x] = own[x]
      BY <1>1, <1>3, <1>9, <2>2
    <3> QED
      BY <1>2, <2>0, <3>1 DEF At
  <2> QED
    BY <2>1, <2>2
<1>12. \A x \in Devices, b \in Activities :
          task'[x][b].step # "idle" => task'[x][b] = task[x][b]
  BY <1>6, <1>9
<1>13. PositionInv'
  <2>1. \A x \in Devices : "unsure" \notin trouble'[x] =>
            \/ own[x] <= own'[x]
            \/ At(x, "send", "post") /\ own'[x] = task[x]["send"].before
    <3> SUFFICES ASSUME NEW x \in Devices, "unsure" \notin trouble'[x]
                 PROVE  \/ own[x] <= own'[x]
                        \/ At(x, "send", "post") /\ own'[x] = task[x]["send"].before
      OBVIOUS
    <3>1. CASE x = d
      BY <1>3, <1>4, <3>1
    <3>2. CASE x # d
      BY <1>0, <1>3, <3>2 DEF ChatTypeOK
    <3> QED
      BY <3>1, <3>2
  <2>2. \A x \in Devices : At(x, "send", "post")' =>
            At(x, "send", "post") /\ task'[x]["send"] = task[x]["send"]
    BY <1>2, <1>12 DEF At
  <2> QED
    BY <1>0, <1>1, <1>7, <1>8, <2>1, <2>2, PositionKept
<1>14. DeliveryInv'
  <2>1. \A x \in Devices : trouble'[x] = {} =>
            /\ own[x] <= own'[x]
            /\ \A b \in Activities : At(x, b, "settle")' => task'[x][b] = task[x][b]
            /\ At(x, "send", "post")' => task'[x]["send"] = task[x]["send"]
    <3>1. \A x \in Devices : trouble'[x] = {} => x # d
      BY <1>4
    <3>2. \A x \in Devices : x # d => own[x] <= own'[x]
      BY <1>0, <1>3 DEF ChatTypeOK
    <3> QED
      BY <1>2, <1>12, <3>1, <3>2 DEF At
  <2> QED
    BY <1>0, <1>1, <1>7, <1>8, <2>1, DeliveryKept
<1>15. SecrecyInv'
  <2>1. \A x \in Devices, b \in Activities : \A e \in task'[x][b].inbound :
               e \in task[x][b].inbound
    BY <1>6, <1>9
  <2> QED
    BY <1>0, <1>1, <1>7, <1>8, <2>1, SecrecyKept
<1>16. CursorInv'
  <2>1. \A x \in Devices : At(x, "poll", "drain")' => task'[x]["poll"] = task[x]["poll"]
    BY <1>12 DEF At, Activities
  <2> QED
    BY <1>0, <1>1, <1>7, <2>1, CursorKept
<1>17. LockedOutOnlyByMishap'
  BY <1>0, <1>1, <1>7, <1>8, LockedKept
<1>18. ReadsNothingEarlier'
  <2>1. \A x \in Devices : \A p \in log'[x] \ handed'[x] : p \in log[x] \ handed[x]
    BY <1>1
  <2>2. log' \in [Devices -> SUBSET Stored]
    BY <1>0, <1>1 DEF ChatTypeOK
  <2> QED
    BY <1>0, <1>1, <1>8, <2>1, <2>2, ReadsKept
<1>19. OwedInv'
  <2>1. \A x \in Devices, b \in Activities :
            task'[x][b].owed = task[x][b].owed \/ task'[x][b].owed = {}
    BY <1>6, <1>9
  <2> QED
    BY <1>0, <2>1, OwedKept
<1> QED
  BY <1>7, <1>10, <1>11, <1>13, <1>14, <1>15, <1>16, <1>17, <1>18, <1>19, Zenon DEF ChatInv

\* The answer to a send.
LEMMA AnsweredKeeps ==
    ASSUME ChatInv, NEW d \in Devices, Answered(d)
    PROVE  ChatInv'
<1>0. /\ ChatTypeOK /\ KeysInv /\ TaskInv /\ PositionInv /\ DeliveryInv /\ SecrecyInv /\ CursorInv
      /\ LockedOutOnlyByMishap /\ ReadsNothingEarlier /\ OwedInv
  BY DEF ChatInv
<1> DEFINE n == task[d]["send"].place
<1>1. /\ known' = known /\ envelopes' = envelopes /\ history' = history /\ messages' = messages
      /\ keys' = keys /\ own' = own /\ chains' = chains /\ pending' = pending
      /\ screen' = screen /\ refused' = refused /\ handed' = handed
      /\ trouble' = trouble /\ mishaps' = mishaps
      /\ At(d, "send", "answer") /\ Become(d, "send", Idle)
      /\ log' = Put(log, d, log[d] \cup {n}) /\ cursor' = Put(cursor, d, n)
      /\ passed' = Put(passed, d, passed[d] \cup (cursor[d] + 1)..(n - 1))
  BY DEF Answered, server
<1>2. "send" \in Activities /\ n \in Stored /\ messages[n].from = d /\ screen[d] # "closed"
  <2>1. "send" \in Activities
    BY DEF Activities
  <2> QED
    BY <1>0, <1>1, <2>1 DEF TaskInv, At
<1> HIDE DEF n
<1>3. /\ Len(messages) \in Nat /\ n \in 1..Len(messages) /\ cursor[d] \in 0..Len(messages)
      /\ (cursor[d] + 1)..(n - 1) \subseteq Stored
  BY <1>0, <1>2, ChatFacts DEF Stored, ChatTypeOK
<1>4. /\ log' \in [Devices -> SUBSET Stored] /\ log'[d] = log[d] \cup {n}
      /\ cursor' \in [Devices -> 0..Len(messages)] /\ cursor'[d] = n
      /\ passed' \in [Devices -> SUBSET Stored]
      /\ passed'[d] = passed[d] \cup (cursor[d] + 1)..(n - 1)
      /\ \A x \in Devices : x # d =>
             log'[x] = log[x] /\ cursor'[x] = cursor[x] /\ passed'[x] = passed[x]
  <2>1. n \in 0..Len(messages)
    BY <1>3
  <2> QED
    BY <1>0, <1>1, <1>2, <1>3, <2>1 DEF Put, ChatTypeOK
<1>5. /\ task' \in [Devices -> [Activities -> Tasks]] /\ task'[d]["send"] = Idle
      /\ \A x \in Devices, b \in Activities :
             task'[x][b] = task[x][b] \/ (x = d /\ b = "send")
  BY <1>0, <1>1, <1>2, IdleIs, BecomeIs, OtherTasks
<1>6. Idle.step = "idle" /\ Idle.owed = {} /\ Idle.inbound = {}
  BY <1>0, IdleIs
<1>7. ChatTypeOK'
  BY <1>0, <1>1, <1>4, <1>5, SameTypes DEF ChatTypeOK
<1>8. Onward
  BY <1>0, <1>1 DEF Onward, KeysInv, ChatTypeOK
<1>9. \A x \in Devices, b \in Activities :
          task'[x][b] = task[x][b] \/ (x = d /\ b = "send" /\ task'[x][b] = Idle)
  BY <1>5
<1>10. KeysInv'
  <2>1. \A x \in Devices, b \in Activities :
            /\ task'[x][b].owed \ task[x][b].owed = {}
            /\ task'[x][b].inbound \ task[x][b].inbound = {}
    BY <1>6, <1>9
  <2> QED
    BY <1>0, <1>1, <1>7, <1>8, <2>1, KeysKept
<1>11. \A x \in Devices, b \in Activities :
          task'[x][b].step # "idle" => task'[x][b] = task[x][b]
  BY <1>6, <1>9
<1>12. TaskInv'
  <2> SUFFICES ASSUME NEW x \in Devices
               PROVE  /\ screen'[x] = "closed" => \A b \in Activities : At(x, b, "idle")'
                      /\ \A b \in Activities \ {"send"} : ~At(x, b, "post")' /\ ~At(x, b, "answer")'
                      /\ At(x, "send", "answer")' =>
                             /\ task'[x]["send"].place \in Stored
                             /\ messages[task'[x]["send"].place].from = x
                      /\ At(x, "send", "post")' => task'[x]["send"].before < own'[x]
    BY <1>1, SameTypes DEF TaskInv
  <2>0. /\ screen[x] = "closed" => \A b \in Activities : task[x][b].step = "idle"
        /\ \A b \in Activities \ {"send"} : task[x][b].step # "post" /\ task[x][b].step # "answer"
        /\ task[x]["send"].step = "answer" =>
               task[x]["send"].place \in Stored /\ messages[task[x]["send"].place].from = x
        /\ task[x]["send"].step = "post" => task[x]["send"].before < own[x]
    BY <1>0, Zenon DEF TaskInv, At
  <2>1. \A b \in Activities : task'[x][b].step = "idle" \/ task'[x][b] = task[x][b]
    BY <1>11
  <2> QED
    BY <1>1, <1>2, <2>0, <2>1 DEF At
<1>13. \A x \in Devices :
          /\ own[x] <= own'[x]
          /\ \A b \in Activities : At(x, b, "settle")' => task'[x][b] = task[x][b]
          /\ At(x, "send", "post")' => task'[x]["send"] = task[x]["send"] /\ At(x, "send", "post")
  BY <1>0, <1>1, <1>2, <1>11 DEF At, ChatTypeOK
<1>14. PositionInv'
  BY <1>0, <1>1, <1>7, <1>8, <1>13, PositionKept
<1>15. DeliveryInv'
  BY <1>0, <1>1, <1>7, <1>8, <1>13, DeliveryKept
<1>16. SecrecyInv'
  <2>1. \A x \in Devices, b \in Activities : \A e \in task'[x][b].inbound :
               e \in task[x][b].inbound
    BY <1>6, <1>9
  <2> QED
    BY <1>0, <1>1, <1>7, <1>8, <2>1, SecrecyKept
<1>17. CursorInv'
  <2> SUFFICES ASSUME NEW x \in Devices
               PROVE  /\ screen'[x] # "closed" => Covered(x, cursor[x])'
                      /\ \A q \in log'[x] \cup pending'[x] : Covered(x, q)'
                      /\ At(x, "poll", "drain")' =>
                             /\ Covered(x, task[x]["poll"].since)'
                             /\ task'[x]["poll"].since <= task'[x]["poll"].upto
    BY Zenon DEF CursorInv
  <2>1. \A m : Covered(x, m) => Covered(x, m)'
    BY <1>1, <1>4 DEF Covered
  <2>2. At(x, "poll", "drain")' =>
            /\ At(x, "poll", "drain") /\ task'[x]["poll"] = task[x]["poll"]
    BY <1>11 DEF At, Activities
  <2>3. At(x, "poll", "drain")' =>
            /\ Covered(x, task[x]["poll"].since)'
            /\ task'[x]["poll"].since <= task'[x]["poll"].upto
    BY <1>0, <2>1, <2>2 DEF CursorInv, Covered
  <2>4. CASE x # d
    <3>1. log'[x] = log[x] /\ cursor'[x] = cursor[x]
      BY <1>4, <2>4
    <3> QED
      BY <1>0, <1>1, <2>1, <2>3, <3>1 DEF CursorInv, Covered
  <2>5. CASE x = d
    <3>1. Covered(d, cursor[d])
      BY <1>0, <1>2 DEF CursorInv
    <3>2. ASSUME NEW p \in 1..n, messages[p].from # d
          PROVE  p \in log'[d] \cup refused'[d] \cup pending'[d] \cup passed'[d]
      <4>1. CASE p <= cursor[d]
        <5>1. p \in 1..cursor[d]
          BY <1>3, <4>1
        <5>2. p \in log[d] \cup refused[d] \cup pending[d] \cup passed[d]
          BY <3>1, <3>2, <5>1 DEF Covered
        <5> QED
          BY <1>1, <1>4, <5>2
      <4>2. CASE p > cursor[d]
        BY <1>2, <1>3, <1>4, <3>2, <4>2
      <4> QED
        BY <1>3, <4>1, <4>2
    <3>3. Covered(d, cursor[d])'
      BY <1>1, <1>4, <3>2 DEF Covered
    <3>4. \A q \in log'[d] \cup pending'[d] : Covered(d, q)'
      <4>1. \A q \in log[d] \cup pending[d] : Covered(d, q)'
        BY <1>0, <2>1, <2>5 DEF CursorInv
      <4>2. \A q : q = n => Covered(d, q)'
        BY <1>1, <3>2 DEF Covered
      <4> QED
        BY <1>1, <1>4, <4>1, <4>2
    <3> QED
      BY <2>3, <2>5, <3>3, <3>4
  <2> QED
    BY <2>4, <2>5
<1>18. LockedOutOnlyByMishap'
  BY <1>0, <1>1, <1>7, <1>8, LockedKept
<1>19. ReadsNothingEarlier'
  <2>1. \A x \in Devices : \A p \in log'[x] \ handed'[x] :
            p \in log[x] \ handed[x] \/ messages[p].from = x
    <3> SUFFICES ASSUME NEW x \in Devices, NEW p \in log'[x] \ handed'[x]
                 PROVE  p \in log[x] \ handed[x] \/ messages[p].from = x
      OBVIOUS
    <3>1. p \notin handed[x] /\ (p \in log[x] \/ (x = d /\ p = n))
      BY <1>1, <1>4
    <3> QED
      BY <1>2, <3>1
  <2> QED
    BY <1>0, <1>1, <1>4, <1>8, <2>1, ReadsKept
<1>20. OwedInv'
  <2>1. \A x \in Devices, b \in Activities :
            task'[x][b].owed = task[x][b].owed \/ task'[x][b].owed = {}
    BY <1>6, <1>9
  <2> QED
    BY <1>0, <2>1, OwedKept
<1> QED
  BY <1>7, <1>10, <1>12, <1>14, <1>15, <1>16, <1>17, <1>18, <1>19, <1>20, Zenon DEF ChatInv

\* A queue of messages is read, as a poll brought it or again after a synchronisation.
LEMMA ReceiveKeeps ==
    ASSUME ChatInv, NEW d \in Devices, Receive(d) \/ DrainAgain(d)
    PROVE  ChatInv'
<1>0. /\ ChatTypeOK /\ KeysInv /\ TaskInv /\ PositionInv /\ DeliveryInv /\ SecrecyInv /\ CursorInv
      /\ LockedOutOnlyByMishap /\ ReadsNothingEarlier /\ OwedInv
  BY DEF ChatInv
<1> DEFINE t == task[d]["poll"]
           more == IF Receive(d) THEN (t.since + 1)..t.upto ELSE {}
           queue == pending[d] \cup more
<1>1. /\ known' = known /\ envelopes' = envelopes /\ history' = history /\ messages' = messages
      /\ keys' = keys /\ own' = own /\ screen' = screen /\ handed' = handed
      /\ passed' = passed /\ trouble' = trouble /\ mishaps' = mishaps
      /\ ~At(d, "poll", "idle") /\ Drain(d, queue)
      /\ \/ /\ Receive(d) /\ At(d, "poll", "drain") /\ cursor' = Put(cursor, d, CursorAfter(d))
         \/ ~Receive(d) /\ cursor' = cursor
  <2>1. CASE Receive(d)
    BY <2>1 DEF Receive, server, At
  <2>2. CASE ~Receive(d)
    <3>1. DrainAgain(d) /\ pending[d] \cup {} = pending[d]
      BY <2>2
    <3> QED
      BY <2>2, <3>1 DEF DrainAgain, server, At
  <2> QED
    BY <2>1, <2>2
<1>2. /\ "poll" \in Activities /\ Len(messages) \in Nat /\ t \in Tasks
      /\ t.since \in 0..Len(messages) /\ t.upto \in 0..Len(messages)
      /\ cursor[d] \in 0..Len(messages) /\ pending[d] \subseteq Stored
  <2>1. "poll" \in Activities
    BY DEF Activities
  <2> QED
    BY <1>0, <2>1, ChatFacts DEF Tasks, ChatTypeOK
<1>3. queue \in SUBSET Stored
  BY <1>2 DEF Stored
<1> HIDE DEF t, more, queue
<1>4. /\ log' \in [Devices -> SUBSET Stored] /\ pending' \in [Devices -> SUBSET Stored]
      /\ refused' \in [Devices -> SUBSET Stored]
      /\ chains' \in [Devices -> [Devices -> Chains \cup {NoRow}]]
      /\ task' \in [Devices -> [Activities -> Tasks]]
      /\ log[d] \subseteq log'[d] /\ refused[d] \subseteq refused'[d]
      /\ pending'[d] \subseteq queue
      /\ \A p \in log'[d] \ log[d] : p \in queue /\ messages[p].from # d /\ Opens(d, p)
      /\ \A p \in queue : messages[p].from # d =>
             p \in log'[d] \cup refused'[d] \cup pending'[d]
      /\ \A s \in Devices :
             \/ chains'[d][s] = chains[d][s]
             \/ /\ chains[d][s] # NoRow
                /\ chains'[d][s].gen = chains[d][s].gen
                /\ chains'[d][s].index >= chains[d][s].index
      /\ \A x \in Devices : x # d => /\ log'[x] = log[x] /\ refused'[x] = refused[x]
                                     /\ pending'[x] = pending[x] /\ chains'[x] = chains[x]
                                     /\ task'[x] = task[x]
      /\ \A b \in Activities : b # "poll" => task'[d][b] = task[d][b]
      /\ task'[d]["poll"].step \in {"idle", "keys"}
      /\ task'[d]["poll"].owed = {} /\ task'[d]["poll"].inbound = {}
  BY <1>0, <1>1, <1>3, DrainIs
<1>5. /\ cursor' \in [Devices -> 0..Len(messages)]
      /\ \A x \in Devices : x # d => cursor'[x] = cursor[x]
      /\ cursor'[d] = cursor[d] \/ (Receive(d) /\ cursor'[d] = t.upto)
  BY <1>0, <1>1, <1>2 DEF CursorAfter, Put, ChatTypeOK, t
<1>6. ChatTypeOK'
  BY <1>0, <1>1, <1>4, <1>5, SameTypes DEF ChatTypeOK
<1>7. Onward
  BY <1>0, <1>1 DEF Onward, KeysInv, ChatTypeOK
<1>8. \A x \in Devices, b \in Activities :
          \/ task'[x][b] = task[x][b]
          \/ /\ x = d /\ b = "poll" /\ task'[x][b].step \in {"idle", "keys"}
             /\ task'[x][b].owed = {} /\ task'[x][b].inbound = {}
  BY <1>4
<1>9. KeysInv'
  <2>1. \A x \in Devices, b \in Activities :
            /\ task'[x][b].owed \ task[x][b].owed = {}
            /\ task'[x][b].inbound \ task[x][b].inbound = {}
    BY <1>8
  <2> QED
    BY <1>0, <1>1, <1>6, <1>7, <2>1, KeysKept
<1>10. \A x \in Devices, b \in Activities :
          task'[x][b].step \notin {"idle", "keys"} => task'[x][b] = task[x][b]
  BY <1>8
<1>11. TaskInv'
  <2> SUFFICES ASSUME NEW x \in Devices
               PROVE  /\ screen'[x] = "closed" => \A b \in Activities : At(x, b, "idle")'
                      /\ \A b \in Activities \ {"send"} : ~At(x, b, "post")' /\ ~At(x, b, "answer")'
                      /\ At(x, "send", "answer")' =>
                             /\ task'[x]["send"].place \in Stored
                             /\ messages[task'[x]["send"].place].from = x
                      /\ At(x, "send", "post")' => task'[x]["send"].before < own'[x]
    BY <1>1, SameTypes DEF TaskInv
  <2>0. /\ screen[x] = "closed" => \A b \in Activities : task[x][b].step = "idle"
        /\ \A b \in Activities \ {"send"} : task[x][b].step # "post" /\ task[x][b].step # "answer"
        /\ task[x]["send"].step = "answer" =>
               task[x]["send"].place \in Stored /\ messages[task[x]["send"].place].from = x
        /\ task[x]["send"].step = "post" => task[x]["send"].before < own[x]
    BY <1>0, Zenon DEF TaskInv, At
  <2>1. \A b \in Activities : task'[x][b].step \in {"idle", "keys"} \/ task'[x][b] = task[x][b]
    BY <1>10
  <2>2. task'[x]["send"] = task[x]["send"]
    BY <1>8 DEF Activities
  <2>3. screen[x] = "closed" => x # d
    BY <1>1, <1>2, <2>0 DEF At
  <2>4. screen'[x] = "closed" => \A b \in Activities : At(x, b, "idle")'
    BY <1>1, <1>4, <2>0, <2>3 DEF At
  <2> QED
    BY <1>1, <2>0, <2>1, <2>2, <2>4 DEF At
<1>12. \A x \in Devices :
          /\ own[x] <= own'[x]
          /\ \A b \in Activities : At(x, b, "settle")' => task'[x][b] = task[x][b]
          /\ At(x, "send", "post")' => task'[x]["send"] = task[x]["send"] /\ At(x, "send", "post")
  <2>1. \A x \in Devices : own[x] <= own'[x]
    BY <1>0, <1>1 DEF ChatTypeOK
  <2>2. \A x \in Devices, b \in Activities : At(x, b, "settle")' => task'[x][b] = task[x][b]
    BY <1>10 DEF At
  <2>3. \A x \in Devices : At(x, "send", "post")' => task'[x]["send"] = task[x]["send"]
    BY <1>10 DEF At, Activities
  <2> QED
    BY <2>1, <2>2, <2>3 DEF At
<1>13. PositionInv'
  BY <1>0, <1>1, <1>6, <1>7, <1>12, PositionKept
<1>14. DeliveryInv'
  BY <1>0, <1>1, <1>6, <1>7, <1>12, DeliveryKept
<1>15. SecrecyInv'
  <2>1. \A x \in Devices, b \in Activities : \A e \in task'[x][b].inbound :
               e \in task[x][b].inbound
    BY <1>8
  <2>2. \A x, s \in Devices :
            \/ chains'[x][s] = chains[x][s]
            \/ /\ chains[x][s] # NoRow
               /\ chains'[x][s].gen = chains[x][s].gen
               /\ chains'[x][s].index >= chains[x][s].index
    BY <1>4
  <2> QED
    BY <1>0, <1>1, <1>6, <1>7, <2>1, <2>2, SecrecyKept
<1>16. CursorInv'
  <2> SUFFICES ASSUME NEW x \in Devices
               PROVE  /\ screen'[x] # "closed" => Covered(x, cursor[x])'
                      /\ \A q \in log'[x] \cup pending'[x] : Covered(x, q)'
                      /\ At(x, "poll", "drain")' =>
                             /\ Covered(x, task[x]["poll"].since)'
                             /\ task'[x]["poll"].since <= task'[x]["poll"].upto
    BY Zenon DEF CursorInv
  <2>1. CASE x # d
    <3>1. log'[x] = log[x] /\ refused'[x] = refused[x] /\ pending'[x] = pending[x]
          /\ task'[x]["poll"] = task[x]["poll"] /\ cursor'[x] = cursor[x]
      BY <1>4, <1>5, <2>1
    <3>2. \A m : Covered(x, m) => Covered(x, m)'
      BY <1>1, <3>1 DEF Covered
    <3> QED
      BY <1>0, <1>1, <3>1, <3>2 DEF CursorInv, At, Covered
  <2>2. CASE x = d
    <3>1. ASSUME NEW p \in Stored, messages[p].from # d,
                 p \in log[d] \cup refused[d] \cup pending[d] \cup passed[d]
          PROVE  p \in log'[d] \cup refused'[d] \cup pending'[d] \cup passed'[d]
      <4>1. p \in pending[d] => p \in queue
        BY DEF queue
      <4> QED
        BY <1>1, <1>4, <3>1, <4>1
    <3>2. \A m \in 0..Len(messages) : Covered(d, m) => Covered(d, m)'
      <4> SUFFICES ASSUME NEW m \in 0..Len(messages), Covered(d, m), NEW p \in 1..m,
                          messages[p].from # d
                   PROVE  p \in log'[d] \cup refused'[d] \cup pending'[d] \cup passed'[d]
        BY <1>1 DEF Covered
      <4>1. p \in Stored
        BY <1>2 DEF Stored
      <4>2. p \in log[d] \cup refused[d] \cup pending[d] \cup passed[d]
        BY DEF Covered
      <4> QED
        BY <3>1, <4>1, <4>2
    <3>3. ~At(d, "poll", "drain")'
      BY <1>4 DEF At
    <3>4. screen[d] # "closed"
      BY <1>0, <1>1, <1>2 DEF TaskInv
    <3>5. Covered(d, cursor[d])
      BY <1>0, <3>4 DEF CursorInv
    <3>6. Receive(d) => \A p \in 1..t.upto : messages[p].from # d =>
              p \in log'[d] \cup refused'[d] \cup pending'[d] \cup passed'[d]
      <4> SUFFICES ASSUME Receive(d), NEW p \in 1..t.upto, messages[p].from # d
                   PROVE  p \in log'[d] \cup refused'[d] \cup pending'[d] \cup passed'[d]
        OBVIOUS
      <4>1. Covered(d, t.since) /\ t.since <= t.upto
        BY <1>0, <1>1 DEF CursorInv, t
      <4>2. CASE p <= t.since
        <5>1. Covered(d, t.since)' \/ \A q \in 1..t.since : messages[q].from # d =>
                  q \in log[d] \cup refused[d] \cup pending[d] \cup passed[d]
          BY <4>1 DEF Covered
        <5>2. p \in 1..t.since /\ p \in Stored
          BY <1>2, <4>2 DEF Stored
        <5>3. p \in log[d] \cup refused[d] \cup pending[d] \cup passed[d]
          BY <4>1, <5>2 DEF Covered
        <5> QED
          BY <3>1, <5>2, <5>3
      <4>3. CASE p > t.since
        <5>1. p \in queue
          BY <1>2, <4>3 DEF queue, more
        <5> QED
          BY <1>4, <5>1
      <4> QED
        BY <1>2, <4>2, <4>3
    <3>7. Receive(d) => \A m \in 0..t.upto : Covered(d, m)'
      <4> SUFFICES ASSUME Receive(d), NEW m \in 0..t.upto, NEW p \in 1..m, messages[p].from # d
                   PROVE  p \in log'[d] \cup refused'[d] \cup pending'[d] \cup passed'[d]
        BY <1>1 DEF Covered
      <4>1. p \in 1..t.upto
        BY <1>2
      <4> QED
        BY <3>6, <4>1
    <3>8. Covered(d, cursor[d])'
      <4>1. CASE cursor'[d] = cursor[d]
        <5>1. \A p \in 1..cursor[d] : messages[p].from # d =>
                  p \in log'[d] \cup refused'[d] \cup pending'[d] \cup passed'[d]
          BY <1>1, <1>2, <3>2, <3>5 DEF Covered
        <5> QED
          BY <1>1, <4>1, <5>1 DEF Covered
      <4>2. CASE Receive(d) /\ cursor'[d] = t.upto
        BY <1>1, <3>6, <4>2 DEF Covered
      <4> QED
        BY <1>5, <4>1, <4>2
    <3>9. ASSUME NEW q \in log'[d] \cup pending'[d]
          PROVE  Covered(d, q)'
      <4>1. q \in Stored /\ (q \in log[d] \/ q \in pending[d] \/ q \in more)
        BY <1>3, <1>4 DEF queue
      <4>2. CASE q \in log[d] \cup pending[d]
        <5>1. Covered(d, q) /\ q \in 0..Len(messages)
          BY <1>0, <1>2, <4>1, <4>2 DEF CursorInv, Stored
        <5> QED
          BY <3>2, <5>1
      <4>3. CASE q \in more
        <5>1. Receive(d) /\ q \in 0..t.upto
          BY <1>2, <4>3 DEF more
        <5> QED
          BY <3>7, <5>1
      <4> QED
        BY <4>1, <4>2, <4>3
    <3> QED
      BY <2>2, <3>3, <3>8, <3>9
  <2> QED
    BY <2>1, <2>2
<1>17. LockedOutOnlyByMishap'
  BY <1>0, <1>1, <1>6, <1>7, LockedKept
<1>18. ReadsNothingEarlier'
  <2>1. ASSUME NEW x \in Devices, NEW p \in log'[x] \ handed'[x], p \notin log[x] \ handed[x]
        PROVE  messages[p].knew[x] = keys[x] \/ "unsure" \in trouble[messages[p].from]
    <3>1. x = d /\ p \in log'[d] \ log[d]
      BY <1>1, <1>4, <2>1
    <3>2. p \in Stored /\ messages[p].from \in Devices
      BY <1>0, <1>3, <1>4, <3>1, ChatFacts DEF Rows
    <3>3. Opens(d, p)
      BY <1>4, <3>1
    <3>4. Fresh(messages[p].from, d, chains[d][messages[p].from])
      BY <1>0, <3>2, <3>3 DEF SecrecyInv, Opens
    <3> QED
      BY <3>1, <3>2, <3>3, <3>4 DEF Fresh, Opens
  <2> QED
    BY <1>0, <1>1, <1>4, <1>7, <2>1, ReadsKept
<1>19. OwedInv'
  <2>1. \A x \in Devices, b \in Activities :
            task'[x][b].owed = task[x][b].owed \/ task'[x][b].owed = {}
    BY <1>8
  <2> QED
    BY <1>0, <2>1, OwedKept
<1> QED
  BY <1>6, <1>9, <1>11, <1>13, <1>14, <1>15, <1>16, <1>17, <1>18, <1>19, Zenon DEF ChatInv

LEMMA Appended ==
    ASSUME ChatTypeOK, NEW r \in Rows, messages' = Append(messages, r)
    PROVE  /\ Len(messages') = Len(messages) + 1 /\ messages' \in Seq(Rows)
           /\ Stored' = Stored \cup {Len(messages) + 1} /\ Stored \subseteq Stored'
           /\ Len(messages) + 1 \notin Stored
           /\ \A p \in Stored : messages'[p] = messages[p]
           /\ messages'[Len(messages) + 1] = r
           /\ Pasts \subseteq Pasts' /\ Tasks \subseteq Tasks'
<1>1. /\ Len(messages') = Len(messages) + 1 /\ messages' \in Seq(Rows) /\ Len(messages) \in Nat
      /\ \A p \in 1..Len(messages) : messages'[p] = messages[p]
      /\ messages'[Len(messages) + 1] = r
  BY AppendProperties, ChatFacts DEF ChatTypeOK
<1>2. Stored' = Stored \cup {Len(messages) + 1} /\ Stored \subseteq Stored'
      /\ Len(messages) + 1 \notin Stored
  BY <1>1 DEF Stored
<1>3. Pasts \subseteq Pasts'
  BY <1>2 DEF Pasts
<1>4. Tasks \subseteq Tasks'
  <2>1. \A n \in 0..Len(messages) : n \in 0..Len(messages')
    BY <1>1
  <2> QED
    BY <1>3, <2>1 DEF Tasks
<1> QED
  BY <1>1, <1>2, <1>3, <1>4 DEF Stored

\* POST /messages.
LEMMA StoreKeeps ==
    ASSUME ChatInv, NEW d \in Devices, Store(d)
    PROVE  ChatInv'
<1>0. /\ ChatTypeOK /\ KeysInv /\ TaskInv /\ PositionInv /\ DeliveryInv /\ SecrecyInv /\ CursorInv
      /\ LockedOutOnlyByMishap /\ ReadsNothingEarlier /\ OwedInv
  BY DEF ChatInv
<1> DEFINE i == task[d]["send"].before
           n == Len(messages) + 1
           m == Row(d, i)
           t == [task[d]["send"] EXCEPT !.step = "answer", !.place = n]
<1>1. /\ known' = known /\ envelopes' = envelopes /\ history' = history
      /\ keys' = keys /\ own' = own /\ chains' = chains /\ log' = log /\ pending' = pending
      /\ cursor' = cursor /\ screen' = screen /\ refused' = refused /\ handed' = handed
      /\ passed' = passed /\ trouble' = trouble /\ mishaps' = mishaps
      /\ At(d, "send", "post") /\ messages' = Append(messages, m) /\ Become(d, "send", t)
  BY DEF Store, device, seen
<1>2. "send" \in Activities /\ task[d]["send"] \in Tasks /\ i \in Nat /\ i < own[d]
      /\ task[d]["send"].audience \subseteq Devices
  <2>1. "send" \in Activities
    BY DEF Activities
  <2>2. task[d]["send"] \in Tasks
    BY <1>0, <2>1, ChatFacts
  <2> QED
    BY <1>0, <1>1, <2>1, <2>2 DEF Tasks, TaskInv
<1>3. /\ m \in Rows /\ m.from = d /\ m.gen = keys[d] /\ m.index = i /\ m.knew = known
      /\ m.out = {r \in task[d]["send"].audience :
                     ~\E e \in envelopes : /\ e.from = d /\ e.to = r /\ e.pk = keys[r]
                                           /\ e.gen = keys[d] /\ e.index <= i}
  <2> DEFINE out == {r \in task[d]["send"].audience :
                     ~\E e \in envelopes : /\ e.from = d /\ e.to = r /\ e.pk = keys[r]
                                           /\ e.gen = keys[d] /\ e.index <= i}
  <2>1. out \in SUBSET Devices
    BY <1>2
  <2>2. m = [from |-> d, gen |-> keys[d], index |-> i, knew |-> known, out |-> out]
    BY DEF Row
  <2> HIDE DEF out, m, i
  <2>3. m \in Rows
    BY <1>0, <1>2, <2>1, <2>2 DEF Rows, ChatTypeOK
  <2> QED
    BY <2>2, <2>3 DEF out
<1> HIDE DEF m
<1>4. /\ Len(messages') = n /\ messages' \in Seq(Rows) /\ n \in Nat
      /\ Stored' = Stored \cup {n} /\ Stored \subseteq Stored' /\ n \notin Stored
      /\ \A p \in Stored : messages'[p] = messages[p]
      /\ messages'[n] = m
      /\ Pasts \subseteq Pasts' /\ Tasks \subseteq Tasks'
  BY <1>0, <1>1, <1>3, Appended, ChatFacts
<1>5. /\ t \in Tasks' /\ t.step = "answer" /\ t.place = n /\ t.audience = task[d]["send"].audience
      /\ t.owed = task[d]["send"].owed /\ t.inbound = task[d]["send"].inbound
  <2>1. task[d]["send"] \in Tasks'
    BY <1>2, <1>4
  <2>2. n \in 0..Len(messages') /\ "answer" \in Steps
    BY <1>4 DEF Steps
  <2>3. t \in Tasks'
    BY <2>1, <2>2 DEF Tasks
  <2> QED
    BY <1>2, <2>3 DEF Tasks
<1> HIDE DEF t, n, i
<1>6. /\ task' \in [Devices -> [Activities -> Tasks']] /\ task'[d]["send"] = t
      /\ \A x \in Devices, b \in Activities :
             task'[x][b] = task[x][b] \/ (x = d /\ b = "send")
  <2>1. task \in [Devices -> [Activities -> Tasks']]
    BY <1>0, <1>4 DEF ChatTypeOK
  <2>2. task' = [task EXCEPT ![d]["send"] = t]
    BY <1>1 DEF Become
  <2>3. task' \in [Devices -> [Activities -> Tasks']] /\ task'[d]["send"] = t
    BY <1>2, <1>5, <2>1, <2>2
  <2> QED
    BY <1>0, <1>1, <1>2, <2>3, OtherTasks
<1>7. \A x \in Devices, b \in Activities :
          \/ task'[x][b] = task[x][b]
          \/ /\ x = d /\ b = "send" /\ task'[x][b].step = "answer"
             /\ task'[x][b].owed = task[x][b].owed /\ task'[x][b].inbound = task[x][b].inbound
  BY <1>5, <1>6
<1>8. ChatTypeOK'
  <2>1. history \in [Devices -> Pasts']
    BY <1>0, <1>4 DEF ChatTypeOK
  <2>2. /\ log \in [Devices -> SUBSET Stored'] /\ pending \in [Devices -> SUBSET Stored']
        /\ refused \in [Devices -> SUBSET Stored'] /\ handed \in [Devices -> SUBSET Stored']
        /\ passed \in [Devices -> SUBSET Stored']
    BY <1>0, <1>4 DEF ChatTypeOK
  <2>3. cursor \in [Devices -> 0..Len(messages')]
    <3>1. \A x \in 0..Len(messages) : x \in 0..Len(messages')
      BY <1>0, <1>4, ChatFacts DEF n
    <3> QED
      BY <1>0, <3>1 DEF ChatTypeOK
  <2> QED
    BY <1>0, <1>1, <1>4, <1>6, <2>1, <2>2, <2>3 DEF ChatTypeOK
<1>9. KeysInv'
  <2>1. \A p \in Stored' : messages'[p].gen \in 1..keys'[messages'[p].from]
    <3>1. keys[d] \in 1..keys[d]
      BY <1>0 DEF KeysInv, ChatTypeOK
    <3>2. messages'[n].gen \in 1..keys[messages'[n].from]
      BY <1>3, <1>4, <3>1
    <3>3. \A p \in Stored : messages'[p].gen \in 1..keys[messages'[p].from]
      BY <1>0, <1>4 DEF KeysInv
    <3> QED
      BY <1>1, <1>4, <3>2, <3>3
  <2>2. ASSUME NEW x \in Devices, NEW b \in Activities
        PROVE  /\ \A o \in task'[x][b].owed : o.pk \in 1..known'[o.to]
               /\ \A e \in task'[x][b].inbound : e.to = x /\ e.pk \in 1..known'[x]
    <3>1. task'[x][b].owed = task[x][b].owed /\ task'[x][b].inbound = task[x][b].inbound
      BY <1>7
    <3> QED
      BY <1>0, <1>1, <3>1 DEF KeysInv
  <2>3. /\ \A x \in Devices : known'[x] <= keys'[x] /\ keys'[x] > 0
        /\ \A e \in envelopes' : e.pk \in 1..known'[e.to] /\ e.gen \in 1..keys'[e.from]
    BY <1>0, <1>1 DEF KeysInv
  <2> QED
    BY <2>1, <2>2, <2>3, Zenon DEF KeysInv
<1>10. TaskInv'
  <2> SUFFICES ASSUME NEW x \in Devices
               PROVE  /\ screen'[x] = "closed" => \A b \in Activities : At(x, b, "idle")'
                      /\ \A b \in Activities \ {"send"} : ~At(x, b, "post")' /\ ~At(x, b, "answer")'
                      /\ At(x, "send", "answer")' =>
                             /\ task'[x]["send"].place \in Stored'
                             /\ messages'[task'[x]["send"].place].from = x
                      /\ At(x, "send", "post")' => task'[x]["send"].before < own'[x]
    BY DEF TaskInv
  <2>0. /\ screen[x] = "closed" => \A b \in Activities : task[x][b].step = "idle"
        /\ \A b \in Activities \ {"send"} : task[x][b].step # "post" /\ task[x][b].step # "answer"
        /\ task[x]["send"].step = "answer" =>
               task[x]["send"].place \in Stored /\ messages[task[x]["send"].place].from = x
        /\ task[x]["send"].step = "post" => task[x]["send"].before < own[x]
    BY <1>0, Zenon DEF TaskInv, At
  <2>1. CASE x = d
    <3>1. screen[x] # "closed"
      BY <1>1, <1>2, <2>0, <2>1 DEF At
    <3>2. \A b \in Activities \ {"send"} : task'[x][b] = task[x][b]
      BY <1>7
    <3> QED
      BY <1>1, <1>3, <1>4, <1>5, <1>6, <2>0, <2>1, <3>1, <3>2 DEF At
  <2>2. CASE x # d
    <3>1. \A b \in Activities : task'[x][b] = task[x][b]
      BY <1>7, <2>2
    <3> QED
      BY <1>1, <1>2, <1>4, <2>0, <3>1 DEF At
  <2> QED
    BY <2>1, <2>2
<1>11. PositionInv'
  <2> SUFFICES ASSUME NEW x \in Devices, "unsure" \notin trouble[x], NEW p \in Stored',
                      messages'[p].from = x, messages'[p].gen = keys[x]
               PROVE  /\ messages'[p].index < own[x]
                      /\ At(x, "send", "post")' => messages'[p].index < task'[x]["send"].before
    BY <1>1 DEF PositionInv
  <2>1. At(x, "send", "post")' => x # d /\ task'[x]["send"] = task[x]["send"] /\ At(x, "send", "post")
    BY <1>2, <1>5, <1>6, <1>7 DEF At
  <2>2. CASE p \in Stored
    BY <1>0, <1>4, <2>1, <2>2 DEF PositionInv
  <2>3. CASE p = n
    BY <1>2, <1>3, <1>4, <2>1, <2>3
  <2> QED
    BY <1>4, <2>2, <2>3
<1>12. DeliveryInv'
  <2> SUFFICES ASSUME NEW x \in Devices, trouble[x] = {}, keys[x] = 1
               PROVE  /\ \A e \in envelopes : e.from = x => e.index <= own[x]
                      /\ \A b \in Activities : At(x, b, "settle")' =>
                             \A r \in task'[x][b].audience : keys[r] = 1 =>
                                 HandedOver(x, r) \/ \E o \in task'[x][b].owed : o.to = r
                      /\ At(x, "send", "post")' =>
                             \A r \in task'[x]["send"].audience : keys[r] = 1 =>
                                 \E e \in envelopes : e.from = x /\ e.to = r
                                                      /\ e.index <= task'[x]["send"].before
    <3>1. \A x, r \in Devices : HandedOver(x, r)' = HandedOver(x, r)
      BY <1>1 DEF HandedOver
    <3> QED
      BY <1>1 DEF DeliveryInv, HandedOver
  <2>1. \A b \in Activities : At(x, b, "settle")' => task'[x][b] = task[x][b] /\ At(x, b, "settle")
    BY <1>7 DEF At
  <2>2. At(x, "send", "post")' => task'[x]["send"] = task[x]["send"] /\ At(x, "send", "post")
    BY <1>2, <1>7 DEF At
  <2> QED
    BY <1>0, <2>1, <2>2 DEF DeliveryInv
<1>13. ASSUME NEW s \in Devices, NEW x \in Devices, NEW c, Fresh(s, x, c), known[x] = keys[x]
       PROVE  \A p \in Stored' :
                  messages'[p].from = s /\ messages'[p].gen = c.gen /\ messages'[p].index >= c.index =>
                      messages'[p].knew[x] = keys'[x] \/ "unsure" \in trouble'[s]
  <2> SUFFICES ASSUME NEW p \in Stored', messages'[p].from = s, messages'[p].gen = c.gen,
                      messages'[p].index >= c.index
               PROVE  messages'[p].knew[x] = keys[x] \/ "unsure" \in trouble[s]
    BY <1>1
  <2>1. CASE p \in Stored
    BY <1>4, <1>13, <2>1 DEF Fresh
  <2>2. CASE p = n
    BY <1>3, <1>4, <1>13, <2>2
  <2> QED
    BY <1>4, <2>1, <2>2
<1>14. SecrecyInv'
  <2>0. \A x \in Devices : known[x] \in Nat /\ keys[x] \in Nat /\ known[x] <= keys[x]
    BY <1>0 DEF KeysInv, ChatTypeOK
  <2>1. ASSUME NEW e \in envelopes', e.pk = keys'[e.to]
        PROVE  Fresh(e.from, e.to, e)'
    <3>1. e \in envelopes /\ e.pk = keys[e.to] /\ e.from \in Devices /\ e.to \in Devices
      BY <1>0, <1>1, <2>1 DEF ChatTypeOK, Envelopes
    <3>2. Fresh(e.from, e.to, e) /\ e.pk \in 1..known[e.to]
      BY <1>0, <3>1 DEF SecrecyInv, KeysInv
    <3>3. known[e.to] = keys[e.to]
      BY <2>0, <3>1, <3>2
    <3> QED
      BY <1>13, <3>1, <3>2, <3>3 DEF Fresh
  <2>2. ASSUME NEW x \in Devices, NEW b \in Activities, NEW e \in task'[x][b].inbound, e.pk = keys'[x]
        PROVE  Fresh(e.from, x, e)'
    <3>1. e \in task[x][b].inbound /\ e.pk = keys[x]
      BY <1>1, <1>7, <2>2
    <3>2. e.from \in Devices
      BY <1>0, <3>1, ChatFacts DEF Tasks, Envelopes
    <3>3. Fresh(e.from, x, e) /\ e.pk \in 1..known[x]
      BY <1>0, <3>1 DEF SecrecyInv, KeysInv
    <3>4. known[x] = keys[x]
      BY <2>0, <3>1, <3>3
    <3> QED
      BY <1>13, <3>2, <3>3, <3>4 DEF Fresh
  <2>3. ASSUME NEW x \in Devices, NEW s \in Devices, chains'[x][s] # NoRow
        PROVE  (known[x] = keys[x] /\ Fresh(s, x, chains[x][s]))'
    <3>1. known[x] = keys[x] /\ Fresh(s, x, chains[x][s])
      BY <1>0, <1>1, <2>3 DEF SecrecyInv
    <3> QED
      BY <1>1, <1>13, <3>1 DEF Fresh
  <2> QED
    BY <2>1, <2>2, <2>3 DEF SecrecyInv
<1>15. CursorInv'
  <2> SUFFICES ASSUME NEW x \in Devices
               PROVE  /\ screen'[x] # "closed" => Covered(x, cursor[x])'
                      /\ \A q \in log'[x] \cup pending'[x] : Covered(x, q)'
                      /\ At(x, "poll", "drain")' =>
                             /\ Covered(x, task[x]["poll"].since)'
                             /\ task'[x]["poll"].since <= task'[x]["poll"].upto
    BY Zenon DEF CursorInv
  <2>0. "poll" \in Activities /\ Len(messages) \in Nat /\ task[x]["poll"].since \in 0..Len(messages)
        /\ cursor[x] \in 0..Len(messages)
        /\ \A q \in log[x] \cup pending[x] : q \in 0..Len(messages)
    <3>1. "poll" \in Activities
      BY DEF Activities
    <3>2. Len(messages) \in Nat /\ task[x]["poll"] \in Tasks
      BY <1>0, <3>1, ChatFacts
    <3>3. log[x] \cup pending[x] \subseteq Stored /\ cursor[x] \in 0..Len(messages)
      BY <1>0 DEF ChatTypeOK
    <3>4. \A q \in Stored : q \in 0..Len(messages)
      BY <3>2 DEF Stored
    <3> QED
      BY <3>1, <3>2, <3>3, <3>4 DEF Tasks
  <2>1. \A k \in 0..Len(messages) : Covered(x, k) => Covered(x, k)'
    <3>1. \A k \in 0..Len(messages) : \A p \in 1..k : p \in Stored
      BY <2>0 DEF Stored
    <3> QED
      BY <1>1, <1>4, <3>1 DEF Covered
  <2>2. task'[x]["poll"] = task[x]["poll"]
    BY <1>7, <2>0
  <2>3. screen[x] # "closed" => Covered(x, cursor[x])'
    <3>1. screen[x] # "closed" => \A p \in 1..cursor[x] : messages'[p].from # x =>
              p \in log'[x] \cup refused'[x] \cup pending'[x] \cup passed'[x]
      BY <1>0, <2>0, <2>1 DEF CursorInv, Covered
    <3> QED
      BY <1>1, <3>1 DEF Covered
  <2>4. At(x, "poll", "drain") => Covered(x, task[x]["poll"].since)'
    <3>1. At(x, "poll", "drain") => \A p \in 1..task[x]["poll"].since : messages'[p].from # x =>
              p \in log'[x] \cup refused'[x] \cup pending'[x] \cup passed'[x]
      BY <1>0, <2>0, <2>1 DEF CursorInv, Covered
    <3> QED
      BY <2>2, <3>1 DEF Covered
  <2>5. \A q \in log[x] \cup pending[x] : Covered(x, q)'
    BY <1>0, <2>0, <2>1 DEF CursorInv
  <2> QED
    BY <1>0, <1>1, <2>2, <2>3, <2>4, <2>5 DEF CursorInv, At
<1>16. LockedOutOnlyByMishap'
  <2> SUFFICES ASSUME NEW p \in Stored', messages'[p].out # {}
               PROVE  \/ trouble[messages'[p].from] # {} \/ messages'[p].gen > 1
                      \/ \E r \in messages'[p].out : keys[r] > 1
    BY <1>1 DEF LockedOutOnlyByMishap, Stored
  <2>1. CASE p \in Stored
    BY <1>0, <1>4, <2>1 DEF LockedOutOnlyByMishap, Stored
  <2>2. CASE p = n
    <3> SUFFICES ASSUME trouble[d] = {}, ~(keys[d] > 1), NEW r \in m.out, ~(keys[r] > 1)
                 PROVE  FALSE
      BY <1>3, <1>4, <2>2
    <3>1. r \in Devices /\ r \in task[d]["send"].audience
      BY <1>2, <1>3
    <3>2. keys[d] = 1 /\ keys[r] = 1 /\ known[r] <= 1 /\ known[r] \in Nat
      BY <1>0, <3>1 DEF KeysInv, ChatTypeOK
    <3>3. PICK e \in envelopes : e.from = d /\ e.to = r /\ e.index <= i
      BY <1>0, <1>1, <3>1, <3>2 DEF DeliveryInv, i
    <3>4. e.pk \in 1..known[r] /\ e.gen \in 1..keys[d]
      BY <1>0, <3>3 DEF KeysInv
    <3>5. e.pk = keys[r] /\ e.gen = keys[d]
      BY <3>2, <3>4
    <3> QED
      BY <1>3, <3>3, <3>5
  <2> QED
    BY <1>4, <2>1, <2>2
<1>17. ReadsNothingEarlier'
  <2> SUFFICES ASSUME NEW x \in Devices, NEW p \in log[x] \ handed[x], messages'[p].from # x
               PROVE  messages'[p].knew[x] = keys[x] \/ "unsure" \in trouble[messages'[p].from]
    BY <1>1, Zenon DEF ReadsNothingEarlier
  <2>1. p \in Stored
    BY <1>0 DEF ChatTypeOK
  <2> QED
    BY <1>0, <1>4, <2>1 DEF ReadsNothingEarlier
<1>18. OwedInv'
  <2>1. \A x \in Devices, b \in Activities : task'[x][b].owed = task[x][b].owed
    BY <1>7
  <2> QED
    BY <1>0, <2>1, OwedKept
<1> QED
  BY <1>8, <1>9, <1>10, <1>11, <1>12, <1>14, <1>15, <1>16, <1>17, <1>18, Zenon DEF ChatInv

(***************************************************************************)
(* The theorems.                                                           *)
(***************************************************************************)

LEMMA ChatStarts ==
    ASSUME ChatInit
    PROVE  ChatInv
<1>1. /\ known = [d \in Devices |-> IF d \in Early THEN 1 ELSE 0]
      /\ envelopes = {} /\ messages = <<>> /\ history = [d \in Devices |-> NoRow]
      /\ keys = [d \in Devices |-> 1] /\ own = [d \in Devices |-> 0]
      /\ chains = [d \in Devices |-> [s \in Devices |-> NoRow]]
      /\ log = [d \in Devices |-> {}] /\ pending = [d \in Devices |-> {}]
      /\ cursor = [d \in Devices |-> 0]
      /\ screen = [d \in Devices |-> IF d \in Early THEN "ready" ELSE "closed"]
      /\ task = [d \in Devices |-> [a \in Activities |-> Idle]]
      /\ refused = [d \in Devices |-> {}] /\ handed = [d \in Devices |-> {}]
      /\ passed = [d \in Devices |-> {}] /\ trouble = [d \in Devices |-> {}]
      /\ mishaps = 0
  BY DEF ChatInit
<1>2. Len(messages) = 0 /\ Stored = {}
  BY <1>1 DEF Stored
<1>3. /\ Idle \in Tasks /\ Idle.step = "idle" /\ Idle.owed = {} /\ Idle.inbound = {}
  BY <1>2 DEF Idle, Tasks, Steps, Pasts
<1> HIDE DEF Idle
<1>4. ChatTypeOK
  <2>1. known \in [Devices -> Nat] /\ keys \in [Devices -> Nat] /\ own \in [Devices -> Nat]
    BY <1>1
  <2>2. /\ envelopes \subseteq Envelopes /\ messages \in Seq(Rows)
        /\ \A e, x \in envelopes : e.from = x.from /\ e.to = x.to => e = x
    BY <1>1
  <2>3. history \in [Devices -> Pasts]
        /\ chains \in [Devices -> [Devices -> Chains \cup {NoRow}]]
    BY <1>1 DEF Pasts
  <2>4. /\ log \in [Devices -> SUBSET Stored] /\ pending \in [Devices -> SUBSET Stored]
        /\ refused \in [Devices -> SUBSET Stored] /\ handed \in [Devices -> SUBSET Stored]
        /\ passed \in [Devices -> SUBSET Stored] /\ cursor \in [Devices -> 0..Len(messages)]
    BY <1>1, <1>2
  <2>5. /\ screen \in [Devices -> {"closed", "setup", "ready", "failed"}]
        /\ trouble \in [Devices -> SUBSET {"missed", "rewound", "unsure"}] /\ mishaps \in Nat
    BY <1>1
  <2>6. task \in [Devices -> [Activities -> Tasks]]
    BY <1>1, <1>3
  <2> QED
    BY <2>1, <2>2, <2>3, <2>4, <2>5, <2>6 DEF ChatTypeOK
<1>5. \A d \in Devices, a \in Activities : task[d][a] = Idle
  BY <1>1
<1>6. KeysInv /\ OwedInv
  BY <1>1, <1>2, <1>3, <1>5 DEF KeysInv, OwedInv
<1>7. TaskInv
  <2>1. "send" \in Activities
    BY DEF Activities
  <2> QED
    BY <1>3, <1>5, <2>1 DEF TaskInv, At
<1>8. PositionInv
  BY <1>2 DEF PositionInv
<1>9. DeliveryInv
  <2>1. "send" \in Activities
    BY DEF Activities
  <2> QED
    BY <1>1, <1>3, <1>5, <2>1 DEF DeliveryInv, At
<1>10. SecrecyInv
  BY <1>1, <1>3, <1>5 DEF SecrecyInv
<1>11. CursorInv
  <2>1. "poll" \in Activities
    BY DEF Activities
  <2>2. \A d \in Devices : Covered(d, cursor[d]) /\ log[d] = {} /\ pending[d] = {}
    BY <1>1 DEF Covered
  <2> QED
    BY <1>3, <1>5, <2>1, <2>2 DEF CursorInv, At
<1>12. LockedOutOnlyByMishap /\ ReadsNothingEarlier
  BY <1>1, <1>2 DEF LockedOutOnlyByMishap, ReadsNothingEarlier, Stored
<1> QED
  BY <1>4, <1>6, <1>7, <1>8, <1>9, <1>10, <1>11, <1>12 DEF ChatInv

LEMMA ChatStutters ==
    ASSUME ChatInv, UNCHANGED chatVars
    PROVE  ChatInv'
<1>1. /\ known' = known /\ envelopes' = envelopes /\ history' = history /\ messages' = messages
      /\ keys' = keys /\ own' = own /\ chains' = chains /\ log' = log /\ pending' = pending
      /\ cursor' = cursor /\ screen' = screen /\ task' = task /\ refused' = refused
      /\ handed' = handed /\ passed' = passed /\ trouble' = trouble /\ mishaps' = mishaps
  BY DEF chatVars, server, device, seen
<1>2. ChatTypeOK' /\ KeysInv' /\ TaskInv' /\ OwedInv'
  BY <1>1, SameTypes DEF ChatInv, ChatTypeOK, KeysInv, TaskInv, OwedInv, At
<1>3. PositionInv' /\ DeliveryInv' /\ SecrecyInv' /\ CursorInv'
  BY <1>1, SameTypes DEF ChatInv, PositionInv, DeliveryInv, SecrecyInv, CursorInv, At, HandedOver,
                         Fresh, Covered
<1>4. LockedOutOnlyByMishap' /\ ReadsNothingEarlier'
  BY <1>1 DEF ChatInv, LockedOutOnlyByMishap, ReadsNothingEarlier
<1> QED
  BY <1>2, <1>3, <1>4 DEF ChatInv

\* Every state of the chat satisfies the inductive invariant.
THEOREM ChatInvariantHolds == ChatSpec => []ChatInv
<1>1. ChatInit => ChatInv
  BY ChatStarts
<1>2. ChatInv /\ [ChatNext]_chatVars => ChatInv'
  <2> SUFFICES ASSUME ChatInv, [ChatNext]_chatVars
               PROVE  ChatInv'
    OBVIOUS
  <2>1. CASE UNCHANGED chatVars
    BY <2>1, ChatStutters
  <2>2. ASSUME NEW d \in Devices, OpenChat(d)
        PROVE  ChatInv'
    BY <2>2, OpenChatKeeps
  <2>3. ASSUME NEW d \in Devices, CloseChat(d) \/ Wipe(d)
        PROVE  ChatInv'
    BY <2>3, LeaveKeeps
  <2>4. ASSUME NEW d \in Devices, NEW a \in Activities, FetchKeys(d, a)
        PROVE  ChatInv'
    BY <2>4, FetchKeysKeeps
  <2>5. ASSUME NEW d \in Devices, NEW a \in Activities,
               SettleKeys(d, a) \/ PublishLost(d, a) \/ SyncLost(d, a)
        PROVE  ChatInv'
    BY <2>5, SyncKeeps
  <2>6. ASSUME NEW d \in Devices, Store(d)
        PROVE  ChatInv'
    BY <2>6, StoreKeeps
  <2>7. ASSUME NEW d \in Devices, Answered(d)
        PROVE  ChatInv'
    BY <2>7, AnsweredKeeps
  <2>8. ASSUME NEW d \in Devices, Refused(d) \/ RequestLost(d) \/ AnswerLost(d)
        PROVE  ChatInv'
    BY <2>8, RewindKeeps
  <2>9. ASSUME NEW d \in Devices, Poll(d) \/ PollLost(d)
        PROVE  ChatInv'
    BY <2>9, PollKeeps
  <2>10. ASSUME NEW d \in Devices, Receive(d) \/ DrainAgain(d)
         PROVE  ChatInv'
    BY <2>10, ReceiveKeeps
  <2> QED
    BY <2>1, <2>2, <2>3, <2>4, <2>5, <2>6, <2>7, <2>8, <2>9, <2>10, Zenon DEF ChatNext, Sync
<1> QED
  BY <1>1, <1>2, PTL DEF ChatSpec

\* Rows, stored keys and activities keep their shape, and a chain that is put back
\* never falls below its start (rewindOwnChain).
THEOREM ChatTypeCorrect == ChatSpec => []ChatTypeOK
<1>1. ChatInv => ChatTypeOK
  BY DEF ChatInv
<1> QED
  BY <1>1, ChatInvariantHolds, PTL

\* A device that was in the list when a message was prepared is left out of it only
\* by a failed synchronisation, by a chain that was put back or by cleared keys.
THEOREM NobodyIsLockedOut == ChatSpec => []LockedOutOnlyByMishap
<1>1. ChatInv => LockedOutOnlyByMishap
  BY DEF ChatInv
<1> QED
  BY <1>1, ChatInvariantHolds, PTL

\* POST /messages refuses a position that is used; a sender meets that refusal only
\* after the answer to a stored message was lost, or under a new chain.
THEOREM ChainsDoNotJam == ChatSpec => []JammedOnlyByLostAnswer
<1>1. ChatInv => JammedOnlyByLostAnswer
  <2> SUFFICES ASSUME ChatInv, NEW d \in Devices, Jammed(d),
                      "unsure" \notin trouble[d], ~(keys[d] > 1)
               PROVE  FALSE
    BY DEF JammedOnlyByLostAnswer
  <2>1. ChatTypeOK /\ KeysInv /\ PositionInv
    BY DEF ChatInv
  <2>2. keys[d] = 1
    BY <2>1 DEF KeysInv, ChatTypeOK
  <2>3. PICK p \in Stored : messages[p].from = d /\ messages[p].index =
            IF At(d, "send", "post") THEN task[d]["send"].before ELSE own[d]
    BY DEF Jammed, Clash, Stored
  <2>4. messages[p].gen = keys[d]
    BY <2>1, <2>2, <2>3 DEF KeysInv
  <2>5. /\ messages[p].index < own[d]
        /\ At(d, "send", "post") => messages[p].index < task[d]["send"].before
    BY <2>1, <2>3, <2>4 DEF PositionInv
  <2>6. messages[p].index \in Nat
    BY <2>1, ChatFacts DEF Rows
  <2> QED
    BY <2>3, <2>5, <2>6
<1> QED
  BY <1>1, ChatInvariantHolds, PTL

\* What the cursor of an open screen is past has been read, refused, kept for its
\* chain, or jumped over by an own message, a reload or a history.
THEOREM NothingIsSkipped == ChatSpec => []SkippedOnlyByJump
<1>1. ChatInv => SkippedOnlyByJump
  BY DEF ChatInv, CursorInv, Covered, SkippedOnlyByJump
<1> QED
  BY <1>1, ChatInvariantHolds, PTL

\* Forward secrecy: a device decrypts nothing that was stored before its present
\* keys were registered, unless the sender put its chain back over a stored message.
THEOREM NothingEarlierIsRead == ChatSpec => []ReadsNothingEarlier
<1>1. ChatInv => ReadsNothingEarlier
  BY DEF ChatInv
<1> QED
  BY <1>1, ChatInvariantHolds, PTL
===============================================================================

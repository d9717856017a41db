------------------------------- MODULE GroupCart -------------------------------
(***************************************************************************)
(* One shared cart of groups.routes.ts: members join by code, add and      *)
(* remove their dishes (or take a seat of a shared ride), the host swaps   *)
(* dishes for a group pack and places the combined order.  Every handler   *)
(* reads the cart first and writes later, and no write repeats the check.  *)
(***************************************************************************)
EXTENDS Integers, FiniteSetsExt, Sequences

CONSTANTS
    People,
    Host,
    Items,      \* item rows that can be created, with their quantity folded in
    Packs,      \* those of them that are packs
    Owner,      \* who adds each item; packs are added by the host
    Price,
    Seats,      \* SEATS of the shared vehicle
    Serves,     \* how many a pack feeds
    Requests,   \* slots for requests in flight
    MaxAborts   \* bound on requests that die half way

ASSUME GroupAssumption ==
    /\ Host \in People /\ IsFiniteSet(People)
    /\ Requests # {} /\ IsFiniteSet(Requests)
    /\ Packs \subseteq Items
    /\ Owner \in [Items -> People] /\ \A i \in Packs : Owner[i] = Host
    /\ Price \in [Items -> Nat]
    /\ Seats \in Nat \ {0} /\ Serves \in Nat /\ MaxAborts \in Nat

VARIABLES
    domain,    \* "food" or "ride", fixed when the cart is created
    status,    \* "open" or "ordered": nothing writes "locked" or "cancelled"
    orderId,   \* the order the cart points to (0: none)
    members,   \* GroupCartMember rows
    items,     \* GroupCartItem rows
    made,      \* items that were ever created
    late,      \* history: people and items that came after a checkout read the cart
    orders,    \* orders placed for the cart: their lines and the people they bill
    req,
    aborts

cart == <<status, orderId>>
content == <<members, items, made, late>>
cartVars == <<domain, status, orderId, members, items, made, late, orders, req, aborts>>

\* lines and riders: what the request read of the cart; placed: its order.
NoRequest == [step |-> "idle", who |-> Host, lines |-> {}, riders |-> {}, placed |-> 0]

\* POST /groups seats the host; a food cart reopened from a crew seats the crew.
CartInit ==
    /\ domain \in {"food", "ride"}
    /\ members \in {m \in SUBSET People : Host \in m /\ (domain = "ride" => m = {Host})}
    /\ status = "open" /\ orderId = 0
    /\ items = {} /\ made = {} /\ late = {}
    /\ orders = <<>>
    /\ req = [r \in Requests |-> NoRequest]
    /\ aborts = 0

Doing(r, step) == req[r].step = step
Proceed(r, q) == req' = [req EXCEPT ![r] = q]
Finish(r) == Proceed(r, NoRequest)

\* Mutant: the status is not looked at.
OpenOrNot == status \in {"open", "ordered"}

IsOpen == status = "open"

\* assertMember; no row of GroupCartMember is ever deleted, so it stays true.
\* Mutant: anyone with the cart's id may add.
MayEnterAlways(p) == TRUE

MayEnter(p) == p = Host \/ p \in members

Ordering == orders # <<>> \/ \E r \in Requests : req[r].step \in {"order", "close"}

Late(x) == late' = IF Ordering THEN late \cup {x} ELSE late

-----------------------------------------------------------------------------
(* POST /groups/join *)

HasRoom(p) == p \in members \/ Cardinality(members) < Seats

JoinStart(r, p) ==
    /\ Doing(r, "idle") /\ p # Host
    /\ IsOpen
    /\ domain = "ride" => HasRoom(p)
    /\ Proceed(r, [NoRequest EXCEPT !.step = "join", !.who = p])
    /\ UNCHANGED <<domain, cart, content, orders, aborts>>

Join(r) ==
    LET p == req[r].who IN
    /\ Doing(r, "join")
    /\ members' = members \cup {p}
    /\ IF p \in members THEN UNCHANGED late ELSE Late(p)
    /\ Finish(r)
    /\ UNCHANGED <<domain, cart, items, made, orders, aborts>>

-----------------------------------------------------------------------------
(* POST /groups/:id/items, DELETE /groups/:id/items/:itemId *)

AddStart(r, p) ==
    /\ Doing(r, "idle")
    /\ domain = "food" /\ IsOpen /\ MayEnter(p)
    /\ Proceed(r, [NoRequest EXCEPT !.step = "add", !.who = p])
    /\ UNCHANGED <<domain, cart, content, orders, aborts>>

AddItem(r, i) ==
    /\ Doing(r, "add")
    /\ Owner[i] = req[r].who /\ i \notin Packs \cup made
    /\ items' = items \cup {i} /\ made' = made \cup {i}
    /\ Late(i)
    /\ Finish(r)
    /\ UNCHANGED <<domain, cart, members, orders, aborts>>

\* One's own items only; an ordered cart is not refused.
RemoveItem(i) ==
    /\ i \in items
    /\ items' = items \ {i}
    /\ UNCHANGED <<domain, cart, members, made, late, orders, req, aborts>>

-----------------------------------------------------------------------------
(* POST /groups/:id/suggestion/apply *)

\* suggestForCart, with one theme that every dish belongs to: two people have
\* agreed on it, a pack feeds all of them and is cheaper.
Matching(cartItems) == cartItems \ Packs

Justified(cartItems, pack) ==
    LET matching == Matching(cartItems) IN
    /\ Cardinality({Owner[i] : i \in matching}) >= 2
    /\ Max({Cardinality(matching), Cardinality(members)}) <= Serves
    /\ Price[pack] < MapThenSumSet(LAMBDA i : Price[i], matching)

ApplyStart(r) ==
    /\ Doing(r, "idle")
    /\ IsOpen
    /\ Proceed(r, [NoRequest EXCEPT !.step = "suggest"])
    /\ UNCHANGED <<domain, cart, content, orders, aborts>>

\* The suggestion is worked out again from the rows; if it does not apply, 409.
Suggest(r) ==
    /\ Doing(r, "suggest")
    /\ IF \E pack \in Packs : Justified(items, pack)
          THEN Proceed(r, [NoRequest EXCEPT !.step = "apply", !.lines = Matching(items)])
          ELSE Finish(r)
    /\ UNCHANGED <<domain, cart, content, orders, aborts>>

Apply(r, pack) ==
    /\ Doing(r, "apply")
    /\ pack \in Packs \ made
    /\ items' = (items \ req[r].lines) \cup {pack}
    /\ made' = made \cup {pack}
    /\ Late(pack)
    /\ Finish(r)
    /\ UNCHANGED <<domain, cart, members, orders, aborts>>

-----------------------------------------------------------------------------
(* POST /groups/:id/checkout *)

\* Mutant: the host's own dishes are left out.
ItemsOfGuests == {i \in items : Owner[i] # Host}

CartItems == items

Riders == members

CheckoutStart(r) ==
    /\ Doing(r, "idle")
    /\ IsOpen
    /\ domain = "food" => items # {}
    /\ Proceed(r, [NoRequest EXCEPT !.step = "order", !.lines = CartItems, !.riders = Riders])
    /\ UNCHANGED <<domain, cart, content, orders, aborts>>

\* No delivery address, or the ride option is gone.
Decline(r) ==
    /\ Doing(r, "order")
    /\ Finish(r)
    /\ UNCHANGED <<domain, cart, content, orders, aborts>>

Billed(q) == IF domain = "ride" THEN q.riders ELSE {Owner[i] : i \in q.lines}

\* Mutant: the handler answers without closing the cart.
PlaceOrderOnly(r) ==
    /\ Doing(r, "order")
    /\ orders' = Append(orders, [lines |-> req[r].lines, billed |-> Billed(req[r])])
    /\ Finish(r)
    /\ UNCHANGED <<domain, cart, content, aborts>>

PlaceOrder(r) ==
    /\ Doing(r, "order")
    /\ orders' = Append(orders, [lines |-> req[r].lines, billed |-> Billed(req[r])])
    /\ Proceed(r, [req[r] EXCEPT !.step = "close", !.placed = Len(orders) + 1])
    /\ UNCHANGED <<domain, cart, content, aborts>>

\* groupCart.update by id: whatever the cart points to by now is overwritten.
Close(r) ==
    /\ Doing(r, "close")
    /\ status' = "ordered"
    /\ orderId' = req[r].placed
    /\ Finish(r)
    /\ UNCHANGED <<domain, content, orders, aborts>>

\* The process dies in the middle of a request, or a query fails.
Abort(r) ==
    /\ ~Doing(r, "idle")
    /\ aborts < MaxAborts
    /\ aborts' = aborts + 1
    /\ Finish(r)
    /\ UNCHANGED <<domain, cart, content, orders>>

-----------------------------------------------------------------------------

Start(r) ==
    \/ \E p \in People : JoinStart(r, p) \/ AddStart(r, p)
    \/ ApplyStart(r) \/ CheckoutStart(r)

RunOn(r) ==
    \/ Join(r) \/ Suggest(r) \/ Decline(r) \/ PlaceOrder(r) \/ Close(r)
    \/ \E i \in Items : AddItem(r, i) \/ Apply(r, i)

CartNext ==
    \/ \E r \in Requests : Start(r) \/ RunOn(r) \/ Abort(r)
    \/ \E i \in Items : RemoveItem(i)

CartSpec == CartInit /\ [][CartNext]_cartVars

\* Node runs a handler that started to its end.
CartFairSpec == CartSpec /\ \A r \in Requests : WF_cartVars(RunOn(r))

(***************************************************************************)
(* Properties                                                              *)
(***************************************************************************)

CartTypeOK ==
    /\ domain \in {"food", "ride"} /\ status \in {"open", "ordered"}
    /\ orderId \in 0..Len(orders) /\ (orderId = 0 <=> status = "open")
    /\ members \subseteq People /\ items \subseteq made /\ made \subseteq Items
    /\ late \subseteq members \cup made
    /\ orders \in Seq([lines : SUBSET Items, billed : SUBSET People])
    /\ req \in [Requests -> [step : {"idle", "join", "add", "suggest", "apply",
                                     "order", "close"},
                             who : People, lines : SUBSET Items,
                             riders : SUBSET People, placed : 0..Len(orders)]]
    /\ aborts \in 0..MaxAborts

\* "Don't let a 5th person into a cab": the ride is overfull only by joins that
\* were in flight together, never by more than that.
OverfullOnlyByRace ==
    domain = "ride" => Cardinality(members) < Seats + Cardinality(Requests)

\* The host's cart is ordered again only by checkouts that were in flight
\* together, or when one died before it closed the cart.
ReorderedOnlyByRace == Len(orders) <= Cardinality(Requests) + aborts

\* The seats of a ride and the one order of a cart are exceeded only by requests
\* that were in flight together, or by a checkout that died before it closed.
LimitsBreakOnlyByRace == OverfullOnlyByRace /\ ReorderedOnlyByRace

\* One cart, one order.
OneOrderPerCart == Len(orders) <= 1

\* H2: whatever is in the cart or in an order was put there by someone who had
\* joined, and nobody else is billed.
OnlyMembersAreBilled ==
    /\ \A i \in made : MayEnter(Owner[i])
    /\ \A n \in 1..Len(orders) : orders[n].billed \subseteq members \cup {Host}

\* An item that was in the cart when the host pressed checkout, and is still
\* there, is in every order placed for the cart.
EarlyItemsAreOrdered ==
    \A n \in 1..Len(orders) : domain = "food" => items \ late \subseteq orders[n].lines

\* Everyone who was in the ride when the host pressed checkout has a share.
EarlyRidersShare ==
    \A n \in 1..Len(orders) : domain = "ride" => members \ late \subseteq orders[n].billed

\* What the host saw when pressing checkout, and is still there, is in the order.
EarlyContentIsOrdered == EarlyItemsAreOrdered /\ EarlyRidersShare

\* An order closes its cart, unless its request dies first.
OrderClosesCart == orders # <<>> ~> status = "ordered" \/ aborts > 0

-----------------------------------------------------------------------------
(* The inductive invariant behind the safety properties.                   *)

\* What a request read of the cart still holds of it, but for what came late.
RequestInv(q) ==
    /\ q.step = "add" => MayEnter(q.who)
    /\ q.step = "order" =>
           /\ q.lines \subseteq made /\ q.riders \subseteq members
           /\ domain = "food" => items \ late \subseteq q.lines
           /\ domain = "ride" => members \ late \subseteq q.riders
    /\ q.step = "close" => q.placed # 0

During(step) == {r \in Requests : Doing(r, step)}

\* A request that found a seat free and has not taken it.
Joining == {r \in During("join") : req[r].who \notin members}

SeatsInv == domain = "ride" =>
    Cardinality(members) + Cardinality(Joining) < Seats + Cardinality(Requests)

\* An open cart has no order but those of requests about to close it, or dead.
OrdersInv ==
    /\ Len(orders) + Cardinality(During("order")) <= Cardinality(Requests) + aborts
    /\ status = "open" => Len(orders) <= Cardinality(During("close")) + aborts

CartInv ==
    /\ CartTypeOK
    /\ \A r \in Requests : RequestInv(req[r])
    /\ OnlyMembersAreBilled /\ EarlyContentIsOrdered
    /\ SeatsInv /\ OrdersInv
===============================================================================

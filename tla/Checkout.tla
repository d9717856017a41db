------------------------------ MODULE Checkout ------------------------------
(***************************************************************************)
(* Paying for, cancelling, completing and refunding an order:              *)
(* payments.routes.ts, orders.routes.ts (cancel and view), wallet.service  *)
(* .ts, admin.service.ts (flagRefund) and super.service.ts (approve and    *)
(* reject).  Every handler is a request that runs one database or gateway  *)
(* access per step, keeping what it read earlier in its own locals, so the *)
(* steps of two handlers interleave exactly where the code awaits.         *)
(*                                                                         *)
(* The configuration is the production one: Cashfree is configured and the *)
(* demo and simulated routes are off.  All orders belong to one buyer.     *)
(***************************************************************************)
EXTENDS Integers

CONSTANTS
    Orders,           \* the buyer's orders
    FoodOrders,       \* those with the out-for-delivery cancellation cut-off
    Requests,         \* slots for requests in flight
    Operations,       \* the endpoints an instance's clients call
    Price,            \* order.amount, in paise
    OpeningBalance,   \* reward credit the buyer starts with
    Cashback,         \* credit for completing an order (0: the share is off)
    ShortBy,          \* how much a capture may fall short of the gateway order
    SerializedTx,     \* SQLite serializes transactions, PostgreSQL does not
    MaxAborts,        \* bound on requests lost to a crash or a failed query
    NoOrder

ASSUME OrdersAssumption ==
    /\ FoodOrders \subseteq Orders
    /\ NoOrder \notin Orders
    /\ Price \in [Orders -> Nat \ {0}]

ASSUME AmountsAssumption ==
    /\ OpeningBalance \in Nat
    /\ Cashback \in Nat
    /\ ShortBy \subseteq Nat
    /\ SerializedTx \in BOOLEAN
    /\ Operations \subseteq {"checkout", "webhook", "verify", "cancel", "view",
                             "flag", "approve"}
    /\ MaxAborts \in Nat

VARIABLES
    order,      \* order.status
    credit,     \* order.details.walletAppliedPaise (0: absent)
    timelines,  \* how many times the tracking timeline was written
    stage,      \* how much of the timeline has elapsed
    payment,    \* the order's payment row
    balance,    \* sum of the buyer's wallet ledger
    spent,      \* the ledger's "spend" row of the order (0: none)
    returned,   \* its "refund" row
    rewarded,   \* whether it has a "cashback" row
    raced,      \* history: orders whose spends were under way at once
    gateway,    \* external: the order as Cashfree holds it
    req,        \* requests in flight
    aborts

orderVars == <<order, credit, timelines, stage>>
walletVars == <<balance, spent, returned, rewarded, raced>>
vars == <<order, credit, timelines, stage, payment, balance, spent, returned,
          rewarded, raced, gateway, req, aborts>>

OrderStatus == {"pending_payment", "confirmed", "completed", "cancelled"}
PaymentStatus == {"none", "created", "processing", "pending", "success",
                  "failed", "refund_pending", "refunded"}
Steps == {"idle", "sum", "debit", "annotate", "upsert", "session", "processing",
          "read", "shortfall", "claim", "ask", "cutoff", "cancel", "giveback",
          "flag", "complete", "reward", "refund", "settle", "raise"}

Idle == [step |-> "idle", order |-> NoOrder, method |-> "online",
         applied |-> 0, seen |-> 0, paid |-> 0]

Request == [step : Steps, order : Orders \cup {NoOrder},
            method : {"online", "cash", "wallet"},
            applied : Nat, seen : Nat, paid : Nat]

PaymentRow == [status : PaymentStatus, amount : Nat,
               method : {"none", "online", "cash", "wallet"}]

GatewayOrder == [state : {"none", "active", "paid", "short"},
                 amount : Nat, captured : Nat, refunded : Nat]

Init ==
    /\ order = [o \in Orders |-> "pending_payment"]
    /\ credit = [o \in Orders |-> 0]
    /\ timelines = [o \in Orders |-> 0]
    /\ stage = [o \in Orders |-> "placed"]
    /\ payment = [o \in Orders |-> [status |-> "none", amount |-> 0, method |-> "none"]]
    /\ balance = OpeningBalance
    /\ spent = [o \in Orders |-> 0]
    /\ returned = [o \in Orders |-> 0]
    /\ rewarded = [o \in Orders |-> FALSE]
    /\ raced = {}
    /\ gateway = [o \in Orders |->
                    [state |-> "none", amount |-> 0, captured |-> 0, refunded |-> 0]]
    /\ req = [r \in Requests |-> Idle]
    /\ aborts = 0

(***************************************************************************)
(* Requests.  A handler that returns or throws leaves its slot idle.       *)
(***************************************************************************)

Put(r, q) == req' = [req EXCEPT ![r] = q]

Begin(r, o, step) ==
    /\ req[r].step = "idle"
    /\ Put(r, [Idle EXCEPT !.step = step, !.order = o])

Goto(r, step) == Put(r, [req[r] EXCEPT !.step = step])

Finish(r) == Put(r, Idle)

At(r, o, step) == req[r].step = step /\ req[r].order = o

\* payableOn: what is left of the bill after the credit a handler knows of.
Payable(o, applied) == IF applied >= Price[o] THEN 0 ELSE Price[o] - applied

SetPayment(o, status) ==
    payment' = [payment EXCEPT ![o] = [payment[o] EXCEPT !.status = status]]

-----------------------------------------------------------------------------
(* POST /payments/checkout *)

CheckoutStart(r, o, useWallet, method) ==
    /\ req[r].step = "idle"
    /\ order[o] = "pending_payment"
    /\ Put(r, [Idle EXCEPT !.order = o, !.method = method, !.applied = credit[o],
                 !.step = IF useWallet /\ credit[o] = 0 THEN "sum" ELSE "upsert"])
    /\ UNCHANGED <<orderVars, payment, walletVars, gateway, aborts>>

\* The orders whose spend is between its two statements.
Spending == {o \in Orders : \E q \in Requests : At(q, o, "debit")}

\* spendFromWallet, first statement of its transaction: sum the ledger.  A
\* serializing database lets nobody else be between the two statements.
SpendSum(r, o) ==
    /\ At(r, o, "sum")
    /\ SerializedTx => \A q \in Requests : req[q].step # "debit"
    /\ \/ balance <= 0 /\ Goto(r, "upsert") /\ UNCHANGED raced
       \/ /\ balance > 0
          /\ Put(r, [req[r] EXCEPT !.seen = balance, !.step = "debit"])
          /\ raced' = IF Spending = {} THEN raced ELSE raced \cup Spending \cup {o}
    /\ UNCHANGED <<orderVars, payment, balance, spent, returned, rewarded, gateway, aborts>>

Take(r, o) == IF req[r].seen < Price[o] THEN req[r].seen ELSE Price[o]

\* Second statement: insert the debit.  The ledger's unique index makes the
\* insert fail, and the request with it, when the order already has one.
SpendDebit(r, o) ==
    /\ At(r, o, "debit")
    /\ \/ /\ spent[o] # 0
          /\ Finish(r)
          /\ UNCHANGED <<balance, spent>>
       \/ /\ spent[o] = 0
          /\ spent' = [spent EXCEPT ![o] = Take(r, o)]
          /\ balance' = balance - Take(r, o)
          /\ Put(r, [req[r] EXCEPT !.applied = Take(r, o), !.step = "annotate"])
    /\ UNCHANGED <<orderVars, payment, returned, rewarded, raced, gateway, aborts>>

\* order.update writes back the whole details document the request read.
Annotate(r, o) ==
    /\ At(r, o, "annotate")
    /\ credit' = [credit EXCEPT ![o] = req[r].applied]
    /\ Goto(r, "upsert")
    /\ UNCHANGED <<order, timelines, stage, payment, walletVars, gateway, aborts>>

\* payment.upsert, whatever the row said before.
UpsertPayment(r, o) ==
    LET payable == Payable(o, req[r].applied) IN
    /\ At(r, o, "upsert")
    /\ payment' = [payment EXCEPT ![o] =
                      [payment[o] EXCEPT !.status = "created", !.amount = payable]]
    /\ \/ /\ payable = 0
          /\ Put(r, [req[r] EXCEPT !.step = "read", !.method = "wallet"])
       \/ payable # 0 /\ req[r].method = "cash" /\ Goto(r, "read")
       \/ payable # 0 /\ req[r].method # "cash" /\ Goto(r, "session")
    /\ UNCHANGED <<orderVars, walletVars, gateway, aborts>>

\* createCashfreeOrder; 409 (the order exists there) reuses the old session.
OpenSession(r, o) ==
    /\ At(r, o, "session")
    /\ \/ gateway[o].state # "none" /\ UNCHANGED gateway
       \/ /\ gateway[o].state = "none"
          /\ gateway' = [gateway EXCEPT ![o] =
                [gateway[o] EXCEPT !.state = "active",
                                   !.amount = Payable(o, req[r].applied)]]
    /\ Goto(r, "processing")
    /\ UNCHANGED <<orderVars, payment, walletVars, aborts>>

MarkProcessing(r, o) ==
    /\ At(r, o, "processing")
    /\ SetPayment(o, "processing")
    /\ Finish(r)
    /\ UNCHANGED <<orderVars, walletVars, gateway, aborts>>

-----------------------------------------------------------------------------
(* markPaid, called by checkout (wallet, cash), the webhook and verify *)

\* Mutants: the amount check is missing, or off by one.
CoversAnything(o, paid) == TRUE
CoversStrictly(o, paid) == paid > Payable(o, credit[o])

Covers(o, paid) == paid >= Payable(o, credit[o])

MarkPaidRead(r, o) ==
    /\ At(r, o, "read")
    /\ \/ order[o] # "pending_payment" /\ Finish(r)
       \/ /\ order[o] = "pending_payment"
          /\ req[r].method = "online" /\ ~Covers(o, req[r].paid)
          /\ Goto(r, "shortfall")
       \/ /\ order[o] = "pending_payment"
          /\ req[r].method = "online" => Covers(o, req[r].paid)
          /\ Put(r, [req[r] EXCEPT !.step = "claim", !.applied = credit[o]])
    /\ UNCHANGED <<orderVars, payment, walletVars, gateway, aborts>>

\* payment.updateMany: no row, no effect.
RecordShortfall(r, o) ==
    /\ At(r, o, "shortfall")
    /\ \/ payment[o].status = "none" /\ UNCHANGED payment
       \/ payment[o].status # "none" /\ SetPayment(o, "failed")
    /\ Finish(r)
    /\ UNCHANGED <<orderVars, walletVars, gateway, aborts>>

\* Mutant: the claim is not scoped to the status.
ClaimableAlways(o) == TRUE

Claimable(o) == order[o] = "pending_payment"

SettledStatus(method) == IF method = "cash" THEN "pending" ELSE "success"

\* The status-scoped claim and what commits with it, in one transaction.
Claim(r, o) ==
    /\ At(r, o, "claim")
    /\ \/ ~Claimable(o) /\ UNCHANGED <<order, timelines, payment>>
       \/ /\ Claimable(o)
          /\ order' = [order EXCEPT ![o] = "confirmed"]
          /\ timelines' = [timelines EXCEPT ![o] = @ + 1]
          /\ payment' = [payment EXCEPT ![o] =
                [status |-> SettledStatus(req[r].method), method |-> req[r].method,
                 amount |-> IF payment[o].status = "none"
                            THEN Payable(o, req[r].applied) ELSE payment[o].amount]]
    /\ Finish(r)
    /\ UNCHANGED <<credit, stage, walletVars, gateway, aborts>>

\* POST /payments/webhook/cashfree: delivered any number of times, any time
\* after the capture, with the captured amount.
Webhook(r, o) ==
    /\ gateway[o].captured > 0
    /\ req[r].step = "idle"
    /\ Put(r, [Idle EXCEPT !.step = "read", !.order = o, !.paid = gateway[o].captured])
    /\ UNCHANGED <<orderVars, payment, walletVars, gateway, aborts>>

\* POST /payments/verify: reads the order, then asks Cashfree.
VerifyStart(r, o) ==
    /\ order[o] = "pending_payment"
    /\ Begin(r, o, "ask")
    /\ UNCHANGED <<orderVars, payment, walletVars, gateway, aborts>>

VerifyAsk(r, o) ==
    /\ At(r, o, "ask")
    /\ \/ gateway[o].state # "paid" /\ Finish(r)
       \/ /\ gateway[o].state = "paid"
          /\ Put(r, [req[r] EXCEPT !.step = "read", !.paid = gateway[o].amount])
    /\ UNCHANGED <<orderVars, payment, walletVars, gateway, aborts>>

-----------------------------------------------------------------------------
(* POST /orders/:id/cancel *)

CancelStart(r, o) ==
    /\ req[r].step = "idle"
    /\ order[o] \notin {"completed", "cancelled"}
    /\ Put(r, [Idle EXCEPT !.order = o, !.applied = credit[o],
                          !.step = IF o \in FoodOrders THEN "cutoff" ELSE "cancel"])
    /\ UNCHANGED <<orderVars, payment, walletVars, gateway, aborts>>

\* Food that is out for delivery can no longer be cancelled.
CancelCutoff(r, o) ==
    /\ At(r, o, "cutoff")
    /\ IF timelines[o] > 0 /\ stage[o] # "placed" THEN Finish(r) ELSE Goto(r, "cancel")
    /\ UNCHANGED <<orderVars, payment, walletVars, gateway, aborts>>

\* order.update by id: the status and the details document read at the start.
CancelWrite(r, o) ==
    /\ At(r, o, "cancel")
    /\ order' = [order EXCEPT ![o] = "cancelled"]
    /\ credit' = [credit EXCEPT ![o] = req[r].applied]
    /\ Goto(r, IF req[r].applied > 0 THEN "giveback" ELSE "flag")
    /\ UNCHANGED <<timelines, stage, payment, walletVars, gateway, aborts>>

\* Mutant: refundToWallet without the ledger's unique index.
RefundRowIgnored(o) == TRUE

NoRefundRow(o) == returned[o] = 0

\* refundToWallet: the unique index refuses a second refund row, and the
\* handler swallows that.
CancelGiveBack(r, o) ==
    /\ At(r, o, "giveback")
    /\ \/ ~NoRefundRow(o) /\ UNCHANGED <<returned, balance>>
       \/ /\ NoRefundRow(o)
          /\ returned' = [returned EXCEPT ![o] = returned[o] + req[r].applied]
          /\ balance' = balance + req[r].applied
    /\ Goto(r, "flag")
    /\ UNCHANGED <<orderVars, payment, spent, rewarded, raced, gateway, aborts>>

CancelFlag(r, o) ==
    /\ At(r, o, "flag")
    /\ \/ payment[o].status # "success" /\ UNCHANGED payment
       \/ payment[o].status = "success" /\ SetPayment(o, "refund_pending")
    /\ Finish(r)
    /\ UNCHANGED <<orderVars, walletVars, gateway, aborts>>

-----------------------------------------------------------------------------
(* GET /orders/:id: completes a confirmed order whose timeline has elapsed *)

ViewStart(r, o) ==
    /\ order[o] = "confirmed" /\ timelines[o] > 0 /\ stage[o] = "elapsed"
    /\ Begin(r, o, "complete")
    /\ UNCHANGED <<orderVars, payment, walletVars, gateway, aborts>>

ViewComplete(r, o) ==
    /\ At(r, o, "complete")
    /\ order' = [order EXCEPT ![o] = "completed"]
    /\ IF Cashback > 0 THEN Goto(r, "reward") ELSE Finish(r)
    /\ UNCHANGED <<credit, timelines, stage, payment, walletVars, gateway, aborts>>

\* creditCashback: one "cashback" row per order, duplicates swallowed.
ViewReward(r, o) ==
    /\ At(r, o, "reward")
    /\ \/ rewarded[o] /\ UNCHANGED <<rewarded, balance>>
       \/ /\ ~rewarded[o]
          /\ rewarded' = [rewarded EXCEPT ![o] = TRUE]
          /\ balance' = balance + Cashback
    /\ Finish(r)
    /\ UNCHANGED <<orderVars, payment, spent, returned, raced, gateway, aborts>>

-----------------------------------------------------------------------------
(* Operators: flag, approve and reject a refund *)

FlagStart(r, o) ==
    /\ payment[o].status = "success"
    /\ Begin(r, o, "raise")
    /\ UNCHANGED <<orderVars, payment, walletVars, gateway, aborts>>

FlagWrite(r, o) ==
    /\ At(r, o, "raise")
    /\ SetPayment(o, "refund_pending")
    /\ Finish(r)
    /\ UNCHANGED <<orderVars, walletVars, gateway, aborts>>

ApproveStart(r, o) ==
    /\ payment[o].status = "refund_pending"
    /\ req[r].step = "idle"
    /\ Put(r, [Idle EXCEPT !.step = "refund", !.order = o, !.paid = payment[o].amount])
    /\ UNCHANGED <<orderVars, payment, walletVars, gateway, aborts>>

\* External: Cashfree accepts one refund per refund_id, never above the capture.
GatewayAccepts(o, amount) ==
    /\ gateway[o].refunded = 0
    /\ 0 < amount /\ amount <= gateway[o].captured

ApproveRefund(r, o) ==
    /\ At(r, o, "refund")
    /\ \/ ~GatewayAccepts(o, req[r].paid) /\ Finish(r) /\ UNCHANGED gateway
       \/ /\ GatewayAccepts(o, req[r].paid)
          /\ gateway' = [gateway EXCEPT ![o] =
                            [gateway[o] EXCEPT !.refunded = req[r].paid]]
          /\ Goto(r, "settle")
    /\ UNCHANGED <<orderVars, payment, walletVars, aborts>>

\* settleRefund: the status-scoped claim.
SettleRefund(o, next) ==
    \/ payment[o].status # "refund_pending" /\ UNCHANGED payment
    \/ payment[o].status = "refund_pending" /\ SetPayment(o, next)

ApproveSettle(r, o) ==
    /\ At(r, o, "settle")
    /\ SettleRefund(o, "refunded")
    /\ Finish(r)
    /\ UNCHANGED <<orderVars, walletVars, gateway, aborts>>

RejectRefund(o) ==
    /\ payment[o].status = "refund_pending"
    /\ SettleRefund(o, "success")
    /\ UNCHANGED <<orderVars, walletVars, gateway, req, aborts>>

-----------------------------------------------------------------------------
(* The environment *)

\* External: the buyer pays the session, in full or (an offer, a partial
\* authorization) short of the amount; only a full capture makes it PAID.
Capture(o) ==
    /\ gateway[o].state = "active"
    /\ \E short \in ShortBy :
          /\ short < gateway[o].amount
          /\ gateway' = [gateway EXCEPT ![o] =
                [gateway[o] EXCEPT !.captured = gateway[o].amount - short,
                                   !.state = IF short = 0 THEN "paid" ELSE "short"]]
    /\ UNCHANGED <<orderVars, payment, walletVars, req, aborts>>

\* The timeline's timestamps pass: out_for_delivery, then the last event.
TimelineAdvances(o) ==
    /\ timelines[o] > 0 /\ stage[o] # "elapsed"
    /\ stage' = [stage EXCEPT ![o] = IF @ = "placed" THEN "out" ELSE "elapsed"]
    /\ UNCHANGED <<order, credit, timelines, payment, walletVars, gateway, req, aborts>>

\* The process restarts, or a query throws, between two steps of a handler.
Abort(r) ==
    /\ req[r].step # "idle"
    /\ aborts < MaxAborts
    /\ aborts' = aborts + 1
    /\ Finish(r)
    /\ UNCHANGED <<orderVars, payment, walletVars, gateway>>

-----------------------------------------------------------------------------

CheckoutStep(r, o) ==
    \/ SpendSum(r, o) \/ SpendDebit(r, o) \/ Annotate(r, o)
    \/ UpsertPayment(r, o) \/ OpenSession(r, o) \/ MarkProcessing(r, o)

MarkPaidStep(r, o) ==
    MarkPaidRead(r, o) \/ RecordShortfall(r, o) \/ Claim(r, o) \/ VerifyAsk(r, o)

CancelStep(r, o) ==
    CancelCutoff(r, o) \/ CancelWrite(r, o) \/ CancelGiveBack(r, o) \/ CancelFlag(r, o)

OtherStep(r, o) ==
    \/ ViewComplete(r, o) \/ ViewReward(r, o)
    \/ FlagWrite(r, o) \/ ApproveRefund(r, o) \/ ApproveSettle(r, o)

\* A request already in flight takes its next step.
Continue(r, o) ==
    CheckoutStep(r, o) \/ MarkPaidStep(r, o) \/ CancelStep(r, o) \/ OtherStep(r, o)

Start(r, o) ==
    \/ /\ "checkout" \in Operations
       /\ \E useWallet \in BOOLEAN, method \in {"online", "cash"} :
             CheckoutStart(r, o, useWallet, method)
    \/ "webhook" \in Operations /\ Webhook(r, o)
    \/ "verify" \in Operations /\ VerifyStart(r, o)
    \/ "cancel" \in Operations /\ CancelStart(r, o)
    \/ "view" \in Operations /\ ViewStart(r, o)
    \/ "flag" \in Operations /\ FlagStart(r, o)
    \/ "approve" \in Operations /\ ApproveStart(r, o)

Environment(o) == Capture(o) \/ TimelineAdvances(o) \/ RejectRefund(o)

Next ==
    \/ \E o \in Orders : Environment(o)
    \/ \E r \in Requests : Abort(r)
    \/ \E r \in Requests, o \in Orders : Start(r, o) \/ Continue(r, o)

Spec == Init /\ [][Next]_vars

(***************************************************************************)
(* Properties                                                              *)
(***************************************************************************)

TypeOK ==
    /\ order \in [Orders -> OrderStatus]
    /\ credit \in [Orders -> Nat]
    /\ timelines \in [Orders -> Nat]
    /\ stage \in [Orders -> {"placed", "out", "elapsed"}]
    /\ payment \in [Orders -> PaymentRow]
    /\ balance \in Int
    /\ spent \in [Orders -> Nat]
    /\ returned \in [Orders -> Nat]
    /\ rewarded \in [Orders -> BOOLEAN]
    /\ raced \subseteq Orders
    /\ gateway \in [Orders -> GatewayOrder]
    /\ req \in [Requests -> Request]
    /\ aborts \in 0..MaxAborts

\* "Never confirm an order for less than it costs" (markPaid): an order is
\* confirmed for delivery against cash, or the wallet debit, none of it given
\* back, and the capture together cover its price.
PaidInFull ==
    \A o \in Orders :
        order[o] = "confirmed" /\ payment[o].method # "cash" =>
            spent[o] - returned[o] + gateway[o].captured >= Price[o]

\* "An order can never end up confirmed with no payment and no tracking
\* events" (markPaid), and it never gets a second timeline, whichever of
\* checkout, webhook and verify race to confirm it.
ConfirmedOnce ==
    \A o \in Orders :
        /\ timelines[o] <= 1
        /\ order[o] = "confirmed" => timelines[o] = 1 /\ payment[o].status # "none"
        /\ order[o] = "pending_payment" => timelines[o] = 0

\* Cancelling never returns more credit than the order had taken, and credit is
\* returned only for an order that was cancelled (refundToWallet).
CreditReturnedOnce ==
    \A o \in Orders :
        /\ returned[o] <= spent[o]
        /\ returned[o] > 0 => order[o] \in {"cancelled", "completed"}

\* The amount the gateway was asked for, by whichever checkout got there first,
\* always covers what markPaid finds is owed: a capture in full is never taken
\* for an underpayment, although the credit and the session are written by
\* different steps of different requests.
FullCaptureCovers ==
    \A o \in Orders :
        order[o] = "pending_payment" /\ gateway[o].state # "none" =>
            Covers(o, gateway[o].amount)

\* Only money that was taken is flagged for a refund: a payment under review
\* has a capture behind it, or the wallet paid the whole bill.  Cash on delivery
\* is never flagged.
FlaggedWasPaid ==
    \A o \in Orders :
        payment[o].status \in {"success", "refund_pending"} =>
            gateway[o].captured > 0 \/ spent[o] = Price[o]

\* "Ops must never believe money moved when it didn't" (approveRefund): a
\* refunded payment has a refund the gateway accepted.
RefundedMoved ==
    \A o \in Orders : payment[o].status = "refunded" => gateway[o].refunded > 0

\* What goes back is real, whoever races to decide it: credit at most once and
\* only for an order that was closed, a gateway refund only for money that was
\* taken, and recorded only once the gateway moved it.
MoneyBackIsReal == CreditReturnedOnce /\ FlaggedWasPaid /\ RefundedMoved

\* Two buyers' requests cannot spend the same rupee (spendFromWallet).
WalletNeverNegative == balance >= 0

\* Whatever the isolation level, the same rupees are spent twice (spendFromWallet)
\* only by two orders whose spends were under way at once, and never by two
\* requests of one order: the ledger's unique index stops those.
OverdrawnOnlyByRace ==
    balance < 0 =>
        \E a, b \in raced : a # b /\ spent[a] > 0 /\ spent[b] > 0

\* An order never comes back from cancelled or completed to be paid, prepared
\* or driven, and a confirmed one never asks for payment again.
FinishedStaysFinished ==
    [][\A o \in Orders :
        /\ order[o] \in {"cancelled", "completed"} =>
                order'[o] \in {"cancelled", "completed"}
        /\ order[o] = "confirmed" => order'[o] # "pending_payment"]_order

\* A cancellation finds the credit and gives it back: once no request is in
\* flight, a cancelled order keeps none ("Cancelling the order returns it").
CancelReturnsCredit ==
    (\A r \in Requests : req[r].step = "idle") =>
        \A o \in Orders : order[o] = "cancelled" => returned[o] = spent[o]

\* The gateway is asked for the reduced amount: credit and capture together
\* never exceed the price.
NeverOvercharged ==
    \A o \in Orders : spent[o] + gateway[o].captured <= Price[o]

-----------------------------------------------------------------------------
(***************************************************************************)
(* The inductive invariant behind the safety properties.  Its heart is     *)
(* what a request may still believe about an order it read some steps ago. *)
(***************************************************************************)

PaidFor(o) == gateway[o].captured > 0 \/ spent[o] = Price[o]

OrderInv(o) ==
    /\ credit[o] \in {0, spent[o]}
    /\ spent[o] <= Price[o]
    /\ returned[o] \in {0, spent[o]}
    /\ gateway[o].state \in {"none", "active"} => gateway[o].captured = 0
    /\ gateway[o].state # "none" => gateway[o].amount > 0
    /\ gateway[o].state = "paid" => gateway[o].captured = gateway[o].amount

\* The credit a request knows of is the order's debit or nothing, and while
\* the order can still be paid the details document says the same.
BeliefInv(q) ==
    /\ q.applied \in {0, spent[q.order]}
    /\ q.step \in {"sum", "debit"} => q.applied = 0
    /\ q.step = "debit" => q.seen > 0
    /\ q.step = "annotate" => q.applied > 0
    /\ q.step = "session" => q.applied < Price[q.order]
    /\ q.step \in {"upsert", "session"} /\ order[q.order] = "pending_payment"
            /\ q.applied # 0 => credit[q.order] = q.applied

\* What markPaid is about to record is backed by money.
PayingInv(q) ==
    /\ q.step = "ask" => q.method = "online"
    /\ q.step \in {"read", "claim"} /\ q.method = "wallet" =>
            spent[q.order] = Price[q.order]
    /\ q.step \in {"read", "shortfall", "claim"} /\ q.method = "online" =>
            0 < q.paid /\ q.paid <= gateway[q.order].captured
    /\ q.step = "claim" /\ q.method = "online" =>
            q.paid + spent[q.order] >= Price[q.order]

ClosingInv(q) ==
    /\ q.step = "giveback" =>
            q.applied > 0 /\ order[q.order] \in {"cancelled", "completed"}
    /\ q.step = "complete" => order[q.order] # "pending_payment"
    /\ q.step = "raise" => PaidFor(q.order)
    /\ q.step = "settle" => gateway[q.order].refunded > 0

RequestInv(q) ==
    q.step # "idle" =>
        q.order \in Orders /\ BeliefInv(q) /\ PayingInv(q) /\ ClosingInv(q)

\* Nothing a request still holds contradicts the rows it read it from.
IInv ==
    /\ TypeOK
    /\ \A o \in Orders : OrderInv(o)
    /\ \A r \in Requests : RequestInv(req[r])
    /\ PaidInFull /\ ConfirmedOnce /\ CreditReturnedOnce
    /\ FullCaptureCovers /\ FlaggedWasPaid /\ RefundedMoved

\* A spend that saw more than is left met one of another order on the way, and
\* that one is in the ledger.
SpendInv ==
    /\ \A r \in Requests, a \in Orders : At(r, a, "debit") =>
           /\ req[r].seen > 0
           /\ req[r].seen > balance => a \in raced /\ \E b \in raced : spent[b] > 0
    /\ \A p, q \in Requests, a, b \in Orders :
           p # q /\ At(p, a, "debit") /\ At(q, b, "debit") => a \in raced
    /\ OverdrawnOnlyByRace

-----------------------------------------------------------------------------
(* The server runs every handler it started to its end (unless aborted), and *)
(* Cashfree redelivers a webhook until a request slot takes it.              *)
Fairness ==
    /\ \A r \in Requests, o \in Orders : WF_vars(Continue(r, o))
    /\ \A o \in Orders : SF_vars(\E r \in Requests : "webhook" \in Operations /\ Webhook(r, o))

FairSpec == Spec /\ Fairness

\* A full capture is never stranded: the order is confirmed, or was cancelled.
CapturedIsResolved ==
    \A o \in Orders :
        gateway[o].state = "paid" /\ order[o] = "pending_payment"
            ~> order[o] # "pending_payment"

-----------------------------------------------------------------------------
(* What the buyer is promised: the refinement of OrderContract.            *)

SaleOf(o) ==
    IF order[o] = "pending_payment" THEN "open"
    ELSE IF order[o] # "confirmed" THEN "closed"
    ELSE IF payment[o].method = "cash" THEN "on_delivery" ELSE "prepaid"

Contract == INSTANCE OrderContract WITH
    sale <- [o \in Orders |-> SaleOf(o)],
    funds <- [o \in Orders |-> spent[o] + gateway[o].captured]

ContractHolds == Contract!Spec
=============================================================================

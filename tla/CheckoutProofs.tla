--------------------------- MODULE CheckoutProofs ---------------------------
(***************************************************************************)
(* Safety of Checkout: first its types, for any orders, prices, request    *)
(* slots and opening balance; then the invariant IInv, and with it that    *)
(* the buyer-facing invariants hold in every instance; last, that Checkout *)
(* implements OrderContract: what the buyer is promised survives every     *)
(* interleaving of the handlers.                                           *)
(***************************************************************************)
EXTENDS Checkout, TLAPS

-----------------------------------------------------------------------------
(* Types: the amounts. *)

\* payableOn: what is left to pay and the known credit always make up the price.
LEMMA PayableType ==
    ASSUME NEW o \in Orders, NEW applied \in Nat
    PROVE  /\ Payable(o, applied) \in Nat
           /\ Payable(o, applied) = 0 <=> applied >= Price[o]
           /\ Payable(o, applied) + applied >= Price[o]
           /\ Payable(o, applied) <= Price[o]
BY OrdersAssumption DEF Payable

-----------------------------------------------------------------------------
(* Type correctness *)

\* The locals of a request (the record set stays folded in the proofs below).
LEMMA RequestFields ==
    ASSUME NEW q \in Request
    PROVE  /\ q.applied \in Nat /\ q.seen \in Nat /\ q.paid \in Nat
           /\ q.method \in {"online", "cash", "wallet"}
           /\ q.step \in Steps
BY DEF Request

\* Storing a well-typed request, whole or step by step, keeps the slots typed.
LEMMA PutType ==
    ASSUME req \in [Requests -> Request], NEW r \in Requests, NEW q \in Request, Put(r, q)
    PROVE  req' \in [Requests -> Request]
BY DEF Put

LEMMA FinishType ==
    ASSUME req \in [Requests -> Request], NEW r \in Requests, Finish(r)
    PROVE  req' \in [Requests -> Request]
<1>1. Idle \in Request
  BY DEF Idle, Request, Steps
<1> QED
  BY <1>1, PutType DEF Finish

LEMMA GotoType ==
    ASSUME req \in [Requests -> Request], NEW r \in Requests, NEW s \in Steps, Goto(r, s)
    PROVE  req' \in [Requests -> Request]
<1>1. [req[r] EXCEPT !.step = s] \in Request
  BY DEF Request
<1> QED
  BY <1>1, PutType DEF Goto

LEMMA BeginType ==
    ASSUME req \in [Requests -> Request], NEW r \in Requests, NEW o \in Orders,
           NEW s \in Steps, Begin(r, o, s)
    PROVE  req' \in [Requests -> Request]
<1>1. [Idle EXCEPT !.step = s, !.order = o] \in Request
  BY DEF Idle, Request
<1> QED
  BY <1>1, PutType DEF Begin

LEMMA SetPaymentType ==
    ASSUME payment \in [Orders -> PaymentRow], NEW o \in Orders, NEW s \in PaymentStatus,
           SetPayment(o, s)
    PROVE  payment' \in [Orders -> PaymentRow]
<1>1. [payment[o] EXCEPT !.status = s] \in PaymentRow
  BY DEF PaymentRow
<1> QED
  BY <1>1 DEF SetPayment

LEMMA InitTypeOK == Init => TypeOK
<1>1. [state |-> "none", amount |-> 0, captured |-> 0, refunded |-> 0] \in GatewayOrder
  BY DEF GatewayOrder
<1>2. [status |-> "none", amount |-> 0, method |-> "none"] \in PaymentRow
  BY DEF PaymentRow, PaymentStatus
<1>3. Idle \in Request
  BY DEF Idle, Request, Steps
<1>4. SUFFICES ASSUME Init PROVE TypeOK
  OBVIOUS
<1>5. /\ order \in [Orders -> OrderStatus] /\ credit \in [Orders -> Nat]
      /\ timelines \in [Orders -> Nat] /\ stage \in [Orders -> {"placed", "out", "elapsed"}]
  BY <1>4 DEF Init, OrderStatus
<1>6. /\ spent \in [Orders -> Nat] /\ returned \in [Orders -> Nat]
      /\ rewarded \in [Orders -> BOOLEAN] /\ raced \subseteq Orders
  BY <1>4 DEF Init
<1>7. /\ payment \in [Orders -> PaymentRow] /\ gateway \in [Orders -> GatewayOrder]
      /\ req \in [Requests -> Request]
  BY <1>1, <1>2, <1>3, <1>4 DEF Init
<1>8. balance \in Int /\ aborts \in 0..MaxAborts
  BY <1>4, AmountsAssumption DEF Init
<1> QED
  BY <1>5, <1>6, <1>7, <1>8 DEF TypeOK

\* Every step of a request in flight keeps the types.
LEMMA ContinueTypeOK ==
    ASSUME TypeOK, NEW r \in Requests, NEW o \in Orders, Continue(r, o)
    PROVE  TypeOK'
<1>0. /\ req[r] \in Request /\ payment[o] \in PaymentRow /\ gateway[o] \in GatewayOrder
      /\ balance \in Int /\ credit[o] \in Nat
  BY DEF TypeOK
<1>1. CASE CheckoutStep(r, o)
  <2>1. CASE SpendSum(r, o)
    <3>1. req' \in [Requests -> Request]
      <4>1. CASE Goto(r, "upsert")
        BY <4>1, GotoType DEF TypeOK, Steps
      <4>2. CASE balance > 0 /\ Put(r, [req[r] EXCEPT !.seen = balance, !.step = "debit"])
        <5>0. balance \in Nat
          BY <1>0, <4>2
        <5>1. [req[r] EXCEPT !.seen = balance, !.step = "debit"] \in Request
          BY <1>0, <5>0 DEF Request, Steps
        <5> QED
          BY <4>2, <5>1, PutType DEF TypeOK
      <4> QED
        BY <2>1, <4>1, <4>2 DEF SpendSum
    <3>2. raced' \subseteq Orders
      BY <2>1 DEF SpendSum, Spending, TypeOK
    <3> QED
      BY <2>1, <3>1, <3>2 DEF SpendSum, TypeOK, orderVars
  <2>2. CASE SpendDebit(r, o)
    <3>1. Take(r, o) \in Nat
      BY <1>0, RequestFields, OrdersAssumption DEF Take
    <3>2. req' \in [Requests -> Request]
      <4>1. CASE Finish(r)
        BY <4>1, FinishType DEF TypeOK
      <4>2. CASE Put(r, [req[r] EXCEPT !.applied = Take(r, o), !.step = "annotate"])
        <5>1. [req[r] EXCEPT !.applied = Take(r, o), !.step = "annotate"] \in Request
          BY <1>0, <3>1 DEF Request, Steps
        <5> QED
          BY <4>2, <5>1, PutType DEF TypeOK
      <4> QED
        BY <2>2, <4>1, <4>2 DEF SpendDebit
    <3>3. balance' \in Int /\ spent' \in [Orders -> Nat]
      BY <2>2, <3>1 DEF SpendDebit, TypeOK
    <3> QED
      BY <2>2, <3>2, <3>3 DEF SpendDebit, TypeOK, orderVars
  <2>3. CASE Annotate(r, o)
    <3>1. req' \in [Requests -> Request]
      BY <2>3, GotoType DEF Annotate, TypeOK, Steps
    <3> QED
      BY <2>3, <3>1, <1>0, RequestFields DEF Annotate, TypeOK, walletVars
  <2>4. CASE UpsertPayment(r, o)
    <3>1. Payable(o, req[r].applied) \in Nat
      BY <1>0, RequestFields, PayableType
    <3>2. [payment[o] EXCEPT !.status = "created", !.amount = Payable(o, req[r].applied)] \in PaymentRow
      BY <1>0, <3>1 DEF PaymentRow, PaymentStatus
    <3>3. [req[r] EXCEPT !.step = "read", !.method = "wallet"] \in Request
      BY <1>0 DEF Request, Steps
    <3>4. req' \in [Requests -> Request]
      BY <2>4, <3>3, PutType, GotoType DEF UpsertPayment, TypeOK, Steps
    <3> QED
      BY <2>4, <3>2, <3>4 DEF UpsertPayment, TypeOK, orderVars, walletVars
  <2>5. CASE OpenSession(r, o)
    <3>1. Payable(o, req[r].applied) \in Nat
      BY <1>0, RequestFields, PayableType
    <3>2. [gateway[o] EXCEPT !.state = "active", !.amount = Payable(o, req[r].applied)] \in GatewayOrder
      BY <1>0, <3>1 DEF GatewayOrder
    <3>3. req' \in [Requests -> Request]
      BY <2>5, GotoType DEF OpenSession, TypeOK, Steps
    <3> QED
      BY <2>5, <3>2, <3>3 DEF OpenSession, TypeOK, orderVars, walletVars
  <2>6. CASE MarkProcessing(r, o)
    <3>1. req' \in [Requests -> Request]
      BY <2>6, FinishType DEF MarkProcessing, TypeOK
    <3>2. payment' \in [Orders -> PaymentRow]
      BY <2>6, SetPaymentType DEF MarkProcessing, TypeOK, PaymentStatus
    <3> QED
      BY <2>6, <3>1, <3>2 DEF MarkProcessing, TypeOK, orderVars, walletVars
  <2> QED
    BY <1>1, <2>1, <2>2, <2>3, <2>4, <2>5, <2>6 DEF CheckoutStep
<1>2. CASE MarkPaidStep(r, o)
  <2>1. CASE MarkPaidRead(r, o)
    <3>1. [req[r] EXCEPT !.step = "claim", !.applied = credit[o]] \in Request
      BY <1>0 DEF Request, Steps
    <3>2. req' \in [Requests -> Request]
      BY <2>1, <3>1, PutType, GotoType, FinishType DEF MarkPaidRead, TypeOK, Steps
    <3> QED
      BY <2>1, <3>2 DEF MarkPaidRead, TypeOK, orderVars, walletVars
  <2>2. CASE RecordShortfall(r, o)
    <3>1. req' \in [Requests -> Request]
      BY <2>2, FinishType DEF RecordShortfall, TypeOK
    <3>2. payment' \in [Orders -> PaymentRow]
      BY <2>2, SetPaymentType DEF RecordShortfall, TypeOK, PaymentStatus
    <3> QED
      BY <2>2, <3>1, <3>2 DEF RecordShortfall, TypeOK, orderVars, walletVars
  <2>3. CASE Claim(r, o)
    <3>1. Payable(o, req[r].applied) \in Nat
      BY <1>0, RequestFields, PayableType
    <3>2. [status |-> SettledStatus(req[r].method), method |-> req[r].method,
           amount |-> IF payment[o].status = "none"
                      THEN Payable(o, req[r].applied) ELSE payment[o].amount] \in PaymentRow
      BY <1>0, <3>1, RequestFields DEF PaymentRow, PaymentStatus, SettledStatus
    <3>3. req' \in [Requests -> Request]
      BY <2>3, FinishType DEF Claim, TypeOK
    <3>4. payment' \in [Orders -> PaymentRow]
      BY <2>3, <3>2 DEF Claim, TypeOK
    <3>5. order' \in [Orders -> OrderStatus] /\ timelines' \in [Orders -> Nat]
      BY <2>3 DEF Claim, TypeOK, OrderStatus
    <3> QED
      BY <2>3, <3>3, <3>4, <3>5 DEF Claim, TypeOK, walletVars
  <2>4. CASE VerifyAsk(r, o)
    <3>1. gateway[o].amount \in Nat
      BY <1>0 DEF GatewayOrder
    <3>2. [req[r] EXCEPT !.step = "read", !.paid = gateway[o].amount] \in Request
      BY <1>0, <3>1 DEF Request, Steps
    <3>3. req' \in [Requests -> Request]
      BY <2>4, <3>2, PutType, FinishType DEF VerifyAsk, TypeOK
    <3> QED
      BY <2>4, <3>3 DEF VerifyAsk, TypeOK, orderVars, walletVars
  <2> QED
    BY <1>2, <2>1, <2>2, <2>3, <2>4 DEF MarkPaidStep
<1>3. CASE CancelStep(r, o)
  <2>1. CASE CancelCutoff(r, o)
    <3>1. req' \in [Requests -> Request]
      BY <2>1, GotoType, FinishType DEF CancelCutoff, TypeOK, Steps
    <3> QED
      BY <2>1, <3>1 DEF CancelCutoff, TypeOK, orderVars, walletVars
  <2>2. CASE CancelWrite(r, o)
    <3>1. req' \in [Requests -> Request]
      BY <2>2, GotoType DEF CancelWrite, TypeOK, Steps
    <3>2. order' \in [Orders -> OrderStatus] /\ credit' \in [Orders -> Nat]
      BY <2>2, <1>0, RequestFields DEF CancelWrite, TypeOK, OrderStatus
    <3> QED
      BY <2>2, <3>1, <3>2 DEF CancelWrite, TypeOK, walletVars
  <2>3. CASE CancelGiveBack(r, o)
    <3>1. req' \in [Requests -> Request]
      BY <2>3, GotoType DEF CancelGiveBack, TypeOK, Steps
    <3>2. req[r].applied \in Nat /\ returned[o] \in Nat
      BY <1>0, RequestFields DEF TypeOK
    <3>3. balance' \in Int /\ returned' \in [Orders -> Nat]
      BY <2>3, <3>2 DEF CancelGiveBack, TypeOK
    <3> QED
      BY <2>3, <3>1, <3>3 DEF CancelGiveBack, TypeOK, orderVars
  <2>4. CASE CancelFlag(r, o)
    <3>1. req' \in [Requests -> Request]
      BY <2>4, FinishType DEF CancelFlag, TypeOK
    <3>2. payment' \in [Orders -> PaymentRow]
      BY <2>4, SetPaymentType DEF CancelFlag, TypeOK, PaymentStatus
    <3> QED
      BY <2>4, <3>1, <3>2 DEF CancelFlag, TypeOK, orderVars, walletVars
  <2> QED
    BY <1>3, <2>1, <2>2, <2>3, <2>4 DEF CancelStep
<1>4. CASE OtherStep(r, o)
  <2>1. CASE ViewComplete(r, o)
    <3>1. req' \in [Requests -> Request]
      BY <2>1, GotoType, FinishType DEF ViewComplete, TypeOK, Steps
    <3>2. order' \in [Orders -> OrderStatus]
      BY <2>1 DEF ViewComplete, TypeOK, OrderStatus
    <3> QED
      BY <2>1, <3>1, <3>2 DEF ViewComplete, TypeOK, walletVars
  <2>2. CASE ViewReward(r, o)
    <3>1. req' \in [Requests -> Request]
      BY <2>2, FinishType DEF ViewReward, TypeOK
    <3>2. balance' \in Int
      BY <2>2, AmountsAssumption DEF ViewReward, TypeOK
    <3>3. rewarded' \in [Orders -> BOOLEAN]
      BY <2>2 DEF ViewReward, TypeOK
    <3> QED
      BY <2>2, <3>1, <3>2, <3>3 DEF ViewReward, TypeOK, orderVars
  <2>3. CASE FlagWrite(r, o)
    <3>1. req' \in [Requests -> Request]
      BY <2>3, FinishType DEF FlagWrite, TypeOK
    <3>2. payment' \in [Orders -> PaymentRow]
      BY <2>3, SetPaymentType DEF FlagWrite, TypeOK, PaymentStatus
    <3> QED
      BY <2>3, <3>1, <3>2 DEF FlagWrite, TypeOK, orderVars, walletVars
  <2>4. CASE ApproveRefund(r, o)
    <3>1. [gateway[o] EXCEPT !.refunded = req[r].paid] \in GatewayOrder
      BY <1>0, RequestFields DEF GatewayOrder
    <3>2. req' \in [Requests -> Request]
      BY <2>4, GotoType, FinishType DEF ApproveRefund, TypeOK, Steps
    <3> QED
      BY <2>4, <3>1, <3>2 DEF ApproveRefund, TypeOK, orderVars, walletVars
  <2>5. CASE ApproveSettle(r, o)
    <3>1. req' \in [Requests -> Request]
      BY <2>5, FinishType DEF ApproveSettle, TypeOK
    <3>2. payment' \in [Orders -> PaymentRow]
      BY <2>5, SetPaymentType DEF ApproveSettle, TypeOK, PaymentStatus, SettleRefund
    <3> QED
      BY <2>5, <3>1, <3>2 DEF ApproveSettle, TypeOK, orderVars, walletVars
  <2> QED
    BY <1>4, <2>1, <2>2, <2>3, <2>4, <2>5 DEF OtherStep
<1> QED
  BY <1>1, <1>2, <1>3, <1>4 DEF Continue

\* Every request that starts, and the environment, keeps them too.
LEMMA StartTypeOK ==
    ASSUME TypeOK, NEW r \in Requests, NEW o \in Orders, Start(r, o)
    PROVE  TypeOK'
<1>0. /\ credit[o] \in Nat /\ gateway[o].captured \in Nat /\ payment[o].amount \in Nat
  BY DEF TypeOK, PaymentRow, GatewayOrder
<1>1. ASSUME NEW useWallet \in BOOLEAN, NEW method \in {"online", "cash"},
             CheckoutStart(r, o, useWallet, method)
      PROVE  TypeOK'
  <2> DEFINE first == IF useWallet /\ credit[o] = 0 THEN "sum" ELSE "upsert"
  <2>1. [Idle EXCEPT !.order = o, !.method = method, !.applied = credit[o],
                     !.step = first] \in Request
    BY <1>0 DEF Idle, Request, Steps
  <2>2. req' \in [Requests -> Request]
    BY <1>1, <2>1, PutType DEF CheckoutStart, TypeOK
  <2> QED
    BY <1>1, <2>2 DEF CheckoutStart, TypeOK, orderVars, walletVars
<1>2. CASE Webhook(r, o)
  <2>1. [Idle EXCEPT !.step = "read", !.order = o, !.paid = gateway[o].captured] \in Request
    BY <1>0 DEF Idle, Request, Steps
  <2>2. req' \in [Requests -> Request]
    BY <1>2, <2>1, PutType DEF Webhook, TypeOK
  <2> QED
    BY <1>2, <2>2 DEF Webhook, TypeOK, orderVars, walletVars
<1>3. CASE CancelStart(r, o)
  <2>1. [Idle EXCEPT !.order = o, !.applied = credit[o],
                     !.step = IF o \in FoodOrders THEN "cutoff" ELSE "cancel"] \in Request
    BY <1>0 DEF Idle, Request, Steps
  <2>2. req' \in [Requests -> Request]
    BY <1>3, <2>1, PutType DEF CancelStart, TypeOK
  <2> QED
    BY <1>3, <2>2 DEF CancelStart, TypeOK, orderVars, walletVars
<1>4. CASE ApproveStart(r, o)
  <2>1. [Idle EXCEPT !.step = "refund", !.order = o, !.paid = payment[o].amount] \in Request
    BY <1>0 DEF Idle, Request, Steps
  <2>2. req' \in [Requests -> Request]
    BY <1>4, <2>1, PutType DEF ApproveStart, TypeOK
  <2> QED
    BY <1>4, <2>2 DEF ApproveStart, TypeOK, orderVars, walletVars
<1>5. CASE VerifyStart(r, o)
  <2>1. req' \in [Requests -> Request]
    BY <1>5, BeginType DEF VerifyStart, TypeOK, Steps
  <2> QED
    BY <1>5, <2>1 DEF VerifyStart, TypeOK, orderVars, walletVars
<1>6. CASE ViewStart(r, o)
  <2>1. req' \in [Requests -> Request]
    BY <1>6, BeginType DEF ViewStart, TypeOK, Steps
  <2> QED
    BY <1>6, <2>1 DEF ViewStart, TypeOK, orderVars, walletVars
<1>7. CASE FlagStart(r, o)
  <2>1. req' \in [Requests -> Request]
    BY <1>7, BeginType DEF FlagStart, TypeOK, Steps
  <2> QED
    BY <1>7, <2>1 DEF FlagStart, TypeOK, orderVars, walletVars
<1> QED
  BY <1>1, <1>2, <1>3, <1>4, <1>5, <1>6, <1>7 DEF Start

LEMMA EnvironmentTypeOK ==
    ASSUME TypeOK, NEW o \in Orders, Environment(o)
    PROVE  TypeOK'
<1>1. CASE Capture(o)
  <2>1. gateway[o] \in GatewayOrder
    BY DEF TypeOK
  <2>2. ASSUME NEW short \in ShortBy, short < gateway[o].amount
        PROVE  [gateway[o] EXCEPT !.captured = gateway[o].amount - short,
                  !.state = IF short = 0 THEN "paid" ELSE "short"] \in GatewayOrder
    <3>1. gateway[o].amount \in Nat /\ short \in Nat
      BY <2>1, AmountsAssumption DEF GatewayOrder
    <3>2. gateway[o].amount - short \in Nat
      BY <3>1, <2>2
    <3> QED
      BY <2>1, <3>2 DEF GatewayOrder
  <2>3. gateway' \in [Orders -> GatewayOrder]
    BY <1>1, <2>2 DEF Capture, TypeOK
  <2> QED
    BY <1>1, <2>3 DEF Capture, TypeOK, orderVars, walletVars
<1>2. CASE TimelineAdvances(o)
  BY <1>2 DEF TimelineAdvances, TypeOK, walletVars
<1>3. CASE RejectRefund(o)
  <2>1. payment' \in [Orders -> PaymentRow]
    BY <1>3, SetPaymentType DEF RejectRefund, SettleRefund, TypeOK, PaymentStatus
  <2> QED
    BY <1>3, <2>1 DEF RejectRefund, TypeOK, orderVars, walletVars
<1> QED
  BY <1>1, <1>2, <1>3 DEF Environment

LEMMA AbortTypeOK ==
    ASSUME TypeOK, NEW r \in Requests, Abort(r)
    PROVE  TypeOK'
<1>1. req' \in [Requests -> Request]
  BY FinishType DEF Abort, TypeOK
<1>2. aborts' \in 0..MaxAborts
  BY AmountsAssumption DEF Abort, TypeOK
<1> QED
  BY <1>1, <1>2 DEF Abort, TypeOK, orderVars, walletVars

LEMMA NextTypeOK == TypeOK /\ [Next]_vars => TypeOK'
<1>1. ASSUME TypeOK, UNCHANGED vars
      PROVE  TypeOK'
  BY <1>1 DEF TypeOK, vars
<1> QED
  BY <1>1, ContinueTypeOK, StartTypeOK, EnvironmentTypeOK, AbortTypeOK DEF Next

\* Every state of every instance is well typed: the ledger rows and the amounts
\* stay natural numbers, whatever the handlers' interleaving.
THEOREM TypeCorrect == Spec => []TypeOK
BY InitTypeOK, NextTypeOK, PTL DEF Spec

-----------------------------------------------------------------------------
(* Safety. *)

\* What IInv says of one order.
Safe(o) ==
    /\ OrderInv(o)
    /\ order[o] = "confirmed" /\ payment[o].method # "cash" =>
            spent[o] - returned[o] + gateway[o].captured >= Price[o]
    /\ timelines[o] <= 1
    /\ order[o] = "confirmed" => timelines[o] = 1 /\ payment[o].status # "none"
    /\ order[o] = "pending_payment" => timelines[o] = 0
    /\ returned[o] > 0 => order[o] \in {"cancelled", "completed"}
    /\ order[o] = "pending_payment" /\ gateway[o].state # "none" =>
            gateway[o].amount >= Payable(o, credit[o])
    /\ payment[o].status \in {"success", "refund_pending"} => PaidFor(o)
    /\ payment[o].status = "refunded" => gateway[o].refunded > 0

\* What no step of any handler takes back: an order leaves pending_payment and
\* is closed for good, its debit is written once, money stays captured.
Forward(o) ==
    /\ order'[o] = "pending_payment" => order[o] = "pending_payment"
    /\ order[o] \in {"cancelled", "completed"} => order'[o] \in {"cancelled", "completed"}
    /\ spent'[o] = spent[o] \/ spent[o] = 0
    /\ gateway'[o].captured >= gateway[o].captured
    /\ gateway[o].refunded > 0 => gateway'[o].refunded > 0
    /\ order'[o] = "pending_payment" => credit'[o] \in {credit[o], spent[o]}

Advances == \A o \in Orders : Forward(o)

LEMMA NumberTypes ==
    ASSUME TypeOK, NEW o \in Orders
    PROVE  /\ credit[o] \in Nat /\ spent[o] \in Nat /\ returned[o] \in Nat
           /\ timelines[o] \in Nat /\ Price[o] \in Nat /\ Price[o] > 0
           /\ gateway[o].amount \in Nat /\ gateway[o].captured \in Nat
           /\ gateway[o].refunded \in Nat /\ payment[o].amount \in Nat
           /\ gateway[o] \in GatewayOrder /\ payment[o] \in PaymentRow
           /\ order[o] \in OrderStatus
BY OrdersAssumption DEF TypeOK, GatewayOrder, PaymentRow

LEMMA IInvParts ==
    IInv <=> /\ TypeOK
             /\ \A o \in Orders : Safe(o)
             /\ \A r \in Requests : RequestInv(req[r])
<1>1. ASSUME TypeOK, NEW o \in Orders
      PROVE  OrderInv(o) => returned[o] <= spent[o]
  BY <1>1, NumberTypes DEF OrderInv
<1> QED
  BY <1>1 DEF IInv, Safe, PaidInFull, ConfirmedOnce, CreditReturnedOnce,
              FullCaptureCovers, FlaggedWasPaid, RefundedMoved, Covers, PaidFor

-----------------------------------------------------------------------------
(* What another request believes survives every step that goes forward.    *)

LEMMA ForwardKeepsRequest ==
    ASSUME TypeOK, TypeOK', NEW q \in Request, RequestInv(q), q.step # "idle",
           Forward(q.order), Safe(q.order), Safe(q.order)'
    PROVE  RequestInv(q)'
<1> DEFINE o == q.order
<1>1. o \in Orders /\ BeliefInv(q) /\ PayingInv(q) /\ ClosingInv(q)
  BY DEF RequestInv
<1>2. /\ spent[o] \in Nat /\ spent'[o] \in Nat /\ Price[o] \in Nat /\ Price[o] > 0
      /\ gateway[o].captured \in Nat /\ gateway'[o].captured \in Nat
      /\ credit[o] \in Nat
  BY <1>1, OrdersAssumption DEF TypeOK, GatewayOrder
<1>3. q.applied \in Nat /\ q.paid \in Nat
  BY RequestFields
<1>4. spent'[o] = spent[o] \/ spent[o] = 0
  BY DEF Forward
<1>5. BeliefInv(q)'
  BY <1>1, <1>2, <1>3, <1>4 DEF BeliefInv, Forward
<1>6. PayingInv(q)'
  BY <1>1, <1>2, <1>3, <1>4 DEF PayingInv, Forward
<1>7. ClosingInv(q)'
  BY <1>1, <1>2, <1>4 DEF ClosingInv, Forward, PaidFor
<1> QED
  BY <1>1, <1>5, <1>6, <1>7 DEF RequestInv

LEMMA IInvPartsNext ==
    IInv' <=> /\ TypeOK'
              /\ (\A o \in Orders : Safe(o))'
              /\ (\A r \in Requests : RequestInv(req[r]))'
BY IInvParts, PTL

LEMMA Assemble ==
    ASSUME IInv, TypeOK',
           \A p \in Orders : Safe(p)' /\ Forward(p),
           \A q \in Requests : req'[q] = req[q] \/ RequestInv(req[q])'
    PROVE  IInv' /\ Advances
<1>0. TypeOK /\ (\A p \in Orders : Safe(p)) /\ (\A q \in Requests : RequestInv(req[q]))
  BY IInvParts
<1>1. ASSUME NEW q \in Requests, req'[q] = req[q]
      PROVE  RequestInv(req[q])'
  <2>1. PICK x \in Request : x = req[q] /\ RequestInv(x)
    BY <1>0 DEF TypeOK
  <2>2. CASE x.step = "idle"
    BY <1>1, <2>1, <2>2 DEF RequestInv
  <2>3. CASE x.step # "idle"
    <3>1. x.order \in Orders
      BY <2>1, <2>3 DEF RequestInv
    <3>2. Forward(x.order) /\ Safe(x.order) /\ Safe(x.order)'
      BY <1>0, <3>1
    <3>3. RequestInv(x)'
      BY <1>0, <2>1, <2>3, <3>2, ForwardKeepsRequest
    <3> QED
      BY <1>1, <2>1, <3>3
  <2> QED
    BY <2>2, <2>3
<1>2. \A q \in Requests : RequestInv(req[q])'
  BY <1>1
<1> QED
  BY <1>2, IInvPartsNext DEF Advances

-----------------------------------------------------------------------------
(* Steps that leave an order's rows alone, or write a payment's status only. *)

\* The columns the invariant is about.
rows == <<order, credit, timelines, payment, spent, returned, gateway>>

LEMMA SameRows ==
    ASSUME IInv, TypeOK', NEW p \in Orders,
           order'[p] = order[p], credit'[p] = credit[p], timelines'[p] = timelines[p],
           payment'[p] = payment[p], spent'[p] = spent[p], returned'[p] = returned[p],
           gateway'[p] = gateway[p]
    PROVE  Safe(p)' /\ Forward(p)
<1>1. Safe(p)
  BY IInvParts
<1>2. gateway[p].captured \in Nat
  BY IInvParts, NumberTypes
<1> QED
  BY <1>1, <1>2 DEF Safe, Forward, OrderInv, Payable, PaidFor

LEMMA QuietStep ==
    ASSUME IInv, TypeOK', UNCHANGED rows,
           \A q \in Requests : req'[q] = req[q] \/ RequestInv(req[q])'
    PROVE  IInv' /\ Advances
<1>1. \A p \in Orders : Safe(p)' /\ Forward(p)
  BY SameRows DEF rows
<1> QED
  BY <1>1, Assemble

LEMMA StatusStep ==
    ASSUME IInv, TypeOK', NEW o \in Orders,
           UNCHANGED <<order, credit, timelines, spent, returned, gateway>>,
           \A p \in Orders \ {o} : payment'[p] = payment[p],
           payment'[o].method = payment[o].method,
           payment'[o].status # "none",
           payment'[o].status \in {"success", "refund_pending"} => PaidFor(o),
           payment'[o].status = "refunded" => gateway[o].refunded > 0,
           \A q \in Requests : req'[q] = req[q] \/ RequestInv(req[q])'
    PROVE  IInv' /\ Advances
<1>1. ASSUME NEW p \in Orders
      PROVE  Safe(p)' /\ Forward(p)
  <2>1. CASE p # o
    BY <1>1, <2>1, SameRows
  <2>2. CASE p = o
    <3>1. Safe(o) /\ gateway[o].captured \in Nat
      BY IInvParts, NumberTypes
    <3> QED
      BY <2>2, <3>1 DEF Safe, Forward, OrderInv, Payable, PaidFor
  <2> QED
    BY <2>1, <2>2
<1> QED
  BY <1>1, Assemble

\* A slot that was put back to idle, and one that holds the record put there.
LEMMA FinishedRequest ==
    ASSUME TypeOK, NEW r \in Requests, Finish(r)
    PROVE  \A q \in Requests : req'[q] = req[q] \/ RequestInv(req[q])'
BY DEF Finish, Put, Idle, RequestInv, TypeOK

LEMMA PutRequest ==
    ASSUME TypeOK, NEW r \in Requests, NEW x \in Request, Put(r, x), RequestInv(x)'
    PROVE  \A q \in Requests : req'[q] = req[q] \/ RequestInv(req[q])'
<1>1. req'[r] = x /\ \A q \in Requests \ {r} : req'[q] = req[q]
  BY DEF Put, TypeOK
<1>2. RequestInv(req[r])'
  BY <1>1
<1> QED
  BY <1>1, <1>2

LEMMA IdleSafe == Init => IInv
<1> SUFFICES ASSUME Init PROVE IInv
  OBVIOUS
<1>1. TypeOK
  BY InitTypeOK
<1>2. ASSUME NEW o \in Orders PROVE Safe(o)
  <2>1. Price[o] \in Nat /\ Price[o] > 0
    BY <1>1, NumberTypes
  <2> QED
    BY <2>1 DEF Init, Safe, OrderInv
<1>3. ASSUME NEW r \in Requests PROVE RequestInv(req[r])
  BY DEF Init, Idle, RequestInv
<1> QED
  BY <1>1, <1>2, <1>3, IInvParts

-----------------------------------------------------------------------------
(* Requests that start and the environment *)

\* What the invariant says where a request r stands before its step on o.
LEMMA Acting ==
    ASSUME IInv, NEW r \in Requests, NEW o \in Orders
    PROVE  /\ TypeOK /\ Safe(o) /\ req[r] \in Request
           /\ credit[o] \in Nat /\ spent[o] \in Nat /\ returned[o] \in Nat
           /\ Price[o] \in Nat /\ Price[o] > 0
           /\ gateway[o].amount \in Nat /\ gateway[o].captured \in Nat
           /\ req[r].applied \in Nat /\ req[r].seen \in Nat /\ req[r].paid \in Nat
           /\ \A s : s # "idle" /\ At(r, o, s) =>
                 BeliefInv(req[r]) /\ PayingInv(req[r]) /\ ClosingInv(req[r])
<1>1. TypeOK /\ Safe(o) /\ RequestInv(req[r])
  BY IInvParts
<1>2. req[r] \in Request
  BY <1>1 DEF TypeOK
<1> QED
  BY <1>1, <1>2, NumberTypes, RequestFields DEF At, RequestInv

LEMMA Others ==
    ASSUME NEW r \in Requests, RequestInv(req[r])',
           \A q \in Requests \ {r} : req'[q] = req[q]
    PROVE  \A q \in Requests : req'[q] = req[q] \/ RequestInv(req[q])'
OBVIOUS

LEMMA StartSafe ==
    ASSUME IInv, TypeOK', NEW r \in Requests, NEW o \in Orders, Start(r, o)
    PROVE  IInv' /\ Advances
<1>0. UNCHANGED rows /\ TypeOK /\ Safe(o)
  BY IInvParts DEF Start, CheckoutStart, Webhook, VerifyStart, CancelStart, ViewStart,
     FlagStart, ApproveStart, orderVars, walletVars, rows
<1>1. \A q \in Requests \ {r} : req'[q] = req[q]
  BY <1>0 DEF Start, CheckoutStart, Webhook, VerifyStart, CancelStart, ViewStart,
     FlagStart, ApproveStart, Put, Begin, TypeOK
<1>2. /\ credit[o] \in Nat /\ spent[o] \in Nat /\ Price[o] > 0
      /\ gateway[o].captured \in Nat
  BY <1>0, NumberTypes
<1> SUFFICES RequestInv(req[r])'
  BY <1>0, <1>1, Others, QuietStep
<1>3. ASSUME NEW useWallet \in BOOLEAN, NEW method \in {"online", "cash"},
             CheckoutStart(r, o, useWallet, method)
      PROVE  RequestInv(req[r])'
  <2>1. /\ req'[r].order = o /\ req'[r].method = method /\ req'[r].applied = credit[o]
        /\ req'[r].step = IF useWallet /\ credit[o] = 0 THEN "sum" ELSE "upsert"
    BY <1>0, <1>3 DEF CheckoutStart, Put, Idle, TypeOK
  <2> QED
    BY <1>0, <1>2, <2>1 DEF RequestInv, BeliefInv, PayingInv, ClosingInv, rows, Safe, OrderInv
<1>4. CASE Webhook(r, o)
  <2>1. /\ req'[r].order = o /\ req'[r].method = "online" /\ req'[r].applied = 0
        /\ req'[r].step = "read" /\ req'[r].paid = gateway[o].captured
    BY <1>0, <1>4 DEF Webhook, Put, Idle, TypeOK
  <2> QED
    BY <1>0, <1>2, <1>4, <2>1 DEF Webhook, RequestInv, BeliefInv, PayingInv, ClosingInv, rows
<1>5. CASE CancelStart(r, o)
  <2>1. /\ req'[r].order = o /\ req'[r].applied = credit[o]
        /\ req'[r].step = IF o \in FoodOrders THEN "cutoff" ELSE "cancel"
    BY <1>0, <1>5 DEF CancelStart, Put, Idle, TypeOK
  <2> QED
    BY <1>0, <1>2, <2>1 DEF RequestInv, BeliefInv, PayingInv, ClosingInv, rows, Safe, OrderInv
<1>6. CASE VerifyStart(r, o)
  <2>1. /\ req'[r].order = o /\ req'[r].applied = 0
        /\ req'[r].step = "ask" /\ req'[r].method = "online"
    BY <1>0, <1>6 DEF VerifyStart, Begin, Put, Idle, TypeOK
  <2> QED
    BY <2>1 DEF RequestInv, BeliefInv, PayingInv, ClosingInv
<1>7. CASE ViewStart(r, o)
  <2>1. req'[r].order = o /\ req'[r].applied = 0 /\ req'[r].step = "complete"
    BY <1>0, <1>7 DEF ViewStart, Begin, Put, Idle, TypeOK
  <2> QED
    BY <1>0, <1>7, <2>1 DEF ViewStart, RequestInv, BeliefInv, PayingInv, ClosingInv, rows
<1>8. CASE FlagStart(r, o)
  <2>1. req'[r].order = o /\ req'[r].applied = 0 /\ req'[r].step = "raise"
    BY <1>0, <1>8 DEF FlagStart, Begin, Put, Idle, TypeOK
  <2> QED
    BY <1>0, <1>8, <2>1 DEF FlagStart, RequestInv, BeliefInv, PayingInv, ClosingInv, rows,
       Safe, PaidFor
<1>9. CASE ApproveStart(r, o)
  <2>1. req'[r].order = o /\ req'[r].applied = 0 /\ req'[r].step = "refund"
    BY <1>0, <1>9 DEF ApproveStart, Put, Idle, TypeOK
  <2> QED
    BY <2>1 DEF RequestInv, BeliefInv, PayingInv, ClosingInv
<1> QED
  BY <1>3, <1>4, <1>5, <1>6, <1>7, <1>8, <1>9 DEF Start

LEMMA AbortSafe ==
    ASSUME IInv, TypeOK', NEW r \in Requests, Abort(r)
    PROVE  IInv' /\ Advances
<1>1. TypeOK /\ UNCHANGED rows
  BY IInvParts DEF Abort, orderVars, walletVars, rows
<1> QED
  BY <1>1, FinishedRequest, QuietStep DEF Abort

LEMMA EnvironmentSafe ==
    ASSUME IInv, TypeOK', NEW o \in Orders, Environment(o)
    PROVE  IInv' /\ Advances
<1>1. TypeOK /\ Safe(o) /\ req' = req
  BY IInvParts DEF Environment, Capture, TimelineAdvances, RejectRefund
<1>2. CASE TimelineAdvances(o)
  <2>1. UNCHANGED rows
    BY <1>2 DEF TimelineAdvances, walletVars, rows
  <2> QED
    BY <1>1, <2>1, QuietStep
<1>3. CASE RejectRefund(o)
  <2>1. payment' = [payment EXCEPT ![o] = [payment[o] EXCEPT !.status = "success"]]
    BY <1>3 DEF RejectRefund, SettleRefund, SetPayment
  <2>2. /\ payment'[o].status = "success" /\ payment'[o].method = payment[o].method
        /\ \A p \in Orders \ {o} : payment'[p] = payment[p]
    BY <1>1, <2>1 DEF TypeOK, PaymentRow
  <2>3. UNCHANGED <<order, credit, timelines, spent, returned, gateway>>
    BY <1>3 DEF RejectRefund, orderVars, walletVars
  <2>4. PaidFor(o)
    BY <1>1, <1>3 DEF RejectRefund, Safe
  <2> QED
    BY <1>1, <2>2, <2>3, <2>4, StatusStep
<1>4. CASE Capture(o)
  <2>1. /\ UNCHANGED <<order, credit, timelines, payment, spent, returned>>
        /\ \A p \in Orders \ {o} : gateway'[p] = gateway[p]
    BY <1>1, <1>4 DEF Capture, orderVars, walletVars, TypeOK
  <2>2. /\ credit[o] \in Nat /\ spent[o] \in Nat /\ returned[o] \in Nat
        /\ Price[o] \in Nat /\ Price[o] > 0
        /\ gateway[o].amount \in Nat /\ gateway[o].captured \in Nat
        /\ gateway[o] \in GatewayOrder
    BY <1>1, NumberTypes
  <2>3. PICK short \in ShortBy :
            /\ short < gateway[o].amount
            /\ gateway' = [gateway EXCEPT ![o] =
                  [gateway[o] EXCEPT !.captured = gateway[o].amount - short,
                                     !.state = IF short = 0 THEN "paid" ELSE "short"]]
    BY <1>4 DEF Capture
  <2>4. /\ gateway'[o].amount = gateway[o].amount
        /\ gateway'[o].captured = gateway[o].amount - short
        /\ gateway'[o].refunded = gateway[o].refunded
        /\ gateway'[o].state = IF short = 0 THEN "paid" ELSE "short"
    BY <1>1, <2>3 DEF TypeOK, GatewayOrder
  <2>5. short \in Nat /\ gateway[o].state = "active" /\ gateway[o].captured = 0
    BY <1>1, <1>4, AmountsAssumption DEF Capture, Safe, OrderInv
  <2>6. ASSUME NEW p \in Orders
        PROVE  Safe(p)' /\ Forward(p)
    <3>1. CASE p # o
      BY <2>1, <2>6, <3>1, SameRows
    <3>2. Safe(o)' /\ Forward(o)
      BY <1>1, <2>1, <2>2, <2>3, <2>4, <2>5 DEF Safe, Forward, OrderInv, Payable, PaidFor
    <3> QED
      BY <3>1, <3>2
  <2> QED
    BY <1>1, <2>6, Assemble
<1> QED
  BY <1>2, <1>3, <1>4 DEF Environment

-----------------------------------------------------------------------------
(* Requests in flight take their next step *)

\* Two slots apart: what is proved of the acting request covers all of them.
LEMMA CheckoutStepSafe ==
    ASSUME IInv, TypeOK', NEW r \in Requests, NEW o \in Orders, CheckoutStep(r, o)
    PROVE  IInv' /\ Advances
<1>0. /\ TypeOK /\ Safe(o) /\ req[r] \in Request
      /\ credit[o] \in Nat /\ spent[o] \in Nat /\ returned[o] \in Nat
      /\ Price[o] \in Nat /\ Price[o] > 0 /\ gateway[o].captured \in Nat
      /\ req[r].applied \in Nat /\ req[r].seen \in Nat
      /\ BeliefInv(req[r]) /\ PayingInv(req[r]) /\ req[r].order = o
  BY Acting DEF CheckoutStep, SpendSum, SpendDebit, Annotate, UpsertPayment,
     OpenSession, MarkProcessing, At
<1>1. CASE SpendSum(r, o)
  <2>1. UNCHANGED rows /\ req[r].step = "sum"
    BY <1>1 DEF SpendSum, At, rows, orderVars, walletVars
  <2>2. /\ \A q \in Requests \ {r} : req'[q] = req[q]
        /\ req'[r].order = o /\ req'[r].applied = req[r].applied
        /\ \/ req'[r].step = "upsert"
           \/ req'[r].step = "debit" /\ req'[r].seen > 0
    <3>1. CASE Put(r, [req[r] EXCEPT !.step = "upsert"])
      BY <1>0, <3>1 DEF Put, TypeOK, Request
    <3>2. CASE balance > 0 /\ Put(r, [req[r] EXCEPT !.seen = balance, !.step = "debit"])
      BY <1>0, <3>2 DEF Put, TypeOK, Request
    <3> QED
      BY <1>1, <3>1, <3>2 DEF SpendSum, Goto
  <2>3. RequestInv(req[r])'
    BY <1>0, <2>1, <2>2 DEF RequestInv, BeliefInv, PayingInv, ClosingInv, rows
  <2> QED
    BY <2>1, <2>2, <2>3, Others, QuietStep
<1>2. CASE SpendDebit(r, o)
  <2>1. CASE spent[o] # 0
    <3>1. UNCHANGED rows /\ Finish(r)
      BY <1>2, <2>1 DEF SpendDebit, rows, orderVars
    <3> QED
      BY <1>0, <3>1, FinishedRequest, QuietStep
  <2>2. CASE spent[o] = 0
    <3>1. /\ UNCHANGED <<order, credit, timelines, payment, returned, gateway>>
          /\ spent' = [spent EXCEPT ![o] = Take(r, o)]
          /\ Put(r, [req[r] EXCEPT !.applied = Take(r, o), !.step = "annotate"])
          /\ req[r].step = "debit"
      BY <1>2, <2>2 DEF SpendDebit, At, orderVars
    <3>2. Take(r, o) \in Nat /\ 0 < Take(r, o) /\ Take(r, o) <= Price[o]
      BY <1>0, <3>1 DEF Take, BeliefInv
    <3>3. /\ \A q \in Requests \ {r} : req'[q] = req[q]
          /\ req'[r].order = o /\ req'[r].applied = Take(r, o) /\ req'[r].step = "annotate"
      BY <1>0, <3>1 DEF Put, TypeOK, Request
    <3>4. spent'[o] = Take(r, o) /\ \A p \in Orders \ {o} : spent'[p] = spent[p]
      BY <1>0, <3>1 DEF TypeOK
    <3>5. RequestInv(req[r])'
      BY <3>2, <3>3, <3>4 DEF RequestInv, BeliefInv, PayingInv, ClosingInv
    <3>6. Safe(o)' /\ Forward(o)
      BY <1>0, <2>2, <3>1, <3>2, <3>4 DEF Safe, Forward, OrderInv, Payable, PaidFor
    <3>7. \A p \in Orders : Safe(p)' /\ Forward(p)
      BY <3>1, <3>4, <3>6, SameRows
    <3> QED
      BY <3>3, <3>5, <3>7, Others, Assemble
  <2> QED
    BY <2>1, <2>2
<1>3. CASE Annotate(r, o)
  <2>1. /\ UNCHANGED <<order, timelines, payment, spent, returned, gateway>>
        /\ credit' = [credit EXCEPT ![o] = req[r].applied]
        /\ req[r].step = "annotate"
    BY <1>3 DEF Annotate, At, walletVars
  <2>2. /\ \A q \in Requests \ {r} : req'[q] = req[q]
        /\ req'[r].order = o /\ req'[r].applied = req[r].applied /\ req'[r].step = "upsert"
    BY <1>0, <1>3 DEF Annotate, Goto, Put, TypeOK, Request
  <2>3. credit'[o] = req[r].applied /\ \A p \in Orders \ {o} : credit'[p] = credit[p]
    BY <1>0, <2>1 DEF TypeOK
  <2>4. req[r].applied = spent[o]
    BY <1>0, <2>1 DEF BeliefInv
  <2>5. RequestInv(req[r])'
    BY <2>1, <2>2, <2>3, <2>4 DEF RequestInv, BeliefInv, PayingInv, ClosingInv
  <2>6. Payable(o, spent[o]) <= Payable(o, credit[o])
    BY <1>0 DEF Payable, Safe, OrderInv
  <2>7. Payable(o, spent[o]) \in Nat /\ Payable(o, credit[o]) \in Nat
        /\ gateway[o].amount \in Nat
    BY <1>0, PayableType, NumberTypes
  <2>8. Payable(o, credit[o])' = Payable(o, spent[o])
    BY <2>3, <2>4 DEF Payable
  <2>9. Safe(o)' /\ Forward(o)
    BY <1>0, <2>1, <2>3, <2>4, <2>6, <2>7, <2>8 DEF Safe, Forward, OrderInv, PaidFor
  <2>10. \A p \in Orders : Safe(p)' /\ Forward(p)
    BY <2>1, <2>3, <2>9, SameRows
  <2> QED
    BY <2>2, <2>5, <2>10, Others, Assemble
<1>4. CASE UpsertPayment(r, o)
  <2> DEFINE payable == Payable(o, req[r].applied)
  <2>1. /\ UNCHANGED <<order, credit, timelines, spent, returned, gateway>>
        /\ payment' = [payment EXCEPT ![o] =
              [payment[o] EXCEPT !.status = "created", !.amount = payable]]
        /\ req[r].step = "upsert"
    BY <1>4 DEF UpsertPayment, At, orderVars, walletVars
  <2>2. /\ payment'[o].status = "created" /\ payment'[o].method = payment[o].method
        /\ \A p \in Orders \ {o} : payment'[p] = payment[p]
    BY <1>0, <2>1 DEF TypeOK, PaymentRow
  <2>3. /\ \A q \in Requests \ {r} : req'[q] = req[q]
        /\ req'[r].order = o /\ req'[r].applied = req[r].applied
        /\ \/ payable = 0 /\ req'[r].step = "read" /\ req'[r].method = "wallet"
           \/ payable # 0 /\ req'[r].step = "read" /\ req'[r].method = "cash"
           \/ payable # 0 /\ req'[r].step = "session"
    <3>1. CASE payable = 0 /\ Put(r, [req[r] EXCEPT !.step = "read", !.method = "wallet"])
      BY <1>0, <3>1 DEF Put, TypeOK, Request
    <3>2. CASE payable # 0 /\ req[r].method = "cash" /\ Put(r, [req[r] EXCEPT !.step = "read"])
      BY <1>0, <3>2 DEF Put, TypeOK, Request
    <3>3. CASE payable # 0 /\ Put(r, [req[r] EXCEPT !.step = "session"])
      BY <1>0, <3>3 DEF Put, TypeOK, Request
    <3> QED
      BY <1>4, <3>1, <3>2, <3>3 DEF UpsertPayment, Goto
  <2>4. payable = 0 <=> req[r].applied >= Price[o]
    BY <1>0, PayableType
  <2>5. RequestInv(req[r])'
    BY <1>0, <2>1, <2>3, <2>4 DEF RequestInv, BeliefInv, PayingInv, ClosingInv, Safe, OrderInv
  <2>6. \A q \in Requests : req'[q] = req[q] \/ RequestInv(req[q])'
    BY <2>3, <2>5, Others
  <2> QED
    BY <2>1, <2>2, <2>6, StatusStep
<1>5. CASE OpenSession(r, o)
  <2>1. /\ UNCHANGED <<order, credit, timelines, payment, spent, returned>>
        /\ req[r].step = "session"
    BY <1>5 DEF OpenSession, At, orderVars, walletVars
  <2>2. /\ \A q \in Requests \ {r} : req'[q] = req[q]
        /\ req'[r].order = o /\ req'[r].applied = req[r].applied
        /\ req'[r].step = "processing"
    BY <1>0, <1>5 DEF OpenSession, Goto, Put, TypeOK, Request
  <2>3. RequestInv(req[r])'
    BY <1>0, <2>1, <2>2 DEF RequestInv, BeliefInv, PayingInv, ClosingInv
  <2>4. CASE UNCHANGED gateway
    BY <2>1, <2>2, <2>3, <2>4, Others, QuietStep DEF rows
  <2>5. CASE /\ gateway[o].state = "none"
             /\ gateway' = [gateway EXCEPT ![o] =
                   [gateway[o] EXCEPT !.state = "active",
                                      !.amount = Payable(o, req[r].applied)]]
    <3>1. gateway[o] \in GatewayOrder
      BY <1>0, NumberTypes
    <3>2. /\ \A p \in Orders \ {o} : gateway'[p] = gateway[p]
          /\ gateway'[o].state = "active" /\ gateway'[o].amount = Payable(o, req[r].applied)
          /\ gateway'[o].captured = gateway[o].captured
          /\ gateway'[o].refunded = gateway[o].refunded
      BY <1>0, <2>5, <3>1 DEF TypeOK, GatewayOrder
    <3>3. req[r].applied < Price[o]
      BY <1>0, <2>1 DEF BeliefInv
    <3>4. Payable(o, req[r].applied) > 0
      BY <1>0, <3>3 DEF Payable
    <3>5. order[o] = "pending_payment" => req[r].applied \in {0, credit[o]}
      BY <1>0, <2>1 DEF BeliefInv
    <3>6. order[o] = "pending_payment" => Payable(o, req[r].applied) >= Payable(o, credit[o])
      BY <1>0, <3>5 DEF Payable
    <3>7. Payable(o, credit[o])' = Payable(o, credit[o])
      BY <2>1 DEF Payable
    <3>8. Safe(o)' /\ Forward(o)
      BY <1>0, <2>1, <2>5, <3>2, <3>4, <3>6, <3>7 DEF Safe, Forward, OrderInv, PaidFor
    <3>9. \A p \in Orders : Safe(p)' /\ Forward(p)
      BY <2>1, <3>2, <3>8, SameRows
    <3> QED
      BY <2>2, <2>3, <3>9, Others, Assemble
  <2> QED
    BY <1>5, <2>4, <2>5 DEF OpenSession
<1>6. CASE MarkProcessing(r, o)
  <2>1. /\ UNCHANGED <<order, credit, timelines, spent, returned, gateway>>
        /\ payment' = [payment EXCEPT ![o] = [payment[o] EXCEPT !.status = "processing"]]
        /\ Finish(r)
    BY <1>6 DEF MarkProcessing, SetPayment, orderVars, walletVars
  <2>2. /\ payment'[o].status = "processing" /\ payment'[o].method = payment[o].method
        /\ \A p \in Orders \ {o} : payment'[p] = payment[p]
    BY <1>0, <2>1 DEF TypeOK, PaymentRow
  <2> QED
    BY <1>0, <2>1, <2>2, FinishedRequest, StatusStep
<1> QED
  BY <1>1, <1>2, <1>3, <1>4, <1>5, <1>6 DEF CheckoutStep

LEMMA MarkPaidStepSafe ==
    ASSUME IInv, TypeOK', NEW r \in Requests, NEW o \in Orders, MarkPaidStep(r, o)
    PROVE  IInv' /\ Advances
<1>0. /\ TypeOK /\ Safe(o) /\ req[r] \in Request
      /\ credit[o] \in Nat /\ spent[o] \in Nat /\ returned[o] \in Nat
      /\ Price[o] \in Nat /\ Price[o] > 0
      /\ gateway[o].amount \in Nat /\ gateway[o].captured \in Nat
      /\ req[r].applied \in Nat /\ req[r].paid \in Nat /\ req[r].order = o
      /\ BeliefInv(req[r]) /\ PayingInv(req[r]) /\ ClosingInv(req[r])
  BY Acting DEF MarkPaidStep, MarkPaidRead, RecordShortfall, Claim, VerifyAsk, At
<1>1. CASE MarkPaidRead(r, o)
  <2>1. UNCHANGED rows /\ req[r].step = "read"
    BY <1>1 DEF MarkPaidRead, At, rows, orderVars, walletVars
  <2>2. CASE Finish(r)
    BY <1>0, <2>1, <2>2, FinishedRequest, QuietStep
  <2>3. CASE req[r].method = "online" /\ Put(r, [req[r] EXCEPT !.step = "shortfall"])
    <3>1. /\ \A q \in Requests \ {r} : req'[q] = req[q]
          /\ req'[r].order = o /\ req'[r].applied = req[r].applied
          /\ req'[r].step = "shortfall" /\ req'[r].paid = req[r].paid
      BY <1>0, <2>3 DEF Put, TypeOK, Request
    <3>2. RequestInv(req[r])'
      BY <1>0, <2>1, <2>3, <3>1 DEF RequestInv, BeliefInv, PayingInv, ClosingInv, rows
    <3> QED
      BY <2>1, <3>1, <3>2, Others, QuietStep
  <2>4. CASE /\ req[r].method = "online" => Covers(o, req[r].paid)
             /\ Put(r, [req[r] EXCEPT !.step = "claim", !.applied = credit[o]])
    <3>1. /\ \A q \in Requests \ {r} : req'[q] = req[q]
          /\ req'[r].order = o /\ req'[r].applied = credit[o]
          /\ req'[r].step = "claim" /\ req'[r].paid = req[r].paid
          /\ req'[r].method = req[r].method
      BY <1>0, <2>4 DEF Put, TypeOK, Request
    <3>2. req[r].method = "online" => req[r].paid + spent[o] >= Price[o]
      BY <1>0, <2>4 DEF Covers, Payable, Safe, OrderInv
    <3>3. RequestInv(req[r])'
      BY <1>0, <2>1, <3>1, <3>2 DEF RequestInv, BeliefInv, PayingInv, ClosingInv, rows,
         Safe, OrderInv
    <3> QED
      BY <2>1, <3>1, <3>3, Others, QuietStep
  <2> QED
    BY <1>1, <2>2, <2>3, <2>4 DEF MarkPaidRead, Goto
<1>2. CASE RecordShortfall(r, o)
  <2>1. /\ UNCHANGED <<order, credit, timelines, spent, returned, gateway>> /\ Finish(r)
        /\ \/ UNCHANGED payment
           \/ SetPayment(o, "failed")
    BY <1>2 DEF RecordShortfall, orderVars, walletVars
  <2>2. \A q \in Requests : req'[q] = req[q] \/ RequestInv(req[q])'
    BY <1>0, <2>1, FinishedRequest
  <2>3. CASE UNCHANGED payment
    BY <2>1, <2>2, <2>3, QuietStep DEF rows
  <2>4. CASE payment' # payment
    <3>1. payment' = [payment EXCEPT ![o] = [payment[o] EXCEPT !.status = "failed"]]
      BY <2>1, <2>4 DEF SetPayment
    <3>2. /\ payment'[o].status = "failed" /\ payment'[o].method = payment[o].method
          /\ \A p \in Orders \ {o} : payment'[p] = payment[p]
      BY <1>0, <3>1 DEF TypeOK, PaymentRow
    <3> QED
      BY <1>0, <2>1, <2>2, <3>2, StatusStep
  <2> QED
    BY <2>3, <2>4
<1>3. CASE Claim(r, o)
  <2>1. /\ UNCHANGED <<credit, spent, returned, gateway>> /\ Finish(r)
        /\ req[r].step = "claim"
    BY <1>3 DEF Claim, At, walletVars
  <2>2. \A q \in Requests : req'[q] = req[q] \/ RequestInv(req[q])'
    BY <1>0, <2>1, FinishedRequest
  <2>3. CASE UNCHANGED <<order, timelines, payment>>
    BY <2>1, <2>2, <2>3, QuietStep DEF rows
  <2>4. CASE /\ order[o] = "pending_payment"
             /\ order' = [order EXCEPT ![o] = "confirmed"]
             /\ timelines' = [timelines EXCEPT ![o] = @ + 1]
             /\ payment' = [payment EXCEPT ![o] =
                   [status |-> SettledStatus(req[r].method), method |-> req[r].method,
                    amount |-> IF payment[o].status = "none"
                               THEN Payable(o, req[r].applied) ELSE payment[o].amount]]
    <3>1. /\ order'[o] = "confirmed" /\ timelines'[o] = timelines[o] + 1
          /\ payment'[o].status = SettledStatus(req[r].method)
          /\ payment'[o].method = req[r].method
      BY <1>0, <2>4 DEF TypeOK
    <3>2. \A p \in Orders \ {o} : /\ order'[p] = order[p] /\ timelines'[p] = timelines[p]
                                   /\ payment'[p] = payment[p]
      BY <1>0, <2>4 DEF TypeOK
    <3>3. timelines[o] = 0 /\ returned[o] = 0
      BY <1>0, <2>4 DEF Safe
    <3>4. req[r].method \in {"online", "cash", "wallet"}
      BY <1>0, RequestFields
    <3>5. ASSUME req[r].method = "cash" PROVE Safe(o)' /\ Forward(o)
      <4>1. payment'[o].status = "pending"
        BY <3>1, <3>5 DEF SettledStatus
      <4> QED
        BY <1>0, <2>1, <2>4, <3>1, <3>3, <3>5, <4>1 DEF Safe, Forward, OrderInv, PaidFor
    <3>6. ASSUME req[r].method # "cash" PROVE Safe(o)' /\ Forward(o)
      <4>1. payment'[o].status = "success"
        BY <3>1, <3>6 DEF SettledStatus
      <4>2. PaidFor(o) /\ spent[o] + gateway[o].captured >= Price[o]
        BY <1>0, <2>1, <3>4, <3>6 DEF PayingInv, PaidFor
      <4> QED
        BY <1>0, <2>1, <2>4, <3>1, <3>3, <4>1, <4>2 DEF Safe, Forward, OrderInv, PaidFor
    <3>7. \A p \in Orders : Safe(p)' /\ Forward(p)
      BY <2>1, <3>2, <3>5, <3>6, SameRows
    <3> QED
      BY <2>2, <3>7, Assemble
  <2> QED
    BY <1>3, <2>3, <2>4 DEF Claim, Claimable
<1>4. CASE VerifyAsk(r, o)
  <2>1. UNCHANGED rows /\ req[r].step = "ask"
    BY <1>4 DEF VerifyAsk, At, rows, orderVars, walletVars
  <2>2. CASE Finish(r)
    BY <1>0, <2>1, <2>2, FinishedRequest, QuietStep
  <2>3. CASE /\ gateway[o].state = "paid"
             /\ Put(r, [req[r] EXCEPT !.step = "read", !.paid = gateway[o].amount])
    <3>1. /\ \A q \in Requests \ {r} : req'[q] = req[q]
          /\ req'[r].order = o /\ req'[r].applied = req[r].applied
          /\ req'[r].step = "read" /\ req'[r].paid = gateway[o].amount
          /\ req'[r].method = req[r].method
      BY <1>0, <2>3 DEF Put, TypeOK, Request
    <3>2. gateway[o].amount > 0 /\ gateway[o].captured = gateway[o].amount
      BY <1>0, <2>3 DEF Safe, OrderInv
    <3>3. req[r].method = "online"
      BY <1>0, <2>1 DEF PayingInv
    <3>4. RequestInv(req[r])'
      BY <1>0, <2>1, <3>1, <3>2, <3>3 DEF RequestInv, BeliefInv, PayingInv, ClosingInv, rows
    <3> QED
      BY <2>1, <3>1, <3>4, Others, QuietStep
  <2> QED
    BY <1>4, <2>2, <2>3 DEF VerifyAsk
<1> QED
  BY <1>1, <1>2, <1>3, <1>4 DEF MarkPaidStep

LEMMA CancelStepSafe ==
    ASSUME IInv, TypeOK', NEW r \in Requests, NEW o \in Orders, CancelStep(r, o)
    PROVE  IInv' /\ Advances
<1>0. /\ TypeOK /\ Safe(o) /\ req[r] \in Request
      /\ credit[o] \in Nat /\ spent[o] \in Nat /\ returned[o] \in Nat
      /\ Price[o] \in Nat /\ Price[o] > 0
      /\ gateway[o].amount \in Nat /\ gateway[o].captured \in Nat
      /\ req[r].applied \in Nat /\ req[r].paid \in Nat /\ req[r].order = o
      /\ BeliefInv(req[r]) /\ PayingInv(req[r]) /\ ClosingInv(req[r])
  BY Acting DEF CancelStep, CancelCutoff, CancelWrite, CancelGiveBack, CancelFlag, At
<1>1. CASE CancelCutoff(r, o)
  <2>1. UNCHANGED rows /\ req[r].step = "cutoff"
    BY <1>1 DEF CancelCutoff, At, rows, orderVars, walletVars
  <2>2. CASE Finish(r)
    BY <1>0, <2>1, <2>2, FinishedRequest, QuietStep
  <2>3. CASE Put(r, [req[r] EXCEPT !.step = "cancel"])
    <3>1. /\ \A q \in Requests \ {r} : req'[q] = req[q]
          /\ req'[r].order = o /\ req'[r].applied = req[r].applied /\ req'[r].step = "cancel"
      BY <1>0, <2>3 DEF Put, TypeOK, Request
    <3>2. RequestInv(req[r])'
      BY <1>0, <2>1, <3>1 DEF RequestInv, BeliefInv, PayingInv, ClosingInv, rows
    <3> QED
      BY <2>1, <3>1, <3>2, Others, QuietStep
  <2> QED
    BY <1>1, <2>2, <2>3 DEF CancelCutoff, Goto
<1>2. CASE CancelWrite(r, o)
  <2>1. /\ UNCHANGED <<timelines, payment, spent, returned, gateway>>
        /\ order' = [order EXCEPT ![o] = "cancelled"]
        /\ credit' = [credit EXCEPT ![o] = req[r].applied]
        /\ Put(r, [req[r] EXCEPT !.step = IF req[r].applied > 0 THEN "giveback" ELSE "flag"])
    BY <1>2 DEF CancelWrite, Goto, walletVars
  <2>2. /\ order'[o] = "cancelled" /\ credit'[o] = req[r].applied
        /\ \A p \in Orders \ {o} : order'[p] = order[p] /\ credit'[p] = credit[p]
    BY <1>0, <2>1 DEF TypeOK
  <2>3. /\ \A q \in Requests \ {r} : req'[q] = req[q]
        /\ req'[r].order = o /\ req'[r].applied = req[r].applied
        /\ req'[r].step = IF req[r].applied > 0 THEN "giveback" ELSE "flag"
    BY <1>0, <2>1 DEF Put, TypeOK, Request
  <2>4. RequestInv(req[r])'
    BY <1>0, <2>1, <2>2, <2>3 DEF RequestInv, BeliefInv, PayingInv, ClosingInv
  <2>5. Safe(o)' /\ Forward(o)
    BY <1>0, <2>1, <2>2 DEF Safe, Forward, OrderInv, PaidFor, BeliefInv
  <2>6. \A p \in Orders : Safe(p)' /\ Forward(p)
    BY <2>1, <2>2, <2>5, SameRows
  <2> QED
    BY <2>3, <2>4, <2>6, Others, Assemble
<1>3. CASE CancelGiveBack(r, o)
  <2>1. /\ UNCHANGED <<order, credit, timelines, payment, spent, gateway>>
        /\ req[r].step = "giveback" /\ Put(r, [req[r] EXCEPT !.step = "flag"])
    BY <1>3 DEF CancelGiveBack, At, Goto, orderVars
  <2>2. /\ \A q \in Requests \ {r} : req'[q] = req[q]
        /\ req'[r].order = o /\ req'[r].applied = req[r].applied /\ req'[r].step = "flag"
    BY <1>0, <2>1 DEF Put, TypeOK, Request
  <2>3. RequestInv(req[r])'
    BY <1>0, <2>1, <2>2 DEF RequestInv, BeliefInv, PayingInv, ClosingInv
  <2>4. CASE UNCHANGED returned
    BY <2>1, <2>2, <2>3, <2>4, Others, QuietStep DEF rows
  <2>5. CASE /\ returned[o] = 0
             /\ returned' = [returned EXCEPT ![o] = returned[o] + req[r].applied]
    <3>1. /\ returned'[o] = req[r].applied
          /\ \A p \in Orders \ {o} : returned'[p] = returned[p]
      BY <1>0, <2>5 DEF TypeOK
    <3>2. req[r].applied = spent[o] /\ order[o] \in {"cancelled", "completed"}
      BY <1>0, <2>1 DEF BeliefInv, ClosingInv
    <3>3. Safe(o)' /\ Forward(o)
      BY <1>0, <2>1, <3>1, <3>2 DEF Safe, Forward, OrderInv, PaidFor
    <3>4. \A p \in Orders : Safe(p)' /\ Forward(p)
      BY <2>1, <3>1, <3>3, SameRows
    <3> QED
      BY <2>2, <2>3, <3>4, Others, Assemble
  <2> QED
    BY <1>3, <2>4, <2>5 DEF CancelGiveBack, NoRefundRow
<1>4. CASE CancelFlag(r, o)
  <2>1. /\ UNCHANGED <<order, credit, timelines, spent, returned, gateway>> /\ Finish(r)
        /\ \/ UNCHANGED payment
           \/ payment[o].status = "success" /\ SetPayment(o, "refund_pending")
    BY <1>4 DEF CancelFlag, orderVars, walletVars
  <2>2. \A q \in Requests : req'[q] = req[q] \/ RequestInv(req[q])'
    BY <1>0, <2>1, FinishedRequest
  <2>3. CASE UNCHANGED payment
    BY <2>1, <2>2, <2>3, QuietStep DEF rows
  <2>4. CASE payment' # payment
    <3>1. payment' = [payment EXCEPT ![o] = [payment[o] EXCEPT !.status = "refund_pending"]]
      BY <2>1, <2>4 DEF SetPayment
    <3>2. /\ payment'[o].status = "refund_pending" /\ payment'[o].method = payment[o].method
          /\ \A p \in Orders \ {o} : payment'[p] = payment[p]
      BY <1>0, <3>1 DEF TypeOK, PaymentRow
    <3>3. PaidFor(o)
      BY <1>0, <2>1, <2>4 DEF Safe
    <3> QED
      BY <1>0, <2>1, <2>2, <3>2, <3>3, StatusStep
  <2> QED
    BY <2>3, <2>4
<1> QED
  BY <1>1, <1>2, <1>3, <1>4 DEF CancelStep

LEMMA OtherStepSafe ==
    ASSUME IInv, TypeOK', NEW r \in Requests, NEW o \in Orders, OtherStep(r, o)
    PROVE  IInv' /\ Advances
<1>0. /\ TypeOK /\ Safe(o) /\ req[r] \in Request
      /\ credit[o] \in Nat /\ spent[o] \in Nat /\ returned[o] \in Nat
      /\ Price[o] \in Nat /\ Price[o] > 0
      /\ gateway[o].amount \in Nat /\ gateway[o].captured \in Nat
      /\ req[r].applied \in Nat /\ req[r].paid \in Nat /\ req[r].order = o
      /\ BeliefInv(req[r]) /\ PayingInv(req[r]) /\ ClosingInv(req[r])
  BY Acting DEF OtherStep, ViewComplete, ViewReward, FlagWrite, ApproveRefund,
     ApproveSettle, At
<1>1. CASE ViewComplete(r, o)
  <2>1. /\ UNCHANGED <<credit, timelines, payment, spent, returned, gateway>>
        /\ order' = [order EXCEPT ![o] = "completed"]
        /\ req[r].step = "complete"
    BY <1>1 DEF ViewComplete, At, walletVars
  <2>2. order'[o] = "completed" /\ \A p \in Orders \ {o} : order'[p] = order[p]
    BY <1>0, <2>1 DEF TypeOK
  <2>3. \A q \in Requests : req'[q] = req[q] \/ RequestInv(req[q])'
    <3>1. CASE Finish(r)
      BY <1>0, <3>1, FinishedRequest
    <3>2. CASE Put(r, [req[r] EXCEPT !.step = "reward"])
      <4>1. /\ \A q \in Requests \ {r} : req'[q] = req[q]
            /\ req'[r].order = o /\ req'[r].applied = req[r].applied
            /\ req'[r].step = "reward"
        BY <1>0, <3>2 DEF Put, TypeOK, Request
      <4>2. RequestInv(req[r])'
        BY <1>0, <2>1, <4>1 DEF RequestInv, BeliefInv, PayingInv, ClosingInv
      <4> QED
        BY <4>1, <4>2, Others
    <3> QED
      BY <1>1, <3>1, <3>2 DEF ViewComplete, Goto
  <2>4. Safe(o)' /\ Forward(o)
    BY <1>0, <2>1, <2>2 DEF Safe, Forward, OrderInv, PaidFor, ClosingInv
  <2>5. \A p \in Orders : Safe(p)' /\ Forward(p)
    BY <2>1, <2>2, <2>4, SameRows
  <2> QED
    BY <2>3, <2>5, Assemble
<1>2. CASE ViewReward(r, o)
  <2>1. UNCHANGED rows /\ Finish(r)
    BY <1>2 DEF ViewReward, rows, orderVars
  <2> QED
    BY <1>0, <2>1, FinishedRequest, QuietStep
<1>3. CASE FlagWrite(r, o)
  <2>1. /\ UNCHANGED <<order, credit, timelines, spent, returned, gateway>> /\ Finish(r)
        /\ req[r].step = "raise"
        /\ \/ UNCHANGED payment
           \/ SetPayment(o, "refund_pending")
    BY <1>3 DEF FlagWrite, At, orderVars, walletVars
  <2>2. \A q \in Requests : req'[q] = req[q] \/ RequestInv(req[q])'
    BY <1>0, <2>1, FinishedRequest
  <2>3. CASE UNCHANGED payment
    BY <2>1, <2>2, <2>3, QuietStep DEF rows
  <2>4. CASE payment' # payment
    <3>1. payment' = [payment EXCEPT ![o] = [payment[o] EXCEPT !.status = "refund_pending"]]
      BY <2>1, <2>4 DEF SetPayment
    <3>2. /\ payment'[o].status = "refund_pending" /\ payment'[o].method = payment[o].method
          /\ \A p \in Orders \ {o} : payment'[p] = payment[p]
      BY <1>0, <3>1 DEF TypeOK, PaymentRow
    <3>3. PaidFor(o)
      BY <1>0, <2>1 DEF ClosingInv
    <3> QED
      BY <1>0, <2>1, <2>2, <3>2, <3>3, StatusStep
  <2> QED
    BY <2>3, <2>4
<1>4. CASE ApproveRefund(r, o)
  <2>1. UNCHANGED <<order, credit, timelines, payment, spent, returned>>
    BY <1>4 DEF ApproveRefund, orderVars, walletVars
  <2>2. CASE Finish(r) /\ UNCHANGED gateway
    <3>1. UNCHANGED rows
      BY <2>1, <2>2 DEF rows
    <3> QED
      BY <1>0, <2>2, <3>1, FinishedRequest, QuietStep
  <2>3. CASE /\ 0 < req[r].paid
             /\ gateway' = [gateway EXCEPT ![o] = [gateway[o] EXCEPT !.refunded = req[r].paid]]
             /\ Put(r, [req[r] EXCEPT !.step = "settle"])
    <3>1. gateway[o] \in GatewayOrder
      BY <1>0, NumberTypes
    <3>2. /\ gateway'[o].refunded = req[r].paid /\ gateway'[o].state = gateway[o].state
          /\ gateway'[o].amount = gateway[o].amount
          /\ gateway'[o].captured = gateway[o].captured
          /\ \A p \in Orders \ {o} : gateway'[p] = gateway[p]
      BY <1>0, <2>3, <3>1 DEF TypeOK, GatewayOrder
    <3>3. /\ \A q \in Requests \ {r} : req'[q] = req[q]
          /\ req'[r].order = o /\ req'[r].applied = req[r].applied /\ req'[r].step = "settle"
      BY <1>0, <2>3 DEF Put, TypeOK, Request
    <3>4. RequestInv(req[r])'
      BY <1>0, <2>1, <2>3, <3>2, <3>3 DEF RequestInv, BeliefInv, PayingInv, ClosingInv
    <3>5. Safe(o)' /\ Forward(o)
      BY <1>0, <2>1, <2>3, <3>2 DEF Safe, Forward, OrderInv, PaidFor, Payable
    <3>6. \A p \in Orders : Safe(p)' /\ Forward(p)
      BY <2>1, <3>2, <3>5, SameRows
    <3> QED
      BY <3>3, <3>4, <3>6, Others, Assemble
  <2> QED
    BY <1>4, <2>2, <2>3 DEF ApproveRefund, GatewayAccepts, Goto
<1>5. CASE ApproveSettle(r, o)
  <2>1. /\ UNCHANGED <<order, credit, timelines, spent, returned, gateway>> /\ Finish(r)
        /\ req[r].step = "settle"
        /\ \/ UNCHANGED payment
           \/ SetPayment(o, "refunded")
    BY <1>5 DEF ApproveSettle, At, SettleRefund, orderVars, walletVars
  <2>2. \A q \in Requests : req'[q] = req[q] \/ RequestInv(req[q])'
    BY <1>0, <2>1, FinishedRequest
  <2>3. CASE UNCHANGED payment
    BY <2>1, <2>2, <2>3, QuietStep DEF rows
  <2>4. CASE payment' # payment
    <3>1. payment' = [payment EXCEPT ![o] = [payment[o] EXCEPT !.status = "refunded"]]
      BY <2>1, <2>4 DEF SetPayment
    <3>2. /\ payment'[o].status = "refunded" /\ payment'[o].method = payment[o].method
          /\ \A p \in Orders \ {o} : payment'[p] = payment[p]
      BY <1>0, <3>1 DEF TypeOK, PaymentRow
    <3>3. gateway[o].refunded > 0
      BY <1>0, <2>1 DEF ClosingInv
    <3> QED
      BY <1>0, <2>1, <2>2, <3>2, <3>3, StatusStep
  <2> QED
    BY <2>3, <2>4
<1> QED
  BY <1>1, <1>2, <1>3, <1>4, <1>5 DEF OtherStep

-----------------------------------------------------------------------------
(* The theorems *)

LEMMA NextSafe == IInv /\ [Next]_vars => IInv' /\ Advances
<1> SUFFICES ASSUME IInv, [Next]_vars PROVE IInv' /\ Advances
  OBVIOUS
<1>1. TypeOK'
  BY IInvParts, NextTypeOK
<1>2. CASE UNCHANGED vars
  <2>1. UNCHANGED rows /\ UNCHANGED req
    BY <1>2 DEF vars, rows
  <2> QED
    BY <1>1, <2>1, QuietStep
<1>3. CASE Next
  BY <1>1, <1>3, StartSafe, AbortSafe, EnvironmentSafe, CheckoutStepSafe,
     MarkPaidStepSafe, CancelStepSafe, OtherStepSafe DEF Next, Continue
<1> QED
  BY <1>2, <1>3

\* Nothing a request in flight still holds ever contradicts the rows it was
\* read from, however many requests interleave.
THEOREM InvariantHolds == Spec => []IInv
BY IdleSafe, NextSafe, PTL DEF Spec

\* No interleaving of checkout, webhook, verify and cancel confirms an order for
\* less than it costs.
THEOREM NeverUnderpaid == Spec => []PaidInFull
<1>1. IInv => PaidInFull
  BY DEF IInv
<1> QED
  BY <1>1, InvariantHolds, PTL

\* Whoever wins the claim, the order is confirmed with exactly one timeline and
\* a payment row.
THEOREM OneConfirmation == Spec => []ConfirmedOnce
<1>1. IInv => ConfirmedOnce
  BY DEF IInv
<1> QED
  BY <1>1, InvariantHolds, PTL

\* Two racing cancellations return the credit at most once.
THEOREM OneGiveBack == Spec => []CreditReturnedOnce
<1>1. IInv => CreditReturnedOnce
  BY DEF IInv
<1> QED
  BY <1>1, InvariantHolds, PTL

\* A capture in full is never refused as an underpayment.
THEOREM CaptureSuffices == Spec => []FullCaptureCovers
<1>1. IInv => FullCaptureCovers
  BY DEF IInv
<1> QED
  BY <1>1, InvariantHolds, PTL

\* A refund is put up for review only where money was taken, is recorded as
\* refunded only after the gateway moved it, and credit goes back at most once.
THEOREM RefundsAreReal == Spec => []MoneyBackIsReal
<1>1. IInv => MoneyBackIsReal
  BY DEF IInv, MoneyBackIsReal
<1> QED
  BY <1>1, InvariantHolds, PTL

\* An order that was cancelled or completed is never again payable, paid or
\* prepared, and a confirmed one never asks for payment again.
THEOREM FinishedForGood == Spec => FinishedStaysFinished
<1>1. IInv /\ [Next]_vars =>
        [\A o \in Orders :
            /\ order[o] \in {"cancelled", "completed"} =>
                    order'[o] \in {"cancelled", "completed"}
            /\ order[o] = "confirmed" => order'[o] # "pending_payment"]_order
  BY NextSafe DEF Advances, Forward
<1> QED
  BY <1>1, InvariantHolds, PTL DEF Spec, FinishedStaysFinished

-----------------------------------------------------------------------------
(* The wallet, at any isolation level *)

\* No step but the two of spendFromWallet enters the debit or lowers the balance.
HoldsNoDebit == \A q \in Requests : req'[q] = req[q] \/ req'[q].step # "debit"

LEMMA StepsOffDebit ==
    ASSUME TypeOK, NEW r \in Requests
    PROVE  /\ Finish(r) => HoldsNoDebit
           /\ \A s : s # "debit" /\ Goto(r, s) => HoldsNoDebit
           /\ \A o, s : s # "debit" /\ Begin(r, o, s) => HoldsNoDebit
<1>1. Finish(r) => HoldsNoDebit
  BY DEF Finish, Put, Idle, HoldsNoDebit, TypeOK
<1>2. ASSUME NEW s, s # "debit", Goto(r, s)
      PROVE  HoldsNoDebit
  <2>1. req[r] \in Request
    BY DEF TypeOK
  <2> QED
    BY <1>2, <2>1 DEF Goto, Put, Request, HoldsNoDebit, TypeOK
<1>3. ASSUME NEW o, NEW s, s # "debit", Begin(r, o, s)
      PROVE  HoldsNoDebit
  BY <1>3 DEF Begin, Put, Idle, HoldsNoDebit, TypeOK
<1> QED
  BY <1>1, <1>2, <1>3

LEMMA BalanceKept ==
    ASSUME TypeOK, SpendInv, balance' \in Int, balance' >= balance, HoldsNoDebit,
           UNCHANGED <<spent, raced>>
    PROVE  SpendInv'
<1>1. \A q \in Requests : req[q].seen \in Nat
  BY DEF TypeOK, Request
<1>2. \A q \in Requests, a \in Orders :
         At(q, a, "debit")' => At(q, a, "debit") /\ req'[q].seen = req[q].seen
  BY DEF At, HoldsNoDebit
<1> QED
  BY <1>1, <1>2 DEF SpendInv, OverdrawnOnlyByRace, TypeOK

LEMMA StartKeepsSpends ==
    ASSUME TypeOK, SpendInv, NEW r \in Requests, NEW o \in Orders, Start(r, o)
    PROVE  SpendInv'
<1>1. UNCHANGED <<balance, spent, raced>> /\ balance \in Int
  BY DEF Start, CheckoutStart, Webhook, VerifyStart, CancelStart, ViewStart, FlagStart,
     ApproveStart, walletVars, TypeOK
<1>2. ASSUME NEW useWallet \in BOOLEAN, NEW method \in {"online", "cash"},
             CheckoutStart(r, o, useWallet, method)
      PROVE  HoldsNoDebit
  BY <1>2 DEF CheckoutStart, Put, Idle, HoldsNoDebit, TypeOK
<1>3. CASE Webhook(r, o) \/ CancelStart(r, o) \/ ApproveStart(r, o)
  <2>1. HoldsNoDebit
    BY <1>3 DEF Webhook, CancelStart, ApproveStart, Put, Idle, HoldsNoDebit, TypeOK
  <2> QED
    BY <1>1, <2>1, BalanceKept
<1>4. CASE VerifyStart(r, o) \/ ViewStart(r, o) \/ FlagStart(r, o)
  <2>1. HoldsNoDebit
    BY <1>4, StepsOffDebit DEF VerifyStart, ViewStart, FlagStart
  <2> QED
    BY <1>1, <2>1, BalanceKept
<1> QED
  BY <1>1, <1>2, <1>3, <1>4, BalanceKept DEF Start

LEMMA ContinueKeepsSpends ==
    ASSUME TypeOK, SpendInv, NEW r \in Requests, NEW o \in Orders, Continue(r, o)
    PROVE  SpendInv'
<1>0. /\ balance \in Int /\ req[r] \in Request /\ Price[o] \in Nat
      /\ req[r].applied \in Nat /\ req[r].seen \in Nat
  BY OrdersAssumption, RequestFields DEF TypeOK
<1>1. CASE SpendSum(r, o)
  <2>1. UNCHANGED <<balance, spent>> /\ req[r].order = o
    BY <1>1 DEF SpendSum, At
  <2>2. CASE Goto(r, "upsert") /\ UNCHANGED raced
    BY <1>0, <2>1, <2>2, StepsOffDebit, BalanceKept
  <2>3. CASE /\ balance > 0
             /\ Put(r, [req[r] EXCEPT !.seen = balance, !.step = "debit"])
             /\ raced' = IF Spending = {} THEN raced ELSE raced \cup Spending \cup {o}
    <3>1. /\ req'[r].seen = balance /\ req'[r].order = o
          /\ \A q \in Requests \ {r} : req'[q] = req[q]
      BY <1>0, <2>1, <2>3 DEF Put, TypeOK, Request
    <3>2. raced \subseteq raced'
      BY <2>3
    <3>3. \A q \in Requests \ {r}, b \in Orders :
             At(q, b, "debit") => o \in raced' /\ b \in raced'
      BY <2>3 DEF Spending
    <3>4. \A q \in Requests \ {r}, b \in Orders : At(q, b, "debit")' <=> At(q, b, "debit")
      BY <3>1 DEF At
    <3>5. \A b \in Orders : At(r, b, "debit")' => b = o
      BY <3>1 DEF At
    <3>6. \A q \in Requests, a \in Orders : At(q, a, "debit")' =>
            /\ req'[q].seen > 0
            /\ req'[q].seen > balance' => a \in raced' /\ \E b \in raced' : spent'[b] > 0
      <4> SUFFICES ASSUME NEW q \in Requests, NEW a \in Orders, At(q, a, "debit")'
                   PROVE  /\ req'[q].seen > 0
                          /\ req'[q].seen > balance' =>
                                a \in raced' /\ \E b \in raced' : spent'[b] > 0
        OBVIOUS
      <4>1. CASE q = r
        BY <1>0, <2>1, <2>3, <3>1, <4>1
      <4>2. CASE q # r
        BY <2>1, <3>1, <3>2, <3>4, <4>2 DEF SpendInv
      <4> QED
        BY <4>1, <4>2
    <3>7. \A p, q \in Requests, a, b \in Orders :
             p # q /\ At(p, a, "debit")' /\ At(q, b, "debit")' => a \in raced'
      BY <3>2, <3>3, <3>4, <3>5 DEF SpendInv
    <3>8. OverdrawnOnlyByRace'
      BY <2>1, <3>2 DEF SpendInv, OverdrawnOnlyByRace
    <3> QED
      BY <3>6, <3>7, <3>8 DEF SpendInv
  <2> QED
    BY <1>1, <2>2, <2>3 DEF SpendSum
<1>2. CASE SpendDebit(r, o)
  <2>1. CASE Finish(r) /\ UNCHANGED <<balance, spent, raced>>
    BY <1>0, <2>1, StepsOffDebit, BalanceKept
  <2>2. CASE /\ spent[o] = 0
             /\ spent' = [spent EXCEPT ![o] = Take(r, o)]
             /\ balance' = balance - Take(r, o)
             /\ Put(r, [req[r] EXCEPT !.applied = Take(r, o), !.step = "annotate"])
             /\ UNCHANGED raced
    <3>1. At(r, o, "debit") /\ req[r].seen > 0
      BY <1>2 DEF SpendDebit, SpendInv
    <3>2. Take(r, o) \in Nat /\ Take(r, o) <= req[r].seen /\ Take(r, o) > 0
      BY <1>0, <3>1, OrdersAssumption DEF Take
    <3>3. req'[r].step = "annotate" /\ \A q \in Requests \ {r} : req'[q] = req[q]
      BY <1>0, <2>2 DEF Put, TypeOK, Request
    <3>4. /\ spent'[o] > 0
          /\ \A p \in Orders : spent[p] > 0 => p # o /\ spent'[p] > 0
      BY <2>2, <3>2 DEF TypeOK
    <3>5. \A q \in Requests, a \in Orders : At(q, a, "debit")' =>
             q # r /\ At(q, a, "debit") /\ req'[q].seen = req[q].seen
      BY <3>3 DEF At
    <3>6. \A q \in Requests, a \in Orders :
             At(q, a, "debit")' => a \in raced' /\ o \in raced'
      BY <2>2, <3>1, <3>5 DEF SpendInv
    <3>7. raced \subseteq Orders
      BY DEF TypeOK
    <3>8. ASSUME balance >= 0, balance' < 0
          PROVE  OverdrawnOnlyByRace'
      <4>1. req[r].seen > balance
        BY <1>0, <2>2, <3>2, <3>8
      <4>2. PICK b \in raced : spent[b] > 0
        BY <3>1, <4>1 DEF SpendInv
      <4>3. o \in raced
        BY <3>1, <4>1 DEF SpendInv
      <4>4. b # o /\ spent'[b] > 0
        BY <3>4, <3>7, <4>2
      <4> QED
        BY <2>2, <3>4, <4>2, <4>3, <4>4 DEF OverdrawnOnlyByRace
    <3>9. OverdrawnOnlyByRace'
      <4>1. CASE balance < 0
        BY <2>2, <3>4, <3>7, <4>1 DEF SpendInv, OverdrawnOnlyByRace
      <4>2. CASE balance' >= 0
        BY <1>0, <2>2, <3>2, <4>2 DEF OverdrawnOnlyByRace
      <4> QED
        BY <1>0, <2>2, <3>2, <3>8, <4>1, <4>2
    <3>10. \A q \in Requests, a \in Orders : At(q, a, "debit")' =>
            /\ req'[q].seen > 0
            /\ req'[q].seen > balance' => a \in raced' /\ \E b \in raced' : spent'[b] > 0
      BY <3>4, <3>5, <3>6 DEF SpendInv
    <3> QED
      BY <3>6, <3>9, <3>10 DEF SpendInv
  <2> QED
    BY <1>2, <2>1, <2>2 DEF SpendDebit
<1>3. CASE \/ Annotate(r, o) \/ OpenSession(r, o) \/ MarkProcessing(r, o)
           \/ RecordShortfall(r, o) \/ Claim(r, o) \/ CancelCutoff(r, o)
           \/ CancelWrite(r, o) \/ CancelFlag(r, o) \/ ViewComplete(r, o)
           \/ FlagWrite(r, o) \/ ApproveRefund(r, o) \/ ApproveSettle(r, o)
  <2>1. /\ UNCHANGED <<balance, spent, raced>>
        /\ Finish(r) \/ \E s \in Steps \ {"debit"} : Goto(r, s)
    BY <1>3 DEF Annotate, OpenSession, MarkProcessing, RecordShortfall, Claim, CancelCutoff,
       CancelWrite, CancelFlag, ViewComplete, FlagWrite, ApproveRefund, ApproveSettle,
       walletVars, Steps
  <2> QED
    BY <1>0, <2>1, StepsOffDebit, BalanceKept
<1>4. CASE UpsertPayment(r, o)
  <2>1. UNCHANGED <<balance, spent, raced>>
    BY <1>4 DEF UpsertPayment, walletVars
  <2>2. CASE Put(r, [req[r] EXCEPT !.step = "read", !.method = "wallet"])
    <3>1. HoldsNoDebit
      BY <1>0, <2>2 DEF Put, Request, HoldsNoDebit, TypeOK
    <3> QED
      BY <1>0, <2>1, <3>1, BalanceKept
  <2> QED
    BY <1>0, <1>4, <2>1, <2>2, StepsOffDebit, BalanceKept DEF UpsertPayment
<1>5. CASE MarkPaidRead(r, o)
  <2>1. UNCHANGED <<balance, spent, raced>>
    BY <1>5 DEF MarkPaidRead, walletVars
  <2>2. CASE Put(r, [req[r] EXCEPT !.step = "claim", !.applied = credit[o]])
    <3>1. HoldsNoDebit
      BY <1>0, <2>2 DEF Put, Request, HoldsNoDebit, TypeOK
    <3> QED
      BY <1>0, <2>1, <3>1, BalanceKept
  <2> QED
    BY <1>0, <1>5, <2>1, <2>2, StepsOffDebit, BalanceKept DEF MarkPaidRead
<1>6. CASE VerifyAsk(r, o)
  <2>1. UNCHANGED <<balance, spent, raced>>
    BY <1>6 DEF VerifyAsk, walletVars
  <2>2. CASE Put(r, [req[r] EXCEPT !.step = "read", !.paid = gateway[o].amount])
    <3>1. HoldsNoDebit
      BY <1>0, <2>2 DEF Put, Request, HoldsNoDebit, TypeOK
    <3> QED
      BY <1>0, <2>1, <3>1, BalanceKept
  <2> QED
    BY <1>0, <1>6, <2>1, <2>2, StepsOffDebit, BalanceKept DEF VerifyAsk
<1>7. CASE CancelGiveBack(r, o)
  <2>1. /\ balance' \in Int /\ balance' >= balance /\ Goto(r, "flag")
        /\ UNCHANGED <<spent, raced>>
    BY <1>0, <1>7 DEF CancelGiveBack
  <2> QED
    BY <2>1, StepsOffDebit, BalanceKept
<1>8. CASE ViewReward(r, o)
  <2>1. /\ balance' \in Int /\ balance' >= balance /\ Finish(r)
        /\ UNCHANGED <<spent, raced>>
    BY <1>0, <1>8, AmountsAssumption DEF ViewReward
  <2> QED
    BY <2>1, StepsOffDebit, BalanceKept
<1> QED
  BY <1>1, <1>2, <1>3, <1>4, <1>5, <1>6, <1>7, <1>8
     DEF Continue, CheckoutStep, MarkPaidStep, CancelStep, OtherStep

LEMMA NextKeepsSpends == TypeOK /\ SpendInv /\ [Next]_vars => SpendInv'
<1> SUFFICES ASSUME TypeOK, SpendInv, [Next]_vars PROVE SpendInv'
  OBVIOUS
<1>1. CASE UNCHANGED vars
  BY <1>1 DEF vars, SpendInv, OverdrawnOnlyByRace, At
<1>2. ASSUME NEW o \in Orders, Environment(o)
      PROVE  SpendInv'
  BY <1>2 DEF Environment, Capture, TimelineAdvances, RejectRefund, walletVars,
     SpendInv, OverdrawnOnlyByRace, At
<1>3. ASSUME NEW r \in Requests, Abort(r)
      PROVE  SpendInv'
  <2>1. UNCHANGED <<balance, spent, raced>> /\ balance \in Int
    BY <1>3 DEF Abort, walletVars, TypeOK
  <2> QED
    BY <1>3, <2>1, StepsOffDebit, BalanceKept DEF Abort
<1> QED
  BY <1>1, <1>2, <1>3, StartKeepsSpends, ContinueKeepsSpends DEF Next

\* At any isolation level, the ledger sums to less than nothing only after the
\* spends of two different orders were under way at once and both took credit:
\* neither the requests of one order, nor cancellations and rewards, overdraw it.
THEOREM OverdraftNeedsRace == Spec => []OverdrawnOnlyByRace
<1>1. Init => SpendInv
  BY AmountsAssumption DEF Init, Idle, SpendInv, OverdrawnOnlyByRace, At
<1>2. TypeOK /\ SpendInv /\ [Next]_vars => SpendInv'
  BY NextKeepsSpends
<1>3. SpendInv => OverdrawnOnlyByRace
  BY DEF SpendInv
<1> QED
  BY <1>1, <1>2, <1>3, TypeCorrect, PTL DEF Spec

-----------------------------------------------------------------------------
(* The refinement. *)


Sales == [o \in Orders |-> SaleOf(o)]
Funds == [o \in Orders |-> spent[o] + gateway[o].captured]

promised == <<Sales, Funds>>

\* The promise does not look at the other columns of the rows.
Kept(o) == /\ order'[o] = order[o]
           /\ payment'[o].method = payment[o].method
           /\ spent'[o] = spent[o]
           /\ gateway'[o].captured = gateway[o].captured

LEMMA Stutter ==
    ASSUME \A o \in Orders : Kept(o)
    PROVE  UNCHANGED promised
BY DEF Kept, promised, SaleOf, Sales, Funds

LEMMA InitContract == Init => Contract!Init
BY DEF Init, Contract!Init, SaleOf

LEMMA Closing ==
    ASSUME NEW o \in Orders, order \in [Orders -> OrderStatus],
           NEW s \in {"cancelled", "completed"},
           order' = [order EXCEPT ![o] = s], UNCHANGED <<payment, spent, gateway>>
    PROVE  Contract!Close(o)
BY DEF Contract!Close, SaleOf

LEMMA Collecting ==
    ASSUME NEW o \in Orders, TypeOK, UNCHANGED <<order, payment>>,
           \A p \in Orders \ {o} :
              spent'[p] = spent[p] /\ gateway'[p].captured = gateway[p].captured,
           spent'[o] + gateway'[o].captured > spent[o] + gateway[o].captured
    PROVE  Contract!Collect(o)
<1>1. [p \in Orders |-> SaleOf(p)]' = [p \in Orders |-> SaleOf(p)]
  BY DEF SaleOf
<1>2. Funds' = [Funds EXCEPT ![o] = Funds'[o]] /\ Funds'[o] > Funds[o]
  BY DEF Funds
<1> QED
  BY <1>1, <1>2 DEF Contract!Collect, Funds

LEMMA Selling ==
    ASSUME NEW o \in Orders, NEW m \in {"online", "cash", "wallet"}, TypeOK, TypeOK',
           order[o] = "pending_payment", order' = [order EXCEPT ![o] = "confirmed"],
           \A p \in Orders \ {o} : payment'[p] = payment[p],
           payment'[o].method = m, UNCHANGED <<spent, gateway>>,
           m # "cash" => spent[o] + gateway[o].captured >= Price[o]
    PROVE  Contract!Sell(o)
<1>1. Sales[o] = "open"
  BY DEF Sales, SaleOf
<1>2. Sales' = [Sales EXCEPT ![o] = IF m = "cash" THEN "on_delivery" ELSE "prepaid"]
  BY DEF Sales, SaleOf, TypeOK
<1>3. Funds' = Funds
  BY DEF Funds
<1>4. m # "cash" => Funds[o] >= Price[o]
  BY DEF Funds
<1> QED
  BY <1>1, <1>2, <1>3, <1>4 DEF Contract!Sell, Funds, Sales

-----------------------------------------------------------------------------
(* The steps *)

\* A step of the abstract order, or nothing it can see.
Honours == (\E o \in Orders : Contract!Collect(o) \/ Contract!Sell(o) \/ Contract!Close(o))
           \/ UNCHANGED promised

LEMMA SameRowsHonour ==
    ASSUME UNCHANGED <<order, spent, payment, gateway>>
    PROVE  Honours
BY Stutter DEF Kept, Honours

LEMMA StatusHonours ==
    ASSUME TypeOK, NEW o \in Orders, NEW s, SetPayment(o, s),
           UNCHANGED <<order, spent, gateway>>
    PROVE  Honours
<1>1. \A p \in Orders : payment'[p].method = payment[p].method
  BY DEF SetPayment, TypeOK, PaymentRow
<1> QED
  BY <1>1, Stutter DEF Kept, Honours

LEMMA StartHonours ==
    ASSUME NEW r \in Requests, NEW o \in Orders, Start(r, o)
    PROVE  Honours
<1>1. UNCHANGED <<orderVars, payment, walletVars, gateway>>
  BY DEF Start, CheckoutStart, Webhook, VerifyStart, CancelStart, ViewStart, FlagStart,
         ApproveStart
<1> QED
  BY <1>1, SameRowsHonour DEF orderVars, walletVars

LEMMA EnvironmentHonours ==
    ASSUME IInv, NEW o \in Orders, Environment(o)
    PROVE  Honours
<1>0. TypeOK /\ OrderInv(o)
  BY DEF IInv
<1>1. CASE Capture(o)
  <2>1. UNCHANGED <<order, payment, spent>>
    BY <1>1 DEF Capture, orderVars, walletVars
  <2>2. PICK short \in ShortBy :
          /\ short < gateway[o].amount
          /\ gateway' = [gateway EXCEPT ![o] =
                [gateway[o] EXCEPT !.captured = gateway[o].amount - short,
                                   !.state = IF short = 0 THEN "paid" ELSE "short"]]
    BY <1>1 DEF Capture
  <2>3. /\ gateway[o].captured = 0 /\ gateway[o].amount \in Nat /\ short \in Nat
        /\ spent[o] \in Nat
    BY <1>0, <1>1, <2>2, AmountsAssumption DEF Capture, OrderInv, TypeOK, GatewayOrder
  <2>4. /\ gateway'[o].captured = gateway[o].amount - short
        /\ \A p \in Orders \ {o} : gateway'[p] = gateway[p]
    BY <1>0, <2>2 DEF TypeOK, GatewayOrder
  <2>5. spent'[o] + gateway'[o].captured > spent[o] + gateway[o].captured
    BY <2>1, <2>2, <2>3, <2>4
  <2> QED
    BY <1>0, <2>1, <2>4, <2>5, Collecting DEF Honours
<1>2. CASE TimelineAdvances(o)
  BY <1>2, SameRowsHonour DEF TimelineAdvances, walletVars
<1>3. CASE RejectRefund(o)
  <2>1. UNCHANGED <<order, spent, gateway>> /\ SetPayment(o, "success")
    BY <1>3 DEF RejectRefund, SettleRefund, orderVars, walletVars
  <2> QED
    BY <1>0, <2>1, StatusHonours
<1> QED
  BY <1>1, <1>2, <1>3 DEF Environment

LEMMA CheckoutHonours ==
    ASSUME IInv, NEW r \in Requests, NEW o \in Orders, CheckoutStep(r, o)
    PROVE  Honours
<1>0. TypeOK /\ OrderInv(o) /\ RequestInv(req[r]) /\ req[r] \in Request
  BY DEF IInv, TypeOK
<1>1. CASE SpendSum(r, o) \/ Annotate(r, o)
  BY <1>1, SameRowsHonour DEF SpendSum, Annotate, orderVars, walletVars
<1>2. CASE SpendDebit(r, o)
  <2>1. UNCHANGED <<order, payment, gateway>> /\ req[r].step = "debit" /\ req[r].order = o
    BY <1>2 DEF SpendDebit, At, orderVars
  <2>2. CASE UNCHANGED spent
    BY <2>1, <2>2, SameRowsHonour
  <2>3. CASE spent[o] = 0 /\ spent' = [spent EXCEPT ![o] = Take(r, o)]
    <3>1. /\ spent'[o] = Take(r, o)
          /\ \A p \in Orders \ {o} : spent'[p] = spent[p]
      BY <1>0, <2>3 DEF TypeOK
    <3>2. Take(r, o) \in Nat /\ Take(r, o) > 0
      BY <1>0, <2>1, RequestFields, OrdersAssumption DEF RequestInv, BeliefInv, Take
    <3>3. spent'[o] + gateway'[o].captured > spent[o] + gateway[o].captured
      BY <1>0, <2>1, <2>3, <3>1, <3>2 DEF TypeOK, GatewayOrder
    <3> QED
      BY <1>0, <2>1, <3>1, <3>3, Collecting DEF Honours
  <2> QED
    BY <1>2, <2>2, <2>3 DEF SpendDebit
<1>3. CASE UpsertPayment(r, o)
  <2>1. \A p \in Orders : payment'[p].method = payment[p].method
    BY <1>0, <1>3 DEF UpsertPayment, TypeOK, PaymentRow
  <2>2. UNCHANGED <<order, spent, gateway>>
    BY <1>3 DEF UpsertPayment, orderVars, walletVars
  <2> QED
    BY <2>1, <2>2, Stutter DEF Kept, Honours
<1>4. CASE OpenSession(r, o)
  <2>1. \A p \in Orders : gateway'[p].captured = gateway[p].captured
    <3>1. CASE UNCHANGED gateway
      BY <3>1
    <3>2. CASE gateway' = [gateway EXCEPT ![o] =
                  [gateway[o] EXCEPT !.state = "active",
                                     !.amount = Payable(o, req[r].applied)]]
      BY <1>0, <3>2 DEF TypeOK, GatewayOrder
    <3> QED
      BY <1>4, <3>1, <3>2 DEF OpenSession
  <2>2. UNCHANGED <<order, spent, payment>>
    BY <1>4 DEF OpenSession, orderVars, walletVars
  <2> QED
    BY <2>1, <2>2, Stutter DEF Kept, Honours
<1>5. CASE MarkProcessing(r, o)
  <2>1. UNCHANGED <<order, spent, gateway>> /\ SetPayment(o, "processing")
    BY <1>5 DEF MarkProcessing, orderVars, walletVars
  <2> QED
    BY <1>0, <2>1, StatusHonours
<1> QED
  BY <1>1, <1>2, <1>3, <1>4, <1>5 DEF CheckoutStep

LEMMA MarkPaidHonours ==
    ASSUME IInv, IInv', NEW r \in Requests, NEW o \in Orders, MarkPaidStep(r, o)
    PROVE  Honours
<1>0. TypeOK /\ TypeOK' /\ OrderInv(o) /\ RequestInv(req[r]) /\ req[r] \in Request
  BY DEF IInv, TypeOK
<1>1. CASE MarkPaidRead(r, o) \/ VerifyAsk(r, o)
  BY <1>1, SameRowsHonour DEF MarkPaidRead, VerifyAsk, orderVars, walletVars
<1>2. CASE RecordShortfall(r, o)
  <2>1. UNCHANGED <<order, spent, gateway>>
        /\ (UNCHANGED payment \/ SetPayment(o, "failed"))
    BY <1>2 DEF RecordShortfall, orderVars, walletVars
  <2> QED
    BY <1>0, <2>1, StatusHonours, SameRowsHonour
<1>3. CASE Claim(r, o)
  <2>1. UNCHANGED <<spent, gateway>> /\ req[r].step = "claim" /\ req[r].order = o
    BY <1>3 DEF Claim, At, walletVars
  <2>2. CASE UNCHANGED <<order, timelines, payment>>
    BY <2>1, <2>2, SameRowsHonour
  <2>3. CASE ~UNCHANGED <<order, timelines, payment>>
    <3>1. /\ order[o] = "pending_payment"
          /\ order' = [order EXCEPT ![o] = "confirmed"]
          /\ payment' = [payment EXCEPT ![o] =
                [status |-> SettledStatus(req[r].method), method |-> req[r].method,
                 amount |-> IF payment[o].status = "none"
                            THEN Payable(o, req[r].applied) ELSE payment[o].amount]]
      BY <1>3, <2>3 DEF Claim, Claimable
    <3>2. /\ payment'[o].method = req[r].method
          /\ \A p \in Orders \ {o} : payment'[p] = payment[p]
      BY <1>0, <3>1 DEF TypeOK
    <3>3. req[r].method \in {"online", "cash", "wallet"}
      BY <1>0, RequestFields
    <3>4. /\ spent[o] \in Nat /\ gateway[o].captured \in Nat /\ Price[o] \in Nat
          /\ req[r].paid \in Nat
      BY <1>0, RequestFields, OrdersAssumption DEF TypeOK, GatewayOrder
    <3>5. req[r].method # "cash" => spent[o] + gateway[o].captured >= Price[o]
      BY <1>0, <2>1, <3>3, <3>4 DEF RequestInv, PayingInv
    <3> QED
      BY <1>0, <2>1, <3>1, <3>2, <3>3, <3>5, Selling DEF Honours
  <2> QED
    BY <2>2, <2>3
<1> QED
  BY <1>1, <1>2, <1>3 DEF MarkPaidStep

LEMMA CancelHonours ==
    ASSUME IInv, NEW r \in Requests, NEW o \in Orders, CancelStep(r, o)
    PROVE  Honours
<1>0. TypeOK
  BY DEF IInv
<1>1. CASE CancelCutoff(r, o) \/ CancelGiveBack(r, o)
  BY <1>1, SameRowsHonour DEF CancelCutoff, CancelGiveBack, orderVars, walletVars
<1>2. CASE CancelWrite(r, o)
  <2>1. order' = [order EXCEPT ![o] = "cancelled"] /\ UNCHANGED <<payment, spent, gateway>>
    BY <1>2 DEF CancelWrite, walletVars
  <2> QED
    BY <1>0, <2>1, Closing DEF Honours, TypeOK
<1>3. CASE CancelFlag(r, o)
  <2>1. UNCHANGED <<order, spent, gateway>>
        /\ (UNCHANGED payment \/ SetPayment(o, "refund_pending"))
    BY <1>3 DEF CancelFlag, orderVars, walletVars
  <2> QED
    BY <1>0, <2>1, StatusHonours, SameRowsHonour
<1> QED
  BY <1>1, <1>2, <1>3 DEF CancelStep

LEMMA OtherHonours ==
    ASSUME IInv, NEW r \in Requests, NEW o \in Orders, OtherStep(r, o)
    PROVE  Honours
<1>0. TypeOK
  BY DEF IInv
<1>1. CASE ViewComplete(r, o)
  <2>1. order' = [order EXCEPT ![o] = "completed"] /\ UNCHANGED <<payment, spent, gateway>>
    BY <1>1 DEF ViewComplete, walletVars
  <2> QED
    BY <1>0, <2>1, Closing DEF Honours, TypeOK
<1>2. CASE ViewReward(r, o)
  BY <1>2, SameRowsHonour DEF ViewReward, orderVars
<1>3. CASE FlagWrite(r, o) \/ ApproveSettle(r, o)
  <2>1. UNCHANGED <<order, spent, gateway>>
        /\ (UNCHANGED payment \/ \E s \in PaymentStatus : SetPayment(o, s))
    BY <1>3 DEF FlagWrite, ApproveSettle, SettleRefund, PaymentStatus, orderVars, walletVars
  <2> QED
    BY <1>0, <2>1, StatusHonours, SameRowsHonour
<1>4. CASE ApproveRefund(r, o)
  <2>1. \A p \in Orders : gateway'[p].captured = gateway[p].captured
    BY <1>0, <1>4 DEF ApproveRefund, TypeOK, GatewayOrder
  <2>2. UNCHANGED <<order, spent, payment>>
    BY <1>4 DEF ApproveRefund, orderVars, walletVars
  <2> QED
    BY <2>1, <2>2, Stutter DEF Kept, Honours
<1> QED
  BY <1>1, <1>2, <1>3, <1>4 DEF OtherStep

LEMMA NextHonours == IInv /\ [Next]_vars => Honours
<1> SUFFICES ASSUME IInv, [Next]_vars PROVE Honours
  OBVIOUS
<1>1. IInv'
  BY NextSafe
<1>2. CASE UNCHANGED vars
  BY <1>2, SameRowsHonour DEF vars
<1>3. ASSUME NEW o \in Orders, Environment(o) PROVE Honours
  BY <1>3, EnvironmentHonours
<1>4. ASSUME NEW r \in Requests, Abort(r) PROVE Honours
  BY <1>4, SameRowsHonour DEF Abort, orderVars, walletVars
<1>5. ASSUME NEW r \in Requests, NEW o \in Orders, Start(r, o) \/ Continue(r, o)
      PROVE  Honours
  BY <1>1, <1>5, StartHonours, CheckoutHonours, MarkPaidHonours, CancelHonours,
     OtherHonours DEF Continue
<1> QED
  BY <1>2, <1>3, <1>4, <1>5 DEF Next

-----------------------------------------------------------------------------

\* Checkout implements the contract: whatever the handlers race to do, an order
\* is sold once, against its full price or against cash to be collected, money
\* is never forgotten, and a closed order is not sold again.
THEOREM ContractImplemented == Spec => ContractHolds
<1>1. IInv /\ [Next]_vars =>
        [Contract!Next]_<<[o \in Orders |-> SaleOf(o)],
                          [o \in Orders |-> spent[o] + gateway[o].captured]>>
  BY NextHonours DEF Honours, Contract!Next, promised, Sales, Funds
<1> QED
  BY <1>1, InitContract, InvariantHolds, PTL DEF Spec, ContractHolds, Contract!Spec
===============================================================================

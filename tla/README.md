# A verification of the Flouna server

Flouna compares rides and food across providers, takes the order, takes the
money and keeps the buyer informed. The server (`src/server`, TypeScript on
Express and Prisma) is a set of stateless HTTP handlers over one SQL database,
a few interval timers, and calls to a payment gateway (Cashfree), a mail server
and the providers. The web client (`src/web`) keeps a session cookie, an
end-to-end encrypted group chat and an idempotency key. This directory holds
TLA+ models of the parts where the outcome depends on the order in which
concurrent handlers, timers and screens touch the same rows, the TLC runs that
check them, and TLAPS proofs of their safety.

Paths below are relative to `src/server/src/modules` unless they start with
another directory.

## How the code is modelled

Node runs one JavaScript turn at a time, so two handlers interleave exactly at
their `await`s. Every model follows the same scheme:

* a handler under way is a slot (`req[r]`, `call[c]`, `pass[p]`, `worker[w]`,
  `task[d]`) with the step it is at and the locals it keeps across an `await`;
* one action is one database statement (or one transaction, or one call to the
  gateway, the mail server or the browser), with the guard the code puts on it
  and with what the code does synchronously afterwards; a handler's first action
  is its first read with the early returns that depend on it;
* a write is what the code writes, from what it has *read*: `update by id`
  overwrites whatever the row has become, `updateMany where status = ...`
  checks and writes at once, a unique index makes an insert fail;
* a crash, a restart and a query that throws are the same thing to a handler:
  it stops where it is and its slot is forgotten (`Abort`, `Crash`, `CutOff`,
  `Restart`, `Drop`). What it has written stays.

Amounts are small integers, names and texts are dropped, ids are model values
or places in a sequence, passwords and codes are compared and never looked into.
Several modules keep history variables, marked as such (`crossed`, `cut`,
`muddled`, `late`, `spent`, `raced`, `crowd`, `rivals`, `mailed`, `stolen`, `rush`,
`flood`): which
rows two handlers were at work on at once and how many handlers they were, which
were cut short, what left the house whatever the rows say of it. The code does not promise that overlapping
handlers are harmless, so most properties say that what goes wrong needs such an
overlap or a fault, and name it. That is sharper than it sounds: the overlap has
to be of the same row, code, purpose or case, and every run contains steps in
which it does not happen.

## Inventory

| Component | State it keeps | Operations | What is hard | What makes it correct |
|---|---|---|---|---|
| Checkout and payment (`payments/`) | `Order.status`, its `details` document, `Payment` row, timeline | checkout, webhook, verify | four callers of `markPaid` race; the webhook is late, repeated or lost; a checkout dies anywhere | never confirmed for less than it costs; confirmed once; a full capture is resolved |
| Wallet (`users/wallet.service.ts`) | append-only ledger, one row per order and kind | spend, refund, cashback | sum-then-insert in one transaction; depends on the isolation level | no rupee spent or given back twice |
| Cancellation, completion (`orders/`) | the same rows | cancel, the view that completes an order | stale read-modify-write of the order | closed orders stay closed; taken money is reviewed for a refund |
| Refunds (`backoffice/`) | `Payment.status` | flag, approve, reject | two operators; a gateway call between check and write | nothing is called refunded that was not |
| Order placement (`orders/`, `coupons/`) | `Order` with `requestKey`, `CouponRedemption`, `usedCount` | `POST /orders` | retries in parallel, crash between create and redeem, limits read before use | one attempt, one order; limits respected |
| Notification outbox (`notifications/outbox.service.ts`) | `Notification` rows | enqueue, drain, requeue stale claims | several instances, crashes while sending, retries | every row settles; duplicates only by a fault; the daily cap |
| Group carts (`groups/`) | `GroupCart`, members, items | create, join, add, remove, swap for a pack, checkout | no write repeats its check; a network call inside checkout | nothing lost, nobody else billed, one order |
| Group chat (`groups/chat.routes.ts`, `src/web/lib/groupCrypto.ts`, the chat page) | device keys, envelopes, histories, messages; on each device chains, log, cursor | register, hand chains over, send, poll, decrypt, rewind | three activities of one screen, lost answers, first writer wins, first come first served positions | who is in the list can read; nobody reads what was sent before; no position twice; nothing skipped; every message is answered |
| Sessions (`src/server/src/lib/tokens.ts`, `auth/`, `src/web/lib/api.ts`, `AuthContext.tsx`) | `RefreshToken` rows; the cookie of a browser | sign in, refresh two ways, log out, sign out one or the others, reset, suspend, erase | rotation is read, revoke, insert; answers reach one cookie jar in any order | what was ended stays ended; no live row nobody holds; nobody is signed out by refreshing |
| Sign-in and codes (`auth/auth.routes.ts`, `auth/otp.ts`, `users/users.routes.ts`) | `User` row, `OtpCode` rows | sign up, verify, log in, step up, reset, second factor, Google | hashing takes long; counters and limits are check-then-act | a code is spent once, sends and attempts are bounded, misses lock, a verified password stays |
| Plus, price alerts, deletions (`subscription/`, `alerts/`, `compliance/`, `src/server/src/index.ts`) | `plusActive`, `plusUntil`, `PriceAlert`, `deletionScheduledFor`, `PrivacyRequest` | activate, cancel, sweep; create, remove, fire; ask, cancel, erase | loops act on lists read earlier, beside requests and beside themselves | a paid period keeps Plus; what ends is told; only due accounts are erased, and they are |
| Complaints (`complaints/`) | case, action trail, questions, resolutions, refunds, escalations, clocks | file, reply, decide, escalate; the seller's messages; the officers' actions | repeated and reordered messages, status ranked against an old read, several writes per operation | the status follows the trail; accepted means refunded; a message that was logged is applied |
| Operators (`backoffice/super.service.ts`) | roles, suspension | grant, suspend | the last super_admin is counted, then changed | somebody can still administer |
| Ride chat, assistant, search, ranking, ratings, profile, reporting, push, realtime | rows appended or edited by their owner, caches, or nothing | | little that is concurrent, or numerical, or text | |
| Web front end (`src/web`) | the browser's cart and idempotency key, cookies, chat store | calls the API | retries and double taps, two refreshes | in `OrderPlacement`, `Sessions` and `GroupChat` |

The components meet in the rows they share. `POST /orders` creates the order
that checkout confirms; checkout debits the wallet that cancel refills; the
coupon's first-order rule reads what checkout confirmed; group checkout creates
orders like any other; a complaint is about an order and refunds it; almost every
handler enqueues a notification, and the outbox is the only reader of those; a
password reset and an erasure end the sessions. `PROJECT.json` lists every
component with its sources and every hazard at its line.

## Modules

| Module | Models | Correspondence |
|---|---|---|
| `Checkout` | `payments.routes.ts`, cancel and completing view of `orders.routes.ts`, `wallet.service.ts`, `flagRefund`, `approveRefund`, `rejectRefund` | `CheckoutStart ... MarkProcessing` are the awaits of `/checkout`; `MarkPaidRead`, `RecordShortfall`, `Claim` those of `markPaid`; `Webhook`, `VerifyStart`, `VerifyAsk` its other callers; `Cancel*`, `View*`, `Flag*`, `Approve*`, `RejectRefund` their handlers. External: `GatewayOrder`, `Capture`, `GatewayAccepts`. |
| `OrderContract` | what an order promises | abstract: an order is open, sold against its full price or against cash, then closed. `Checkout` implements it (`ContractHolds`). |
| `Attempts` | what placing an order promises | abstract: an attempt makes one order, a request ends once, refused without an order or answered with the order of its attempt. `OrderPlacement` implements it (`AttemptsHold`). |
| `OrderPlacement` | `POST /orders`, `evaluateCoupon`, `redeemCoupon` | `Lookup`, `Quote`, `ReadCoupon`, `ReadRedemption`, `ReadHistory`, `Create`, `Conflict` (P2002), `Redeem`; orders are named after the request that made them |
| `Mailbox` | what the outbox promises | abstract: a letter is posted, delivered, tried again a bounded number of times and settles once, and a mail too many is paid for by a fault (`Slip`). `Outbox` implements it (`MailboxHolds`), with one server instance. |
| `Outbox` | `outbox.service.ts` | `Tick` is `requeueStaleClaims`; `Fetch`, `Claim`, `Load`, `Refuse`, `CheckCap`, `SkipCapped`, `Send`, `RecordSent`, `Bounce` the statements of `drainOutbox`, for any number of instances |
| `GroupCart` | one cart of `groups.routes.ts` with `suggestion.service.ts` | a start action reads the cart and checks it, the next one writes |
| `GroupChat` | `groups/chat.routes.ts` and the chat screen of each device | one person's several devices and those of others are all `Devices`. `Sync` is the key timer and the key exchange before a send (register, fetch the list, seal and publish what is missing, take what came), `Store`/`Answered`/`Refused` the send with its answer, `Poll`/`Receive`/`DrainAgain` the poll and the decryption of what was waiting for its chain; `...Lost` are calls and answers that fail. A chain is a generation and a position: what opens what is the position, and the cryptography is perfect. |
| `Sessions` | `lib/tokens.ts`, the session routes of `auth.routes.ts`, `suspend` and erasure, the two refreshing callers of the web client | `rows` are `RefreshToken` rows in order of creation, `line` the sign-in a row descends from; `jar` is the cookie of a browser, which an answer sets or clears when it arrives. `Start` is a browser's call, `Handle` the handler's next statement, `Drop` its death or the loss of its answer. |
| `SignIn` | the account's own routes in `auth.routes.ts` and `users.routes.ts`, `otp.ts` | one action per route up to its first long await, `CountActive` and `CreateCode` for `createOtp`, `ListCodes`, `TryCode` and `NoCodeMatches` for `consumeOtp`, one action for what each accepted code does. A handler's `seen` is the row it read. |
| `Housekeeping` | the loops of `index.ts` with `subscription.service.ts`, `alerts.service.ts` and `privacy.service.ts`, and the requests beside them | `ListAlerts`, `ListRenewing`, `ListDue` read a list, `PassStep` is the next statement for the next item; several passes of one loop may overlap, because no loop guards against it |
| `Complaints` | one case of `complaints.service.ts`, `igm.adapter.ts` and `grievance.ops.ts` | every operation that leaves a trace goes through `recordAction`, whose lookup, insert and update are three steps (`record`, `create`, `advance`) between the operation's own writes |
| `MC...` | small instances of each | constants and symmetry |
| `...Proofs` | the theorems | below |

A definition `X` that is preceded by the comment "Mutant:" is not part of the
system: it is a form of the definition after it with a mistake a programmer
could have made, and `PROJECT.json` says which property it breaks.

Choices that are not visible in the code's text:

* The configuration is production: Cashfree configured, demo payments off, no
  dev shortcuts for codes. The isolation level is a parameter, `SerializedTx`,
  because the schema says PostgreSQL (READ COMMITTED by default) while
  `wallet.service.ts` is written as if transactions were serialized.
* `order.details` is reduced to `walletAppliedPaise`, the one field control
  depends on.
* A capture may fall short of the gateway order (`ShortBy`), because `markPaid`
  handles it; the gateway's `PAID` state needs a capture in full.
* Ages (the idempotency window, ten minutes of a stale claim, the expiry of a
  code or a lock, the end of a period or of the grace days, the tracking
  timeline, midnight) are steps that may happen at any time.
* In `OrderPlacement` the price is left out: the discount is whether the order
  has one. In `GroupCart` there is one theme that every dish belongs to.
* In `Outbox`, day 0 is "never sent", and rows are created in a sequence because
  `drainOutbox` fetches a limited batch in order of `createdAt`.
* In `Sessions`, an expired or deleted row is refused like a revoked one and is
  not told apart from it.
* In `SignIn` the row is one record: a handler that starts a session ends there.
  An account that never had a password (Google) has the empty set for one.
* In `Complaints` the seller's messages are `Events`, each of a kind; two of
  them may bring the same action id (`Act`), as the same step reported in two
  messages does.

## Runs

| Run | Instance | Shows |
|---|---|---|
| `checkout_core` | one order of price 3, credit 2, captures in full or one short, two slots over all seven endpoints, one abort | an order is confirmed once and for its full price, money is flagged or given back only if it was taken, a full capture is resolved, and `OrderContract` is implemented |
| `checkout_wallet_race` | two orders of price 2 on a balance of 3, transactions not serialized | finding: the ledger goes negative |
| `placement` | four requests: two of one attempt, one of another user under the same key, one of the first user without a key; a first-order coupon for one use; two crashes | `Attempts` is implemented (one order per attempt, own order answered, final outcomes, nothing behind a refusal); the discounts granted, redeemed or not, exceed the coupon's limit and its once-per-user rule by no more than the requests past their checks at once and those that died before they redeemed; no request of a race is left with nothing |
| `outbox_single` | three rows (one security) of one user, batch 2, cap 1, two attempts, one fault | `Mailbox` is implemented (duplicates need faults, tries are bounded, what is settled stays so, security mails are never skipped), the mails delivered in a day exceed the cap by no more than the fault, every row settles |
| `outbox_pair` | two symmetric instances, three capped rows of one user, cap 1, one attempt, two days, no fault | the mails delivered in a day exceed the cap by no more than one for the second instance and one for each row the stale sweep took from a worker; the claim is exclusive while rows are young |
| `group` | host and three others, two dishes and a pack, two seats, two slots, one abort; food and ride | overfull and double orders only by as many requests as overlapped; nothing that was in the cart is left out; only members are billed; a checkout that runs on closes the cart |
| `chat` | two devices of one person, a phone opened first and a laptop later; two messages, one mishap (a lost call, a lost answer, a closed screen, a wiped key store) | a device is locked out of a message, jammed or skips one only by the named mishap or jump, and never reads what was sent before it was let in |
| `chat_live` | the same without mishaps, fair intervals | every message is answered |
| `sessions` | a phone that does everything and a desk that stays signed in, two slots, three refresh rows, two sign-ins, one lost answer, suspension and erasure; deadlock checked | an ended session stays ended, no live row is forgotten, and a browser is signed out only by a crossing or a loss |
| `signin` | no account, or a verified one, of an operator or not; two slots, five calls, three codes, one attempt per code, one waiting code, lock after two misses | a code is spent and tried, and sends pile up, past their limits by no more than the handlers that overlapped at that code or purpose; misses and the password of a verified account are kept but for the overlaps named |
| `housekeeping` | one user, one alert, one pass of each loop and two calls, of all these two under way at once, two periods, two asks, one restart or failed insert | a paid period keeps Plus, ends are told, requests match schedules, only due accounts are erased, and they are |
| `complaints` | one complaint with two questions, an offer in two messages and a closing message, five officer calls of one offer of money, two symmetric slots, one fault | accepted is refunded, logged is applied, the shown question is open, the level and the status follow from the trail, clocks are set once |

Why the bounds are enough for what they are asked. Each hazard is a race of two
handlers over one row, so two slots reach it; a handler that was cut off leaves
rows behind and frees its slot, so sequences of three and more requests are in
the same runs. Price 3 with credit 2 separates part and all of a bill and leaves
room for a capture one unit short; a balance of 3 over two orders of 2 lets one
be paid whole and the other in part. Batch 2 of three rows makes one row wait;
cap 1 makes the second mail of a day the interesting one, and a third row is what
two instances that counted at once have left to send; two attempts
distinguish a retry from giving up. A row of a retired type is in no run (it is
settled by the first statement that meets it); the proofs cover it. Two seats with four people let two joins
fight for one seat. Four requests give `placement` each relation two requests can
have: same attempt, same key and another user, same user and no key; three of
them carry a code that one may use, so the limit and the once-per-user rule are
each in reach of two that overlap and of one that follows a dead one. Two devices
and two messages are what a chain position can be taken twice by, skipped with
and rewound past; three refresh rows are a sign-in, its rotation and a second
sign-in or rotation beside it. Limits of one and two in `signin` put the limit
within reach of two handlers. One pass of each loop beside two calls reaches every
pair of them; passes of one loop that overlap are left to the theorems, which hold
for any number. Two messages with one action id are the repeated delivery, the
third one the reordered.

Deadlock is checked in `sessions`, where somebody can always call. Elsewhere
(`CHECK_DEADLOCK FALSE`) the bounds on calls, rows and faults run out, or a
server with nothing left to do may stop.

Every property of every passing run has a mutant in `PROJECT.json`, under which
TLC finds the property violated.

### Fairness

* A handler that has started runs on (`WF` of its continuation): Node schedules
  every resolved promise. It may still be aborted, a bounded number of times.
* `CapturedIsResolved` needs `SF` of the webhook: Cashfree redelivers until a
  delivery is answered, and the handler's slot may be busy in between. Nothing
  is assumed about the buyer, who need not call verify, cancel or pay.
* The outbox's interval timer ticks for ever and ten minutes pass
  (`WF` of `Tick`, `Drain` and `Age`). No fairness is assumed of enqueueing,
  of the mail server (which may refuse every attempt) or of midnight.
* In `GroupChat` the key timer and the poll are intervals of an open screen:
  they come again and again, but each is skipped while its own activity is under
  way, hence `SF` of starting them and `WF` of their continuations and of a send
  that is under way. Nobody has to send.
* In `Housekeeping` the deletions loop lists again every hour and a pass goes on
  (`WF`). Nothing is assumed of the other loops, of the user or of time; a
  deletion need never become due.

## Theorems

All proofs hold for any sets of orders, requests, people, devices and rows, and
any prices, limits and numbers of crashes, under the assumption named in each
module (`OrdersAssumption`, `AmountsAssumption`, `PlacementAssumption`,
`OutboxAssumption`, `GroupAssumption`, `SessionsAssumption`,
`SignInAssumption`, `HousekeepingAssumption`, `ComplaintsAssumption`), which TLC
evaluates in the runs. They say that limits are natural numbers, that sets which
are counted are finite and that ids of different kinds differ.

Each module with a proof defines an inductive invariant `IInv` (`CartInv` and
`ChatInv` in the two group modules, whose definitions share a proof module and
therefore carry the prefixes `Cart` and `Chat`). None of the
properties is inductive, and always for the same reason: what a handler writes
depends on what it read some steps earlier. `IInv` therefore says what a handler
at each of its steps may still believe of the rows, and the proof that a step
preserves it has one step per action and below it one per conjunct the action
disturbs. Every `IInv` was checked by TLC on the instance of its run before it was
proved; that it always holds, and type correctness with it, is a theorem of every
module, with the properties of the runs as consequences.

**Checkout** (`CheckoutProofs`). `IInv` adds, per order, what the rows say of
each other (`OrderInv`), and per request:

* `BeliefInv`: the credit a request carries is the order's debit or nothing,
  and as long as the order can be paid the details document agrees, which is why
  a session opened with it is large enough;
* `PayingInv`: what `markPaid` is about to record is backed by a capture or by
  a debit of the full price;
* `ClosingInv`: a request about to give credit back, complete, flag or settle
  has had its reason written into the rows, where no step removes it.

The proof splits each step into what it does to its own order and request, and
one lemma (`ForwardKeepsRequest`) for all the others: `Forward` says what no
step takes back (a status leaves `pending_payment` once, a debit is written
once, money stays captured), and every belief of a request survives a step that
goes forward. From `InvariantHolds` follow `NeverUnderpaid`,
`OneConfirmation`, `OneGiveBack`, `CaptureSuffices` and `RefundsAreReal`, and
`FinishedForGood` from `Forward`. `OverdraftNeedsRace` holds at any isolation level and is about the case
the wallet's run finds: `SpendInv` says that a spend which saw more than is left
overlapped the spend of another order between sum and debit (`raced`), and that
the other one is in the ledger. So two requests of one order, which the unique
index keeps to one debit, a retry, a cancellation and a reward never overdraw a
wallet, and one overdrawn has two orders in `raced` that both took credit.
`ContractImplemented` proves the refinement that `checkout_core` checks,
`Spec => ContractHolds`: a debit and a capture collect, the claim sells (with
`PayingInv` for the price), a cancellation and the completing view close, and
everything else stutters.

**Order placement.** A request that has not created its order is not an order, a
request about to redeem has one that is discounted; this gives `OneOrder` and
`RedemptionAccounted` (a discount that nobody will redeem cost a crash).
`FlightInv` counts: the requests past the limit's check are at most `crowd`, the
most there ever were, and what they may still redeem fits with what has been
redeemed into the limit plus `crowd`, because the last of them to pass the check
found room; likewise `rivals` for each user and the once-per-user rule. A
discounted order is redeemed, about to be, or cost a crash, so the discounts
granted are bounded too: `DiscountsAreLimited`. `AttemptsImplemented` proves the
refinement `Spec => AttemptsHold`: an insert that the unique index admits places,
the redemption's transaction redeems and answers at once, every early return
refuses a request that has no order, and a crash loses the request and not the
order. A request between two steps is "open", which is all the abstract
specification sees of it.

**Outbox.** `HeldInv`: a row that is young, or any row if there is one instance
(`Alone`), is in the hands of one instance, in one place, and marked as sending.
`ClaimsAreExclusive` follows for any number of instances. `DeliveredInv` (a mail
delivered more often than the faults account for is recorded as sent, or about to
be) needs `Alone`, which is a hypothesis of `DuplicatesAreFaults`: with two
instances it fails. `CapIsKept` is for any number of instances and counts the mails
the mail server took between two midnights (`mailed`), not the rows that say so.
Its invariant `CapInv` has two halves. What the rows count plus the workers past
the check is at most the cap and one for each further instance, since each of
them found room beside the others. And a mail the rows do not count is about to be
recorded, or is paid for: by a fault, or by a place in a batch (`Places`) whose row
is no longer claimed, of which there are at most as many as the stale sweep took
from a worker (`stolen`). `MailboxImplemented` proves `Spec => MailboxHolds` under the
same hypothesis. It needs `TriesInv` besides `IInv`: a row that waits has attempts
left, what a worker loaded of a row's attempts is what the row says, and a worker
past the gates holds a row that may be mailed or skipped; then each write of
`drainOutbox` is one end, or one more try, of its letter.

**Group carts.** `SeatsInv` and `OrdersInv` count: riders beyond the seats, and
orders beyond the first, are at most the requests that overlapped. What a
checkout read contains everything that was early, since a removal takes it out of
what is promised as well. (`GroupProofs`, with the chat.)

**Group chat** (`GroupProofs`). `ChatInv` relates key generations, chain positions
and cursors on all devices at once:

* `KeysInv`, `TaskInv`, `OwedInv`: nothing is sealed to keys nobody registered, and
  while a message is built its sender's chain stands past its place;
* `PositionInv`: without a lost answer the positions a chain has used are behind
  it, which is `ChainsDoNotJam` where the keys are the first;
* `DeliveryInv`: between two devices with their first keys, an envelope at or
  behind the chain's position exists before a message is built. It is kept because
  the list of devices only grows, an envelope to a device whose keys never changed
  is never removed, and only a rewind, which is a named mishap, takes a chain back.
  `NobodyIsLockedOut` follows when the row is stored;
* `SecrecyInv`: what any envelope, any downloaded bundle and any stored chain can
  open was stored for the reader's present keys. New messages keep it because a
  chain that fits the present keys means that they were registered
  (`known = keys`), and so each message stored from then on knows them. This is
  `NothingEarlierIsRead`;
* `CursorInv`: everything up to the cursor, up to any message read or waiting and
  up to the start of a poll under way is accounted for; a poll extends that
  stretch without a gap, which is `NothingIsSkipped`.

The maximum of a set of positions and a bound on the positions of a chain are
inductions over the natural numbers; they rest on one lemma, that a nonempty set
of naturals has a least element, from the well-foundedness of `<` in the library.

**Sessions.** A row is carried by one answer, cookie or lost answer
(`CarriedOnce`); what was left or ended is not found live (`LeftIsGone`,
`OverStaysOver`); a rotation that has passed its check when its line is ended is
among the recorded ones (`IssuersAreHit`); and a row that one handler alone has
found is as it found it (`FoundAlone`). `CutIsExplained` needs an invariant of
its own, `CutInv`: a browser whose calls never crossed has one call at a time that
touches its cookie (`OneAtATime`), that call carries the cookie the browser still
has (`CarriesTheCookie`), no token is ever carried or held by a second browser
(`OwnToken`), and a rotated token that still is somebody's cookie belongs to a
refresh whose answer is under way (`UsedOnlyByRefresh`). A refresh that finds its
token used, or a sign-out that ends its caller, then contradicts one of them.

**Sign-in.** Codes and sends are counted, overlap or not: an attempt or an
acceptance a verification may still make of a code, added to those made, stays
within the limit and the largest number that had the code listed at once
(`CodeInv`), and sends that found room and have not inserted their code count
beside the codes that wait (`SendsInv`). A handler that is alone at a field of the
account knows it as it is (`LockInv`, `PasswordInv`); where two overlap the field is
marked as crossed.

**Housekeeping.** `PlusInv` ties the flag to the period and to the lists that
passes hold; `DeletionInv` ties an open request to the schedule, with one
disjunct per half-done call.

**Complaints.** `OneAtATime` counts who is at work; `TrailInv`, `RecordedInv` and
`AppliedInv` say that a step of `recordAction` under way accounts for what the
trail, the status and the log of messages still lack; `DecisionInv`,
`QuestionInv`, `LevelInv`, `StampInv` do so for each operation's own writes.

**Only model-checked.** Liveness (`CapturedIsResolved`, `CreateSucceeds`,
`QueuedIsSettled`, `OrderClosesCart`, `EventuallyAnswered`, `DueIsErased`):
fairness and ENABLED are outside the prover. Every safety property, action
property and refinement that a run checks is also a theorem, except
`WalletNeverNegative`, which fails in its run; what remains true of the wallet,
`OverdrawnOnlyByRace`, is proved.

## Findings

`checkout_wallet_race` is a run of its own: `users/wallet.service.ts:87-89` says
two racing requests cannot both spend the same rupees. At READ COMMITTED two
checkouts of two orders both sum the old balance.

Others were met while modelling. The first group can be seen by adding the named
definition, which the module states and its comment explains, to the module's cfg
as an invariant:

* `Checkout.NeverOvercharged`: `payments/payments.routes.ts:277-278` wants the
  gateway asked for the reduced amount. When the gateway order exists already
  (409, line 351), its old amount stays although credit has been spent since.
* `Checkout.CancelReturnsCredit`: `payments.routes.ts:282` says cancelling returns
  the credit. The cancellation (`orders/orders.routes.ts:981`) writes back a
  details document older than the debit.
* `OrderPlacement.OneRedemptionPerUser`: `coupons/coupons.service.ts:51`, one
  redemption per user and code; nothing but an earlier read enforces it.
* `GroupCart.OneOrderPerCart`: `groups/groups.routes.ts:710` refuses a second
  checkout; two that overlap both pass and place an order each.
* `Sessions.ParallelRefreshesKeepTheSession`: `src/web/lib/api.ts:20-21` shares one
  refresh between parallel calls, but `AuthContext.tsx:44` refreshes beside it, and
  the two can spend the same token.
* `Complaints.NeverReopened`: `complaints/complaints.service.ts:75` never moves a
  case backwards, against the status that was read; a step whose write comes late
  moves a resolved case back.

The rest are behaviours of the models that their properties make room for.

Orders and money:

* `orders.routes.ts:972`: a cancellation that read the order before it was
  completed overwrites `completed` (the comment at 912 says never).
* `payments.routes.ts:72`: `markPaid` returns at once for a cancelled order, so
  a capture whose webhook comes after the cancellation starts no refund
  (`orders.routes.ts:992-993`: cancelling "has to start the refund").
* `backoffice/super.service.ts:365`: `approveRefund` moves the money and then
  claims the row; a rejection in between leaves a payment `success` whose money
  went back (`RefundedMoved` is the direction that does hold). A restart between
  the two (370) leaves it pending.
* `backoffice/admin.service.ts:185`: `flagRefund` checks the payment's status and
  then writes `refund_pending` whatever it has become. A row that was flagged,
  approved and refunded in between is pending again, and a rejection then records
  a `success` whose money went back. `MoneyBackIsReal` checks the other direction,
  that what is called refunded was, and does not exclude this.
* `coupons.service.ts:93` speaks of the order-creation transaction; redemption
  has its own, after it (`UnredeemedNeedsCrash`).
* `orders.routes.ts:591`: the loser of a race gets the winning order however
  old it is, while the lookup at 166 has a window. A retry outside the window
  with a coupon is refused as used although its own attempt used it.
* `groups.routes.ts:413`: two joins can take the last seat of a ride.
* `orders/cancellation.service.ts`: the free window is said to start at payment
  and is measured from the payment row's creation, the first tap on checkout.

Mails and loops:

* `notifications/outbox.service.ts:561`: a stale claim is recognised by the
  row's creation time, so a row that waited long is taken from a worker that
  has just claimed it. With two instances a row can be tried more often than
  MAX_ATTEMPTS. The cap (424) is read apart from the send and counts rows marked
  sent: a second instance sends beside it, and a mail whose acknowledgement was
  lost is sent again without having been counted (`WithinDailyCap` says by how much
  at most). Security mails count against the cap, though they never wait for it.
* `alerts/alerts.service.ts:45-46` says the mail is queued before the alert is
  done; the code deactivates the alert first, and a restart in between loses it.
  An alert removed while a pass holds it makes the whole pass throw.
* The Plus sweep clears the flag of a member who renewed after it listed them.
* The deletions loop erases an account whose owner cancelled after it was listed,
  while the screen says the account is safe. An ask and a cancellation that cross
  leave a schedule without a request or the reverse, even a schedule on an erased
  account, which the list of due accounts ignores.

Sessions and sign-in:

* "Sign out the others" while the caller's own token is being rotated ends the
  caller's session too. A logout during a refresh is undone by the refresh's
  answer. A rotation in flight survives a reset, a suspension and an erasure.
* Signing in over a live session, and a lost answer, leave a row nobody can use
  or end from that browser.
* Overlapping logins count too few misses, and a late miss lifts the lock. A
  sign-up that read the account as unverified replaces the password of one
  verified meanwhile. Overlapping sends exceed the limit; two verifications can
  both spend one code.

Group chat:

* A device whose send was stored but never answered, and that is rewound by a
  restart of its chain, sends a taken position for ever (`409`).
* A device's own send moves its cursor past messages of others it has not polled;
  they are never shown, although `page.tsx:41` wants an unreadable message shown as
  such rather than hidden. A locked message disappears at the next rebuild.
* A history withdrawn because a device changed its key is uploaded again by a
  sibling that had started before (`groups/chat.routes.ts:384`). Envelopes sealed
  to a key that has changed stay, since the first writer wins.

Complaints:

* An inbound message is logged before it is applied; a handler that is cut off in
  between loses it, because its redelivery is a duplicate.
* Deciding on a closed case moves it back to resolved. A status that has no rank
  (escalated) is advanced by nothing until the appeal is decided.
* The officers' clocks are "set once and never moved" (`grievance.ops.ts`), but
  overlapping officers both set them.
* An accepted offer's refund row is written after the acceptance; a cut in between
  leaves an accepted offer without it.

## Not modelled

The other components, with the reason for each, are in `PROJECT.json`. In short:
search, ranking, the assistant and reporting compute from what they read;
profile, ratings, ride chat and flags are single-row writes by their owner;
push and realtime keep nothing; formatting is not for a model checker, and
cryptography is taken as perfect. Large parts of the repository by lines are
texts (legal documents, dictionaries), screens and generated quotes, which is
why the models cover a small share of them.

Operators is the one remaining protocol: `super.service.ts:62-120` counts the
other active super_admins before it demotes or suspends one, and two operators
who do this to each other at once both pass ("you cannot lock everyone out"). It
shares no state with the other modules.

Within the modelled components, the tracking feeds, receipts, reorder and the
pool of `orders.routes.ts`, blocking between users, evidence files and the
lifecycle sweeps that enqueue mails (any enqueue may happen at any time) are left
out. Equal shares of a ride are rounded apiece and need not add up
(`groups.routes.ts:736`); a pack replaces the items that were read (573). The
parser of the seller's messages answers null for every message today, so
the inbound path of `Complaints` is reached by the tests and by the rehearsal
helpers, which take the same steps. What the gateway answers to a second refund
with the same id is not in the repository; the model refuses it.

## What could come next

A module for the operators; the composition of `OrderPlacement` with the order's
life in `OrderContract`; and abstract specifications of a session and of a complaint, in the
manner of `Attempts` and `Mailbox`.

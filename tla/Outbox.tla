-------------------------------- MODULE Outbox --------------------------------
(***************************************************************************)
(* The notification outbox (outbox.service.ts): handlers insert rows, and  *)
(* the worker of every server instance claims, sends and settles them one  *)
(* database access or mail at a time.  A process can die between any two   *)
(* of them, and a mail can be accepted and still be reported as failed.    *)
(***************************************************************************)
EXTENDS Integers, FiniteSets, SequencesExt

CONSTANTS
    Notifications,    \* the rows, one for each dedupe key
    Users,
    Owner,            \* the recipient of each row
    Security,         \* rows of a security type: never gated, never capped
    Retired,          \* rows whose type a later deploy no longer registers
    Workers,          \* one outbox worker for each server instance
    Batch,            \* BATCH
    DailyCap,         \* DAILY_CAP
    MaxAttempts,      \* MAX_ATTEMPTS
    MaxFaults,        \* bound on crashes and lost acknowledgements
    MaxDay            \* bound on the days that pass

ASSUME OutboxAssumption ==
    /\ IsFiniteSet(Notifications) /\ Owner \in [Notifications -> Users]
    /\ Security \subseteq Notifications /\ Retired \subseteq Notifications
    /\ Batch \in Nat \ {0} /\ DailyCap \in Nat \ {0} /\ MaxAttempts \in Nat \ {0}
    /\ MaxFaults \in Nat /\ MaxDay \in Nat \ {0} /\ IsFiniteSet(Workers)

VARIABLES
    created,    \* the rows in the order of createdAt
    status,     \* the row's status ("absent": not inserted yet)
    attempts,
    sentOn,     \* the day of sentAt (0: never sent)
    aged,       \* rows created more than STALE_CLAIM_MS ago
    optedOut,   \* users who turned non-security mail off
    day,
    worker,     \* where each worker is, with its locals
    delivered,  \* external: mails the server accepted, per row
    mailed,     \* history: capped mails it accepted for each user since midnight
    stolen,     \* history: rows the stale sweep took from a worker that held them
    faults

rows == <<created, status, attempts, sentOn>>
clock == <<aged, day>>
tally == <<mailed, stolen>>
vars == <<created, status, attempts, sentOn, aged, optedOut, day, worker,
          delivered, mailed, stolen, faults>>

RowStatus == {"absent", "queued", "sending", "sent", "skipped", "failed"}
Settled == {"sent", "skipped", "failed"}

\* todo: candidates, then the claimed batch; mine: what was claimed; tries and
\* muted: what the loaded batch said of the rows' attempts and their users.
Resting == [pc |-> "idle", todo |-> <<>>, mine |-> <<>>,
            tries |-> [n \in Notifications |-> 0], muted |-> {}]

Init ==
    /\ created = <<>>
    /\ status = [n \in Notifications |-> "absent"]
    /\ attempts = [n \in Notifications |-> 0]
    /\ sentOn = [n \in Notifications |-> 0]
    /\ aged = {}
    /\ optedOut = {}
    /\ day = 1
    /\ worker = [w \in Workers |-> Resting]
    /\ delivered = [n \in Notifications |-> 0]
    /\ mailed = [u \in Users |-> 0]
    /\ stolen = 0
    /\ faults = 0

Local(w, q) == worker' = [worker EXCEPT ![w] = q]
Goto(w, pc) == Local(w, [worker[w] EXCEPT !.pc = pc])

\* The loop goes on with the next row, or the drain returns.
NextRow(w) ==
    Local(w, IF Len(worker[w].todo) = 1 THEN Resting
             ELSE [worker[w] EXCEPT !.pc = "row", !.todo = Tail(@)])

Current(w) == Head(worker[w].todo)

-----------------------------------------------------------------------------
(* enqueueNotification: the unique dedupeKey makes a second insert a no-op. *)

Fresh(n) == status[n] = "absent"

Enqueue(n) ==
    /\ Fresh(n)
    /\ created' = Append(created, n)
    /\ status' = [status EXCEPT ![n] = "queued"]
    /\ UNCHANGED <<attempts, sentOn, clock, optedOut, worker, delivered, tally, faults>>

-----------------------------------------------------------------------------
(* The worker's tick: requeueStaleClaims, then drainOutbox *)

\* Mutant: every old row is returned to the queue.
StaleWhatever == {n \in aged : status[n] # "absent"}

Stale == {n \in Notifications : status[n] = "sending" /\ n \in aged}

\* The rows a worker has claimed and not yet settled.
Holding(w) == IF worker[w].pc = "claim" THEN worker[w].mine ELSE worker[w].todo
Held(w) == ToSet(Holding(w))

\* The claimed rows that a worker still holds.
Claimed == {n \in Notifications : status[n] = "sending" /\ \E w \in Workers : n \in Held(w)}

\* The interval does nothing while the last drain runs.
Tick(w) ==
    /\ worker[w].pc = "idle"
    /\ status' = [n \in Notifications |-> IF n \in Stale THEN "queued" ELSE status[n]]
    /\ stolen' = stolen + Cardinality(Stale \cap Claimed)
    /\ Goto(w, "fetch")
    /\ UNCHANGED <<created, attempts, sentOn, clock, optedOut, delivered, mailed, faults>>

Waiting(n) == status[n] = "queued" /\ attempts[n] < MaxAttempts

Before(m, n) == \E i, j \in DOMAIN created : i < j /\ created[i] = m /\ created[j] = n

\* The first BATCH rows that wait, oldest first: one sequence.
Oldest == {n \in Notifications : Waiting(n) /\
              Cardinality({m \in Notifications : Waiting(m) /\ Before(m, n)}) < Batch}

Candidates == {q \in [1 .. Cardinality(Oldest) -> Oldest] :
                  \A i, j \in DOMAIN q : i < j => Before(q[i], q[j])}

Fetch(w) ==
    /\ worker[w].pc = "fetch"
    /\ \E q \in Candidates :
          Local(w, IF q = <<>> THEN Resting ELSE [worker[w] EXCEPT !.pc = "claim", !.todo = q])
    /\ UNCHANGED <<rows, clock, optedOut, delivered, tally, faults>>

\* Mutant: the claim is not scoped to the status.
ClaimableAlways(n) == TRUE

Claimable(n) == status[n] = "queued"

Claim(w) ==
    /\ worker[w].pc = "claim" /\ worker[w].todo # <<>>
    /\ \/ /\ Claimable(Current(w))
          /\ status' = [status EXCEPT ![Current(w)] = "sending"]
          /\ Local(w, [worker[w] EXCEPT !.todo = Tail(@), !.mine = Append(@, Current(w))])
       \/ /\ ~Claimable(Current(w))
          /\ Local(w, [worker[w] EXCEPT !.todo = Tail(@)])
          /\ UNCHANGED status
    /\ UNCHANGED <<created, attempts, sentOn, clock, optedOut, delivered, tally, faults>>

\* The claimed rows are read again, with their users' preferences.
Load(w) ==
    /\ worker[w].pc = "claim" /\ worker[w].todo = <<>>
    /\ Local(w, IF worker[w].mine = <<>> THEN Resting
                ELSE [pc |-> "row", todo |-> worker[w].mine, mine |-> <<>>,
                      tries |-> attempts, muted |-> optedOut])
    /\ UNCHANGED <<rows, clock, optedOut, delivered, tally, faults>>

Capped(n) == n \notin Security

\* The count takes every mail of the day, whatever its category.
SentToday(u) == Cardinality({n \in Notifications :
                    Owner[n] = u /\ status[n] = "sent" /\ sentOn[n] = day})

\* Mutant: one more than the cap.
UnderCapPlusOne(n) == SentToday(Owner[n]) <= DailyCap

UnderCap(n) == SentToday(Owner[n]) < DailyCap

\* A row of an unregistered type, or of a category its user turned off.
Refuse(w) ==
    LET n == Current(w) IN
    /\ worker[w].pc = "row"
    /\ n \in Retired \/ (Capped(n) /\ Owner[n] \in worker[w].muted)
    /\ status' = [status EXCEPT ![n] = IF n \in Retired THEN "failed" ELSE "skipped"]
    /\ NextRow(w)
    /\ UNCHANGED <<created, attempts, sentOn, clock, optedOut, delivered, tally, faults>>

CheckCap(w) ==
    LET n == Current(w) IN
    /\ worker[w].pc = "row"
    /\ n \notin Retired /\ (Capped(n) => Owner[n] \notin worker[w].muted)
    /\ Goto(w, IF Capped(n) /\ ~UnderCap(n) THEN "cap" ELSE "send")
    /\ UNCHANGED <<rows, clock, optedOut, delivered, tally, faults>>

SkipCapped(w) ==
    /\ worker[w].pc = "cap"
    /\ status' = [status EXCEPT ![Current(w)] = "skipped"]
    /\ NextRow(w)
    /\ UNCHANGED <<created, attempts, sentOn, clock, optedOut, delivered, tally, faults>>

\* sendPrebuiltEmail returns, or throws before the server took the mail.
Send(w) ==
    /\ worker[w].pc = "send"
    /\ \/ /\ delivered' = [delivered EXCEPT ![Current(w)] = @ + 1]
          /\ mailed' = IF Capped(Current(w))
                       THEN [mailed EXCEPT ![Owner[Current(w)]] = @ + 1] ELSE mailed
          /\ Goto(w, "record")
       \/ UNCHANGED <<delivered, mailed>> /\ Goto(w, "bounce")
    /\ UNCHANGED <<rows, clock, optedOut, stolen, faults>>

\* notification.update by id, whatever the row's status has become.
RecordSent(w) ==
    /\ worker[w].pc = "record"
    /\ status' = [status EXCEPT ![Current(w)] = "sent"]
    /\ sentOn' = [sentOn EXCEPT ![Current(w)] = day]
    /\ NextRow(w)
    /\ UNCHANGED <<created, attempts, clock, optedOut, delivered, tally, faults>>

\* Mutant: a failed mail is retried for ever.
RetryAlways(tries) == "queued"

AfterFailure(tries) == IF tries >= MaxAttempts THEN "failed" ELSE "queued"

Bounce(w) ==
    LET n == Current(w)
        tries == worker[w].tries[n] + 1
    IN  /\ worker[w].pc = "bounce"
        /\ attempts' = [attempts EXCEPT ![n] = tries]
        /\ status' = [status EXCEPT ![n] = AfterFailure(tries)]
        /\ NextRow(w)
        /\ UNCHANGED <<created, sentOn, clock, optedOut, delivered, tally, faults>>

-----------------------------------------------------------------------------
(* Faults and the environment *)

Fault ==
    /\ faults < MaxFaults
    /\ faults' = faults + 1

\* The mail was taken and its acknowledgement, or the update after it, failed.
LoseAcknowledgement(w) ==
    /\ worker[w].pc = "record"
    /\ Fault
    /\ Goto(w, "bounce")
    /\ UNCHANGED <<rows, clock, optedOut, delivered, tally>>

\* The process dies, or a query outside the try throws: the drain is over.
Crash(w) ==
    /\ worker[w].pc # "idle"
    /\ Fault
    /\ Local(w, Resting)
    /\ UNCHANGED <<rows, clock, optedOut, delivered, tally>>

Age(n) ==
    /\ status[n] # "absent" /\ n \notin aged
    /\ aged' = aged \cup {n}
    /\ UNCHANGED <<rows, day, optedOut, worker, delivered, tally, faults>>

Midnight ==
    /\ day < MaxDay
    /\ day' = day + 1
    /\ mailed' = [u \in Users |-> 0]
    /\ UNCHANGED <<rows, aged, optedOut, worker, delivered, stolen, faults>>

OptOut(u) ==
    /\ u \notin optedOut
    /\ optedOut' = optedOut \cup {u}
    /\ UNCHANGED <<rows, clock, worker, delivered, tally, faults>>

-----------------------------------------------------------------------------

Drain(w) ==
    \/ Fetch(w) \/ Claim(w) \/ Load(w) \/ Refuse(w) \/ CheckCap(w) \/ SkipCapped(w)
    \/ Send(w) \/ RecordSent(w) \/ Bounce(w)

Next ==
    \/ \E n \in Notifications : Enqueue(n) \/ Age(n)
    \/ \E w \in Workers : Tick(w) \/ Drain(w) \/ LoseAcknowledgement(w) \/ Crash(w)
    \/ \E u \in Users : OptOut(u)
    \/ Midnight

Spec == Init /\ [][Next]_vars

\* The interval timer ticks for ever, a drain that started runs on, and ten
\* minutes pass.
Fairness ==
    /\ \A w \in Workers : WF_vars(Tick(w)) /\ WF_vars(Drain(w))
    /\ \A n \in Notifications : WF_vars(Age(n))

FairSpec == Spec /\ Fairness

(***************************************************************************)
(* Properties                                                              *)
(***************************************************************************)

Steps == {"idle", "fetch", "claim", "row", "cap", "send", "record", "bounce"}

WorkerRecord == [pc : Steps, todo : Seq(Notifications), mine : Seq(Notifications),
                 tries : [Notifications -> Nat], muted : SUBSET Users]

TypeOK ==
    /\ created \in Seq(Notifications)
    /\ IsInjective(created)
    /\ \A n \in Notifications : status[n] = "absent" => n \notin ToSet(created)
    /\ status \in [Notifications -> RowStatus]
    /\ attempts \in [Notifications -> Nat]
    /\ sentOn \in [Notifications -> 0..day]
    /\ aged \subseteq Notifications
    /\ optedOut \subseteq Users
    /\ day \in 1..MaxDay
    /\ worker \in [Workers -> WorkerRecord]
    /\ delivered \in [Notifications -> Nat]
    /\ mailed \in [Users -> Nat] /\ stolen \in Nat
    /\ faults \in 0..MaxFaults

\* "Repeated runs (or restarts) never double-send": every mail beyond a row's
\* first is paid for by a fault (drainOutbox, requeueStaleClaims).
DuplicatesNeedFaults ==
    \A n \in Notifications : delivered[n] <= 1 + faults

\* "Exactly one worker wins each row" (drainOutbox), for as long as the row is
\* younger than STALE_CLAIM_MS and requeueStaleClaims leaves it alone: no young
\* row is in the batches of two workers.
YoungHeldOnce ==
    \A v, w \in Workers : v # w => Held(v) \cap Held(w) \subseteq aged

\* The mails other than security ones that a user's address was sent since
\* midnight, whatever their rows say, exceed DAILY_CAP only by one for each further
\* instance (each counts before any records), one for each fault, and one for each
\* row the stale sweep took from a worker that then sent it all the same.
WithinDailyCap ==
    \A u \in Users :
        mailed[u] <= DailyCap + (Cardinality(Workers) - 1) + stolen + faults

\* The outbox never claims to have sent a mail that the mail server refused.
SentWasDelivered ==
    \A n \in Notifications : status[n] = "sent" => delivered[n] > 0

\* Every row that was queued is settled: no crash leaves it claimed for ever.
QueuedIsSettled ==
    \A n \in Notifications : status[n] = "queued" ~> status[n] \in Settled

-----------------------------------------------------------------------------
(* What a handler that queues a row is promised: with one instance, the    *)
(* outbox is a Mailbox.                                                    *)

Fates == [n \in Notifications |->
             IF status[n] \in {"queued", "sending"} THEN "open" ELSE status[n]]

Promise == INSTANCE Mailbox WITH
    Letters <- Notifications, fate <- Fates, mails <- delivered

\* A row ends in one way and for good: sent if its mail was taken, failed after
\* the last attempt or for a type that is gone, skipped if it is not about
\* security; and "repeated runs (or restarts) never double-send" but for faults.
MailboxHolds == Promise!Spec

-----------------------------------------------------------------------------
(* The inductive invariant behind the safety properties.                   *)

\* A worker between two drains holds nothing; in a drain it is at some row.
WorkerInv(q) ==
    /\ q.pc \in {"idle", "fetch"} => q.todo = <<>>
    /\ q.pc # "claim" => q.mine = <<>>
    /\ q.pc \notin {"idle", "fetch", "claim"} => q.todo # <<>>

\* One instance runs, or the stale sweep leaves the row alone.
Alone == \A v, w \in Workers : v = w
Exclusive(n) == n \notin aged \/ Alone

\* Such a row is held once, and nobody else changes its status.
HeldInv ==
    \A w \in Workers : \A i \in DOMAIN Holding(w) : Exclusive(Holding(w)[i]) =>
        /\ status[Holding(w)[i]] = "sending"
        /\ \A v \in Workers : \A j \in DOMAIN Holding(v) :
               Holding(v)[j] = Holding(w)[i] => v = w /\ j = i

Recording(n) == \E w \in Workers : worker[w].pc = "record" /\ Current(w) = n

\* With one instance, a mail that no fault accounts for is recorded, or about to be.
DeliveredInv ==
    Alone => \A n \in Notifications :
        \/ delivered[n] <= faults
        \/ delivered[n] = faults + 1 /\ (status[n] = "sent" \/ Recording(n))

\* A mail that is about to be recorded was taken by the mail server.
RecordInv == \A w \in Workers : worker[w].pc = "record" => delivered[Current(w)] > 0

IInv ==
    /\ TypeOK
    /\ \A w \in Workers : WorkerInv(worker[w])
    /\ HeldInv /\ DeliveredInv
    /\ RecordInv /\ SentWasDelivered

\* The capped mails of a user that the rows count today, the workers that sent or
\* are about to send one, and those whose mail is out and not yet recorded.
Counted(u) == {n \in Notifications : /\ Capped(n) /\ Owner[n] = u
                                     /\ status[n] = "sent" /\ sentOn[n] = day}
Mailing(w, u) == Capped(Current(w)) /\ Owner[Current(w)] = u
Underway(u) == {w \in Workers : worker[w].pc \in {"send", "record"} /\ Mailing(w, u)}
Unrecorded(u) == {w \in Workers : worker[w].pc = "record" /\ Mailing(w, u)}

\* The places in the workers' batches: a row that was stolen may be in several.
Places == UNION {{w} \X DOMAIN Holding(w) : w \in Workers}

\* The invariant behind WithinDailyCap, together with IInv: a mail that the rows
\* do not count is about to be recorded, or a fault or a stolen row accounts for it,
\* and a place in a batch whose row is no longer claimed is one that was stolen.
CapInv ==
    /\ Cardinality(Places) <= Cardinality(Claimed) + stolen
    /\ \A u \in Users :
          /\ mailed[u] + Cardinality(Places)
                <= Cardinality(Counted(u)) + Cardinality(Unrecorded(u))
                     + Cardinality(Claimed) + stolen + faults
          /\ Cardinality(Counted(u)) + Cardinality(Underway(u))
                <= DailyCap + (Cardinality(Workers) - 1)

\* A row that is not settled has attempts left.
AttemptsLeft == \A n \in Notifications : status[n] \notin Settled => attempts[n] < MaxAttempts

\* What gets past the gates may be mailed, and only what is capped is skipped.
PassedTheGates ==
    \A w \in Workers : worker[w].pc \in {"cap", "send", "record", "bounce"} =>
        /\ Current(w) \notin Retired
        /\ worker[w].pc = "cap" => Current(w) \notin Security

\* With one instance, the loaded batch knows how often its rows were tried.
KnowsTries ==
    Alone => \A w \in Workers : worker[w].pc \notin {"idle", "fetch", "claim"} =>
        \A i \in DOMAIN worker[w].todo :
            worker[w].tries[worker[w].todo[i]] = attempts[worker[w].todo[i]]

\* The invariant behind MailboxHolds, together with IInv.
TriesInv == AttemptsLeft /\ PassedTheGates /\ KnowsTries

===============================================================================

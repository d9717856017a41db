----------------------------- MODULE Housekeeping -----------------------------
(***************************************************************************)
(* The loops of index.ts that run beside the requests: price alerts every  *)
(* minute, the Plus sweep every day and at boot, due deletions every hour. *)
(* Each lists its rows first and then works through the list, while users  *)
(* renew or cancel Plus, remove alerts, and ask for or cancel a deletion.  *)
(* No loop guards against a second pass beside it.                         *)
(***************************************************************************)
EXTENDS Integers, FiniteSets

CONSTANTS
    Users, Alerts, Owner,
    Passes, Job, \* slots for passes, and the loop each belongs to
    Calls,       \* slots for requests about a deletion
    MaxBusy,     \* bound on the passes and requests under way beside the hourly job
    MaxPeriods,  \* bound on the Plus periods of a user
    MaxAsks,     \* bound on open requests to delete and calls that open one
    MaxFaults    \* bound on crashes and failed inserts

ASSUME HousekeepingAssumption ==
    /\ Users # {} /\ Owner \in [Alerts -> Users] /\ Job \in [Passes -> {"alerts", "plus", "deletions"}]
    /\ MaxBusy \in Nat /\ MaxPeriods \in Nat /\ MaxAsks \in Nat /\ MaxFaults \in Nat

VARIABLES
    plus,      \* plusActive and the period plusUntil ends, with the time left of it
    alert,     \* PriceAlert rows
    account,   \* deletionScheduledFor, deletedAt and the open privacy requests
    mail,      \* Notification rows, by dedupe key
    pass, call,
    faults,
    unlucky,   \* history: keys of mails that failed, or whose pass died before them
    overtaken, \* history: users who renewed while a pass had their lapse on its list
    muddled    \* history: users whose deletion calls overlapped another or the job, or died

rows == <<plus, alert, account, mail>>
history == <<unlucky, overtaken, muddled>>
vars == <<rows, pass, call, faults, history>>

\* todo: what is left of the list; at: the row being worked on, if any.
NoPass == [todo |-> {}, at |-> {}, step |-> "idle"]
NoCall == [op |-> "none", user |-> CHOOSE u \in Users : TRUE, step |-> "idle"]

Init ==
    /\ plus = [u \in Users |-> [active |-> FALSE, period |-> 0, left |-> "none", cancelled |-> FALSE]]
    /\ alert = [a \in Alerts |-> "none"]
    /\ account = [u \in Users |-> [schedule |-> "no", deleted |-> FALSE, requests |-> 0]]
    /\ mail = {}
    /\ pass = [p \in Passes |-> NoPass] /\ call = [c \in Calls |-> NoCall]
    /\ faults = 0
    /\ unlucky = {} /\ overtaken = {} /\ muddled = {}

MayStart == Cardinality({p \in Passes : Job[p] # "deletions" /\ pass[p].step # "idle"})
            + Cardinality({c \in Calls : call[c].step # "idle"}) < MaxBusy
Fault == faults < MaxFaults /\ faults' = faults + 1
In(p, job, step) == Job[p] = job /\ pass[p].step = step
Turn(p, q) == pass' = [pass EXCEPT ![p] = q]
StopPass(p) == Turn(p, NoPass)

-------------------------------------------------------------------------------
(* Price alerts: checkPriceAlerts.                                         *)

CreateAlert(a) ==
    /\ alert[a] = "none" /\ ~account[Owner[a]].deleted
    /\ alert' = [alert EXCEPT ![a] = "active"]
    /\ UNCHANGED <<plus, account, mail, pass, call, faults, history>>

DeleteAlert(a) ==
    /\ alert[a] \in {"active", "triggered"}
    /\ alert' = [alert EXCEPT ![a] = "gone"]
    /\ UNCHANGED <<plus, account, mail, pass, call, faults, history>>

ListAlerts(p) ==
    /\ In(p, "alerts", "idle") /\ MayStart
    /\ LET active == {a \in Alerts : alert[a] = "active"} IN
       /\ active # {}
       /\ Turn(p, [NoPass EXCEPT !.todo = active, !.step = "check"])
    /\ UNCHANGED <<rows, call, faults, history>>

\* The latest price of the item is above the target, or at or below it.
CheckPrice(p, a) ==
    /\ In(p, "alerts", "check") /\ a \in pass[p].todo
    /\ \E step \in {"check", "fire"} :
          Turn(p, [pass[p] EXCEPT !.todo = @ \ {a}, !.step = step,
                                  !.at = IF step = "fire" THEN {a} ELSE {}])
    /\ UNCHANGED <<rows, call, faults, history>>

\* The row is updated by its id: a row removed since then throws, which ends the pass.
FireAlert(p) ==
    /\ In(p, "alerts", "fire")
    /\ \E a \in pass[p].at :
          IF alert[a] = "gone"
          THEN StopPass(p) /\ UNCHANGED alert
          ELSE /\ alert' = [alert EXCEPT ![a] = "triggered"]
               /\ Turn(p, [pass[p] EXCEPT !.step = "mail"])
    /\ UNCHANGED <<plus, account, mail, call, faults, history>>

\* enqueueNotification: a second row with the key is refused and counts as done.
\* An insert that fails is swallowed, and nothing tries again.
Enqueue(key) ==
    \/ mail' = mail \cup {key} /\ UNCHANGED <<faults, unlucky>>
    \/ Fault /\ unlucky' = unlucky \cup {key} /\ UNCHANGED mail

MailAlert(p) ==
    /\ In(p, "alerts", "mail")
    /\ \E a \in pass[p].at : Enqueue(<<"price", a>>)
    /\ Turn(p, [pass[p] EXCEPT !.at = {}, !.step = "check"])
    /\ UNCHANGED <<plus, alert, account, call, overtaken, muddled>>

EndAlerts(p) ==
    /\ In(p, "alerts", "check") /\ pass[p].todo = {}
    /\ StopPass(p)
    /\ UNCHANGED <<rows, call, faults, history>>

-------------------------------------------------------------------------------
(* Plus: activatePlus, cancelPlus, sweepPlusMemberships.                   *)

\* Renewing while a sweep has a lapse on its list is what the sweep overlooks.
ActivatePlus(u) ==
    /\ plus[u].period < MaxPeriods
    /\ plus' = [plus EXCEPT ![u] = [active |-> TRUE, period |-> @.period + 1,
                                    left |-> "running", cancelled |-> FALSE]]
    /\ overtaken' = IF \E p \in Passes : Job[p] = "plus" /\ pass[p].step # "remind"
                           /\ \E k \in pass[p].todo \cup pass[p].at : k[1] = u
                    THEN overtaken \cup {u} ELSE overtaken
    /\ UNCHANGED <<alert, account, mail, pass, call, faults, unlucky, muddled>>

CancelPlus(u) ==
    /\ plus[u].active
    /\ plus' = [plus EXCEPT ![u].active = FALSE, ![u].cancelled = TRUE]
    /\ UNCHANGED <<alert, account, mail, pass, call, faults, history>>

PeriodEnds(u) ==
    /\ plus[u].left = "running"
    /\ plus' = [plus EXCEPT ![u].left = "lapsed"]
    /\ UNCHANGED <<alert, account, mail, pass, call, faults, history>>

Members(left) == {<<u, plus[u].period>> : u \in {v \in Users : plus[v].active /\ plus[v].left = left}}

\* The members whose period ends within days are reminded first; the lapsed are
\* listed when that is done.
ListRenewing(p) ==
    /\ In(p, "plus", "idle") /\ MayStart
    /\ Members("running") \cup Members("lapsed") # {}
    /\ \E renewing \in SUBSET Members("running") :
          Turn(p, [NoPass EXCEPT !.todo = renewing, !.step = "remind"])
    /\ UNCHANGED <<rows, call, faults, history>>

\* A reminder that cannot be stored throws, and nobody expires in this sweep.
\* The reminders themselves are left out of mail.
Remind(p, k) ==
    /\ In(p, "plus", "remind") /\ k \in pass[p].todo
    /\ \/ Turn(p, [pass[p] EXCEPT !.todo = @ \ {k}]) /\ UNCHANGED faults
       \/ Fault /\ StopPass(p)
    /\ UNCHANGED <<rows, call, history>>

\* Mutant: the period is not compared with the clock.
ListActive(p) ==
    /\ In(p, "plus", "remind") /\ pass[p].todo = {}
    /\ Turn(p, [pass[p] EXCEPT !.todo = Members("lapsed") \cup Members("running"), !.step = "expire"])
    /\ UNCHANGED <<rows, call, faults, history>>

ListLapsed(p) ==
    /\ In(p, "plus", "remind") /\ pass[p].todo = {}
    /\ Turn(p, [pass[p] EXCEPT !.todo = Members("lapsed"), !.step = "expire"])
    /\ UNCHANGED <<rows, call, faults, history>>

\* Mutant: the dedupe key names the user only, not the period that ended.
MailExpiryOnce(p, k) ==
    /\ In(p, "plus", "expire") /\ k \in pass[p].todo
    /\ Enqueue(<<"expired", <<k[1], 1>>>>)
    /\ Turn(p, [pass[p] EXCEPT !.todo = @ \ {k}, !.at = {k}, !.step = "clear"])
    /\ UNCHANGED <<plus, alert, account, call, overtaken, muddled>>

MailExpiry(p, k) ==
    /\ In(p, "plus", "expire") /\ k \in pass[p].todo
    /\ Enqueue(<<"expired", k>>)
    /\ Turn(p, [pass[p] EXCEPT !.todo = @ \ {k}, !.at = {k}, !.step = "clear"])
    /\ UNCHANGED <<plus, alert, account, call, overtaken, muddled>>

\* The flag is cleared by user id, whatever the period is by now.
ClearPlus(p) ==
    /\ In(p, "plus", "clear")
    /\ \E k \in pass[p].at : plus' = [plus EXCEPT ![k[1]].active = FALSE]
    /\ Turn(p, [pass[p] EXCEPT !.at = {}, !.step = "expire"])
    /\ UNCHANGED <<alert, account, mail, call, faults, history>>

EndSweep(p) ==
    /\ In(p, "plus", "expire") /\ pass[p].todo = {}
    /\ StopPass(p)
    /\ UNCHANGED <<rows, call, faults, history>>

-------------------------------------------------------------------------------
(* Deletion: requestDeletion, cancelDeletion, processDueDeletions.         *)

UnderWay(u) ==
    \/ \E c \in Calls : call[c].step # "idle" /\ call[c].user = u
    \/ \E p \in Passes : Job[p] = "deletions" /\ u \in pass[p].todo

Muddle(u) == muddled' = IF UnderWay(u) THEN muddled \cup {u} ELSE muddled

CallAt(c, op, step) == call[c].op = op /\ call[c].step = step
Become(c, step) == call' = [call EXCEPT ![c].step = step]
Answer(c) == call' = [call EXCEPT ![c] = NoCall]
SetAccount(u, field, v) == account' = [account EXCEPT ![u][field] = v]

Begin(c, u, op, step) ==
    /\ CallAt(c, "none", "idle") /\ MayStart /\ ~account[u].deleted
    /\ call' = [call EXCEPT ![c] = [op |-> op, user |-> u, step |-> step]]
    /\ Muddle(u)
    /\ UNCHANGED <<rows, pass, faults, unlucky, overtaken>>

\* POST /privacy/deletion, from a screen that showed no schedule.
AskDeletion(c, u) ==
    /\ account[u].requests + Cardinality({d \in Calls : call[d].op = "ask"}) < MaxAsks
    /\ Begin(c, u, "ask", "read")

\* Mutant: the open request is left for the operators.
CancelScheduleOnly(c, u) ==
    /\ account[u].schedule # "no"
    /\ Begin(c, u, "cancel", "unschedule")

CancelDeletion(c, u) ==
    /\ account[u].schedule # "no"
    /\ Begin(c, u, "cancel", "close")

\* An erased account has no password to confirm with.
ReadSchedule(c) ==
    /\ CallAt(c, "ask", "read")
    /\ LET a == account[call[c].user] IN
       IF a.schedule # "no" \/ a.deleted THEN Answer(c) ELSE Become(c, "find")
    /\ UNCHANGED <<rows, pass, faults, history>>

\* openPrivacyRequest: one open request of a kind at a time.
FindRequest(c) ==
    /\ CallAt(c, "ask", "find")
    /\ Become(c, IF account[call[c].user].requests > 0 THEN "schedule" ELSE "create")
    /\ UNCHANGED <<rows, pass, faults, history>>

CreateRequest(c) ==
    /\ CallAt(c, "ask", "create")
    /\ SetAccount(call[c].user, "requests", account[call[c].user].requests + 1)
    /\ Become(c, "schedule")
    /\ UNCHANGED <<plus, alert, mail, pass, faults, history>>

Schedule(c) ==
    /\ CallAt(c, "ask", "schedule")
    /\ SetAccount(call[c].user, "schedule", "waiting")
    /\ Answer(c)
    /\ UNCHANGED <<plus, alert, mail, pass, faults, history>>

CloseRequests(c) ==
    /\ CallAt(c, "cancel", "close")
    /\ SetAccount(call[c].user, "requests", 0)
    /\ Become(c, "unschedule")
    /\ UNCHANGED <<plus, alert, mail, pass, faults, history>>

Unschedule(c) ==
    /\ CallAt(c, "cancel", "unschedule")
    /\ SetAccount(call[c].user, "schedule", "no")
    /\ Answer(c)
    /\ UNCHANGED <<plus, alert, mail, pass, faults, history>>

\* The grace period of weeks outlives every request.
GraceEnds(u) ==
    /\ account[u].schedule = "waiting" /\ ~UnderWay(u)
    /\ SetAccount(u, "schedule", "due")
    /\ UNCHANGED <<plus, alert, mail, pass, call, faults, history>>

\* Mutant: the job goes by the open requests, which a cancellation cut short has closed.
Requested == {u \in Users : account[u].schedule = "due" /\ account[u].requests > 0}

\* Mutant: every scheduled deletion is taken for due.
Scheduled == {u \in Users : account[u].schedule # "no" /\ ~account[u].deleted}

Due == {u \in Users : account[u].schedule = "due" /\ ~account[u].deleted}

ListDue(p) ==
    /\ In(p, "deletions", "idle") /\ Due # {}
    /\ Turn(p, [NoPass EXCEPT !.todo = Due, !.step = "erase"])
    /\ muddled' = muddled \cup {u \in Due : UnderWay(u)}
    /\ UNCHANGED <<rows, call, faults, unlucky, overtaken>>

\* eraseAccount, one transaction: it does not look at the schedule again.
EraseAccount(p, u) ==
    /\ In(p, "deletions", "erase") /\ u \in pass[p].todo
    /\ account' = [account EXCEPT ![u] = [schedule |-> "no", deleted |-> TRUE, requests |-> 0]]
    /\ alert' = [a \in Alerts |-> IF Owner[a] = u /\ alert[a] # "none" THEN "gone" ELSE alert[a]]
    /\ Turn(p, [pass[p] EXCEPT !.todo = @ \ {u}])
    /\ UNCHANGED <<plus, mail, call, faults, history>>

EndDeletions(p) ==
    /\ In(p, "deletions", "erase") /\ pass[p].todo = {}
    /\ StopPass(p)
    /\ UNCHANGED <<rows, call, faults, history>>

-------------------------------------------------------------------------------
\* The process is restarted: passes and requests end where they are.
Restart ==
    /\ Fault
    /\ pass' = [p \in Passes |-> NoPass]
    /\ call' = [c \in Calls |-> NoCall]
    /\ unlucky' = unlucky \cup {<<"price", a>> : a \in UNION {pass[p].at : p \in {q \in Passes : In(q, "alerts", "mail")}}}
    /\ muddled' = muddled \cup {call[c].user : c \in {d \in Calls : call[d].step # "idle"}}
    /\ UNCHANGED <<rows, overtaken>>

PassStep(p) ==
    \/ FireAlert(p) \/ MailAlert(p) \/ EndAlerts(p) \/ \E a \in Alerts : CheckPrice(p, a)
    \/ ListLapsed(p) \/ ClearPlus(p) \/ EndSweep(p)
    \/ \E k \in pass[p].todo : Remind(p, k) \/ MailExpiry(p, k)
    \/ \E u \in Users : EraseAccount(p, u)
    \/ EndDeletions(p)

CallStep(c) ==
    \/ ReadSchedule(c) \/ FindRequest(c) \/ CreateRequest(c) \/ Schedule(c)
    \/ CloseRequests(c) \/ Unschedule(c)

Next ==
    \/ \E p \in Passes : PassStep(p) \/ ListAlerts(p) \/ ListRenewing(p) \/ ListDue(p)
    \/ \E c \in Calls : CallStep(c) \/ \E u \in Users : AskDeletion(c, u) \/ CancelDeletion(c, u)
    \/ \E a \in Alerts : CreateAlert(a) \/ DeleteAlert(a)
    \/ \E u \in Users : ActivatePlus(u) \/ CancelPlus(u) \/ PeriodEnds(u) \/ GraceEnds(u)
    \/ Restart

Spec == Init /\ [][Next]_vars

\* The hourly interval of index.ts comes round again, and its pass is carried on
\* for as long as the process lives. Nothing is assumed of the other loops.
FairSpec ==
    /\ Spec
    /\ \A p \in {q \in Passes : Job[q] = "deletions"} : WF_vars(PassStep(p)) /\ WF_vars(ListDue(p))

-------------------------------------------------------------------------------
(* Properties.                                                             *)

\* What a pass has on its list: alerts, members with the period that ends, accounts.
Items(job) == IF job = "alerts" THEN Alerts ELSE IF job = "plus" THEN Users \X Nat ELSE Users

PassSteps == {"idle", "check", "fire", "mail", "remind", "expire", "clear", "erase"}
CallSteps == {"idle", "read", "find", "create", "schedule", "close", "unschedule"}

TypeOK ==
    /\ plus \in [Users -> [active : BOOLEAN, period : Nat, left : {"none", "running", "lapsed"},
                           cancelled : BOOLEAN]]
    /\ account \in [Users -> [schedule : {"no", "waiting", "due"}, deleted : BOOLEAN, requests : Nat]]
    /\ alert \in [Alerts -> {"none", "active", "triggered", "gone"}]
    /\ \A p \in Passes :
          /\ pass[p] \in [todo : SUBSET Items(Job[p]), at : SUBSET Items(Job[p]), step : PassSteps]
          /\ \A x, y \in pass[p].at : x = y
    /\ DOMAIN pass = Passes
    /\ call \in [Calls -> [op : {"none", "ask", "cancel"}, user : Users, step : CallSteps]]
    /\ faults \in 0 .. MaxFaults

\* A member who did not cancel has Plus for as long as the period runs, unless a
\* sweep that had listed an earlier lapse was still at work when it was renewed.
PaidPeriodKeepsPlus ==
    \A u \in Users : plus[u].left = "running" /\ ~plus[u].active =>
        plus[u].cancelled \/ u \in overtaken

\* What a loop ends is told: a triggered alert, and a membership that lapsed and
\* was not cancelled, have their mail, unless its insert failed or the pass died
\* first. A lapse is queued before its flag is cleared, an alert after.
EndsAreTold ==
    /\ \A a \in Alerts : alert[a] = "triggered" =>
          \/ <<"price", a>> \in mail \cup unlucky
          \/ \E p \in Passes : In(p, "alerts", "mail") /\ a \in pass[p].at
    /\ \A u \in Users : plus[u].left = "lapsed" /\ ~plus[u].active =>
          \/ <<"expired", <<u, plus[u].period>>>> \in mail \cup unlucky
          \/ plus[u].cancelled \/ u \in overtaken

Matches(u) == account[u].requests = (IF account[u].schedule = "no" THEN 0 ELSE 1)

\* The schedule and the open privacy request agree, unless two deletion calls,
\* or a call and the job, overlapped, or a call died half way.
RequestMatchesSchedule ==
    \A u \in Users : u \in muddled \/ UnderWay(u) \/ Matches(u)

\* Nobody is erased whose deletion is not due, except where the cancellation
\* overlapped the job that had already listed it.
ErasesOnlyDue ==
    [][\A u \in Users : account'[u].deleted /\ ~account[u].deleted =>
          account[u].schedule = "due" \/ u \in muddled]_vars

\* A deletion that comes due is carried out, or cancelled, however many restarts
\* come between: "A deletion that only happens while someone is watching is not
\* a deletion."
DueIsErased ==
    \A u \in Users : account[u].schedule = "due" ~> account[u].schedule # "due" \/ account[u].deleted

-------------------------------------------------------------------------------
(* The inductive invariant behind the safety properties, one part for each *)
(* loop.                                                                   *)

Told(key) == key \in mail \cup unlucky

\* A lapse on the list of a sweep is still a lapse, or its member was overtaken;
\* the one whose flag is cleared next has its mail.
SweepInv(p) ==
    Job[p] = "plus" =>
        /\ pass[p].step # "clear" => pass[p].at = {}
        /\ pass[p].step # "remind" =>
              \A k \in pass[p].todo \cup pass[p].at :
                  k[1] \in overtaken \/ (plus[k[1]].left = "lapsed" /\ plus[k[1]].period = k[2])
        /\ pass[p].step = "clear" => \A k \in pass[p].at : Told(<<"expired", k>>)

PlusInv == PaidPeriodKeepsPlus /\ \A p \in Passes : SweepInv(p)

\* Of a user whose calls did not cross, at most one call or pass is under way.
Alone(u) ==
    /\ \A c, d \in Calls : call[c].step # "idle" /\ call[c].user = u
                          /\ call[d].step # "idle" /\ call[d].user = u => c = d
    /\ \A p, q \in Passes : Job[p] = "deletions" /\ u \in pass[p].todo
                           /\ Job[q] = "deletions" /\ u \in pass[q].todo => p = q
    /\ \A c \in Calls, p \in Passes :
          ~(call[c].step # "idle" /\ call[c].user = u /\ Job[p] = "deletions" /\ u \in pass[p].todo)

\* Where a call that nobody crosses has brought its account.
HalfWay(c) ==
    LET a == account[call[c].user] IN
    /\ call[c].step \in {"read", "close"} => Matches(call[c].user)
    /\ call[c].step \in {"find", "create"} => a.requests = 0 /\ a.schedule = "no"
    /\ call[c].step = "schedule" => a.requests = 1 /\ a.schedule = "no"
    /\ call[c].step = "unschedule" => a.requests = 0

\* Each account is in order, half way in the one call it is in, or on one list
\* of due deletions.
DeletionInv ==
    \A u \in Users \ muddled :
        /\ Alone(u)
        /\ UnderWay(u) \/ Matches(u)
        /\ \A c \in Calls : call[c].user = u => HalfWay(c)
        /\ \A p \in Passes : Job[p] = "deletions" /\ u \in pass[p].todo =>
              account[u].schedule = "due" /\ Matches(u)

IInv == TypeOK /\ PlusInv /\ EndsAreTold /\ DeletionInv
===============================================================================

-------------------------- MODULE HousekeepingProofs --------------------------
(***************************************************************************)
(* Proofs about Housekeeping, for any number of users, alerts, passes and  *)
(* requests.  The three loops share the passes and the mails only, so each *)
(* part of the invariant is kept by the steps of one loop and is left      *)
(* alone by the steps of the others.                                       *)
(***************************************************************************)
EXTENDS Housekeeping, TLAPS

PassRecord(p) == [todo : SUBSET Items(Job[p]), at : SUBSET Items(Job[p]), step : PassSteps]
CallRecord == [op : {"none", "ask", "cancel"}, user : Users, step : CallSteps]

LEMMA NoPassIs ==
    ASSUME NEW p \in Passes
    PROVE  /\ NoPass \in PassRecord(p) /\ NoPass.step = "idle"
           /\ NoPass.todo = {} /\ NoPass.at = {}
  BY DEF NoPass, PassRecord, PassSteps

LEMMA NoCallIs == NoCall \in CallRecord /\ NoCall.step = "idle" /\ NoCall.op = "none"
<1>1. (CHOOSE u \in Users : TRUE) \in Users
  BY HousekeepingAssumption
<1> QED
  BY <1>1 DEF NoCall, CallRecord, CallSteps

LEMMA InitIInv == Init => IInv
<1> SUFFICES ASSUME Init PROVE IInv
  OBVIOUS
<1>1. \A p \in Passes : pass[p] = NoPass
  BY DEF Init
<1>2. \A c \in Calls : call[c] = NoCall
  BY DEF Init
<1>3. TypeOK
  <2>1. \A p \in Passes : pass[p] \in PassRecord(p) /\ \A x, y \in pass[p].at : x = y
    BY <1>1, NoPassIs
  <2>2. call \in [Calls -> CallRecord]
    BY NoCallIs DEF Init
  <2>3. faults \in 0 .. MaxFaults
    BY HousekeepingAssumption DEF Init
  <2> QED
    BY <2>1, <2>2, <2>3 DEF Init, TypeOK, PassRecord, CallRecord
<1>4. PlusInv
  BY <1>1, NoPassIs DEF Init, PlusInv, PaidPeriodKeepsPlus, SweepInv
<1>5. EndsAreTold
  BY DEF Init, EndsAreTold
<1>6. DeletionInv
  <2>1. \A u \in Users : Alone(u)
    BY <1>1, <1>2, NoPassIs, NoCallIs DEF Alone
  <2>2. \A u \in Users : Matches(u)
    BY DEF Init, Matches
  <2>3. \A c \in Calls : HalfWay(c)
    BY <1>2, NoCallIs DEF HalfWay
  <2> QED
    BY <1>1, <2>1, <2>2, <2>3, NoPassIs DEF DeletionInv
<1> QED
  BY <1>3, <1>4, <1>5, <1>6 DEF IInv

-------------------------------------------------------------------------------
(* A pass takes one step: the others stay where they are.                  *)

LEMMA TurnStep ==
    ASSUME TypeOK, NEW p \in Passes, NEW q \in PassRecord(p), Turn(p, q),
           \A x, y \in q.at : x = y
    PROVE  /\ pass'[p] = q /\ \A r \in Passes \ {p} : pass'[r] = pass[r]
           /\ DOMAIN pass' = Passes
           /\ \A r \in Passes : pass'[r] \in PassRecord(r) /\ \A x, y \in pass'[r].at : x = y
<1>1. pass' = [pass EXCEPT ![p] = q] /\ DOMAIN pass = Passes
  BY DEF Turn, TypeOK
<1>2. \A r \in Passes : pass[r] \in PassRecord(r) /\ \A x, y \in pass[r].at : x = y
  BY DEF TypeOK, PassRecord
<1>3. DOMAIN pass' = Passes /\ pass'[p] = q /\ \A r \in Passes \ {p} : pass'[r] = pass[r]
  BY <1>1
<1> QED
  BY <1>2, <1>3

LEMMA PassIs ==
    ASSUME TypeOK, NEW p \in Passes
    PROVE  /\ pass[p] \in PassRecord(p) /\ pass[p].todo \subseteq Items(Job[p])
           /\ pass[p].at \subseteq Items(Job[p]) /\ \A x, y \in pass[p].at : x = y
  BY DEF TypeOK, PassRecord

LEMMA CallStepIs ==
    ASSUME TypeOK, NEW c \in Calls, NEW q \in CallRecord, call' = [call EXCEPT ![c] = q]
    PROVE  /\ call' \in [Calls -> CallRecord] /\ call'[c] = q
           /\ \A d \in Calls \ {c} : call'[d] = call[d]
  BY DEF TypeOK, CallRecord

-------------------------------------------------------------------------------
(* What leaves a loop alone.                                               *)

LEMMA PlusKeep ==
    ASSUME PlusInv, plus' = plus, overtaken' = overtaken,
           mail \cup unlucky \subseteq mail' \cup unlucky',
           \A p \in Passes : Job[p] = "plus" => pass'[p] = pass[p] \/ pass'[p] = NoPass
    PROVE  PlusInv'
<1>1. PaidPeriodKeepsPlus'
  BY DEF PlusInv, PaidPeriodKeepsPlus
<1>2. ASSUME NEW p \in Passes PROVE SweepInv(p)'
  BY <1>2, NoPassIs DEF PlusInv, SweepInv, Told
<1> QED
  BY <1>1, <1>2 DEF PlusInv

LEMMA ToldKeep ==
    ASSUME EndsAreTold, plus' = plus, overtaken' = overtaken,
           mail \cup unlucky \subseteq mail' \cup unlucky',
           \A a \in Alerts : alert'[a] = "triggered" => alert[a] = "triggered",
           \A p \in Passes : In(p, "alerts", "mail") => pass'[p] = pass[p]
    PROVE  EndsAreTold'
<1>1. ASSUME NEW a \in Alerts, alert'[a] = "triggered"
      PROVE  \/ <<"price", a>> \in mail' \cup unlucky'
             \/ \E p \in Passes : In(p, "alerts", "mail")' /\ a \in pass'[p].at
  BY <1>1 DEF EndsAreTold, In
<1>2. ASSUME NEW u \in Users, plus'[u].left = "lapsed", ~plus'[u].active
      PROVE  \/ <<"expired", <<u, plus'[u].period>>>> \in mail' \cup unlucky'
             \/ plus'[u].cancelled \/ u \in overtaken'
  BY <1>2 DEF EndsAreTold
<1> QED
  BY <1>1, <1>2 DEF EndsAreTold

LEMMA DeletionKeep ==
    ASSUME DeletionInv, account' = account, call' = call, muddled' = muddled,
           \A p \in Passes : Job[p] = "deletions" => pass'[p].todo = pass[p].todo
    PROVE  DeletionInv'
<1>1. \A u : UnderWay(u)' <=> UnderWay(u)
  BY DEF UnderWay
<1>2. \A u : Alone(u)' <=> Alone(u)
  BY DEF Alone
<1>3. \A u : Matches(u)' <=> Matches(u)
  BY DEF Matches
<1>4. \A c \in Calls : HalfWay(c)' <=> HalfWay(c)
  BY DEF HalfWay, Matches
<1> QED
  BY <1>1, <1>2, <1>3, <1>4 DEF DeletionInv

\* One loop's passes move and what the others look at stays.
LEMMA TypeKeep ==
    ASSUME TypeOK, UNCHANGED <<plus, account, call>>,
           alert' \in [Alerts -> {"none", "active", "triggered", "gone"}],
           DOMAIN pass' = Passes, faults' \in 0 .. MaxFaults,
           \A r \in Passes : pass'[r] \in PassRecord(r) /\ \A x, y \in pass'[r].at : x = y
    PROVE  TypeOK'
  BY DEF TypeOK, PassRecord

LEMMA EnqueueStep ==
    ASSUME TypeOK, NEW key, Enqueue(key)
    PROVE  /\ mail \cup unlucky \subseteq mail' \cup unlucky' /\ key \in mail' \cup unlucky'
           /\ faults' \in 0 .. MaxFaults
  BY HousekeepingAssumption DEF Enqueue, Fault, TypeOK

-------------------------------------------------------------------------------
(* Price alerts.                                                           *)

LEMMA AlertPassStep ==
    ASSUME IInv, NEW p \in Passes, Job[p] = "alerts", NEW q \in PassRecord(p), Turn(p, q),
           \A x, y \in q.at : x = y,
           UNCHANGED <<plus, account, call, overtaken, muddled>>, faults' \in 0 .. MaxFaults,
           mail \cup unlucky \subseteq mail' \cup unlucky',
           alert' \in [Alerts -> {"none", "active", "triggered", "gone"}]
    PROVE  /\ TypeOK' /\ PlusInv' /\ DeletionInv'
           /\ pass'[p] = q /\ \A r \in Passes \ {p} : pass'[r] = pass[r]
<1>1. TypeOK /\ PlusInv /\ DeletionInv
  BY DEF IInv
<1>2. /\ pass'[p] = q /\ \A r \in Passes \ {p} : pass'[r] = pass[r]
      /\ DOMAIN pass' = Passes
      /\ \A r \in Passes : pass'[r] \in PassRecord(r) /\ \A x, y \in pass'[r].at : x = y
  BY <1>1, TurnStep
<1>3. TypeOK'
  BY <1>1, <1>2, TypeKeep
<1>4. PlusInv'
  BY <1>1, <1>2, PlusKeep
<1>5. DeletionInv'
  BY <1>1, <1>2, DeletionKeep
<1> QED
  BY <1>2, <1>3, <1>4, <1>5

LEMMA AlertRowsSafe ==
    ASSUME IInv, NEW a \in Alerts, CreateAlert(a) \/ DeleteAlert(a)
    PROVE  IInv'
<1>1. TypeOK /\ PlusInv /\ EndsAreTold /\ DeletionInv
  BY DEF IInv
<1>2. /\ UNCHANGED <<plus, account, mail, pass, call, faults, unlucky, overtaken, muddled>>
      /\ alert' \in [Alerts -> {"none", "active", "triggered", "gone"}]
      /\ \A b \in Alerts : alert'[b] = "triggered" => alert[b] = "triggered"
  BY <1>1 DEF CreateAlert, DeleteAlert, history, TypeOK
<1>3. TypeOK'
  BY <1>1, <1>2 DEF TypeOK
<1>4. PlusInv'
  BY <1>1, <1>2, PlusKeep
<1>5. EndsAreTold'
  BY <1>1, <1>2, ToldKeep
<1>6. DeletionInv'
  BY <1>1, <1>2, DeletionKeep
<1> QED
  BY <1>3, <1>4, <1>5, <1>6 DEF IInv

LEMMA AlertPassSafe ==
    ASSUME IInv, NEW p \in Passes,
           \/ ListAlerts(p) \/ FireAlert(p) \/ MailAlert(p) \/ EndAlerts(p)
           \/ \E a \in Alerts : CheckPrice(p, a)
    PROVE  IInv'
<1>1. /\ TypeOK /\ EndsAreTold /\ pass[p] \in PassRecord(p) /\ faults \in 0 .. MaxFaults
      /\ alert \in [Alerts -> {"none", "active", "triggered", "gone"}]
      /\ pass[p].todo \subseteq Alerts /\ pass[p].at \subseteq Alerts
      /\ \A x, y \in pass[p].at : x = y
      /\ Job[p] = "alerts" /\ Items(Job[p]) = Alerts
  BY PassIs DEF IInv, TypeOK, ListAlerts, FireAlert, MailAlert, EndAlerts, CheckPrice, In, Items
\* A step that triggers nothing and ends no pass that owes a mail.
<1>2. ASSUME NEW q \in PassRecord(p), Turn(p, q), \A x, y \in q.at : x = y, pass[p].step # "mail",
             UNCHANGED <<rows, call, faults, history>>
      PROVE  IInv'
  <2>1. UNCHANGED <<plus, alert, account, mail, call, faults, unlucky, overtaken, muddled>>
    BY <1>2 DEF rows, history
  <2>2. /\ TypeOK' /\ PlusInv' /\ DeletionInv'
        /\ pass'[p] = q /\ \A r \in Passes \ {p} : pass'[r] = pass[r]
    BY <1>1, <1>2, <2>1, AlertPassStep
  <2>3. EndsAreTold'
    BY <1>1, <1>2, <2>1, <2>2, ToldKeep DEF In
  <2> QED
    BY <2>2, <2>3 DEF IInv
<1>3. CASE ListAlerts(p)
  <2> DEFINE active == {a \in Alerts : alert[a] = "active"}
             q == [NoPass EXCEPT !.todo = active, !.step = "check"]
  <2>1. Turn(p, q) /\ UNCHANGED <<rows, call, faults, history>> /\ pass[p].step = "idle"
    BY <1>3 DEF ListAlerts, In
  <2>2. q \in PassRecord(p) /\ q.at = {}
    BY <1>1, NoPassIs DEF PassRecord, PassSteps
  <2> HIDE DEF q
  <2> QED
    BY <1>2, <2>1, <2>2
<1>4. ASSUME NEW a \in Alerts, CheckPrice(p, a) PROVE IInv'
  <2>1. PICK step \in {"check", "fire"} :
            Turn(p, [pass[p] EXCEPT !.todo = @ \ {a}, !.step = step,
                                    !.at = IF step = "fire" THEN {a} ELSE {}])
    BY <1>4 DEF CheckPrice
  <2> DEFINE at == IF step = "fire" THEN {a} ELSE {}
             q == [pass[p] EXCEPT !.todo = @ \ {a}, !.step = step, !.at = at]
  <2>2. Turn(p, q) /\ UNCHANGED <<rows, call, faults, history>> /\ pass[p].step = "check"
    BY <1>4, <2>1 DEF CheckPrice, In
  <2>3. at \subseteq Alerts /\ \A x, y \in at : x = y
    OBVIOUS
  <2> HIDE DEF at
  <2>4. pass[p].todo \ {a} \in SUBSET Alerts /\ step \in PassSteps
    BY <1>1 DEF PassSteps
  <2>5. q \in PassRecord(p) /\ q.at = at
    BY <1>1, <2>3, <2>4 DEF PassRecord
  <2> HIDE DEF q
  <2> QED
    BY <1>2, <2>2, <2>3, <2>5
<1>5. CASE EndAlerts(p)
  <2>1. Turn(p, NoPass) /\ UNCHANGED <<rows, call, faults, history>> /\ pass[p].step = "check"
    BY <1>5 DEF EndAlerts, In, StopPass
  <2> QED
    BY <1>2, <2>1, NoPassIs
<1>6. CASE FireAlert(p)
  <2>1. PICK a \in pass[p].at :
            IF alert[a] = "gone"
            THEN StopPass(p) /\ UNCHANGED alert
            ELSE /\ alert' = [alert EXCEPT ![a] = "triggered"]
                 /\ Turn(p, [pass[p] EXCEPT !.step = "mail"])
    BY <1>6 DEF FireAlert
  <2>2. /\ pass[p].step = "fire" /\ a \in Alerts
        /\ UNCHANGED <<plus, account, mail, call, faults, unlucky, overtaken, muddled>>
    BY <1>1, <1>6 DEF FireAlert, In, history
  <2>3. CASE alert[a] = "gone"
    <3>1. Turn(p, NoPass) /\ UNCHANGED <<rows, call, faults, history>>
      BY <1>6, <2>1, <2>3 DEF FireAlert, StopPass, rows
    <3> QED
      BY <1>2, <2>2, <3>1, NoPassIs
  <2>4. CASE alert[a] # "gone"
    <3> DEFINE q == [pass[p] EXCEPT !.step = "mail"]
    <3>1. Turn(p, q) /\ alert' = [alert EXCEPT ![a] = "triggered"]
      BY <2>1, <2>4
    <3>2. q \in PassRecord(p) /\ q.at = pass[p].at /\ q.step = "mail"
      BY <1>1 DEF PassRecord, PassSteps
    <3> HIDE DEF q
    <3>3. alert' \in [Alerts -> {"none", "active", "triggered", "gone"}]
      BY <1>1, <3>1
    <3>4. /\ TypeOK' /\ PlusInv' /\ DeletionInv'
          /\ pass'[p] = q /\ \A r \in Passes \ {p} : pass'[r] = pass[r]
      BY <1>1, <2>2, <3>1, <3>2, <3>3, AlertPassStep
    \* The pass that triggers an alert is the one that mails it.
    <3>5. ASSUME NEW b \in Alerts, alert'[b] = "triggered"
          PROVE  \/ <<"price", b>> \in mail' \cup unlucky'
                 \/ \E r \in Passes : In(r, "alerts", "mail")' /\ b \in pass'[r].at
      <4>1. CASE b = a
        BY <1>1, <2>1, <3>2, <3>4, <4>1 DEF In
      <4>2. CASE b # a
        <5>1. alert[b] = "triggered"
          BY <1>1, <3>1, <3>5, <4>2
        <5>2. \/ <<"price", b>> \in mail \cup unlucky
              \/ \E r \in Passes : In(r, "alerts", "mail") /\ b \in pass[r].at
          BY <1>1, <5>1 DEF EndsAreTold
        <5> QED
          BY <2>2, <3>4, <5>2 DEF In
      <4> QED
        BY <4>1, <4>2
    <3>6. EndsAreTold'
      BY <1>1, <2>2, <3>5 DEF EndsAreTold
    <3> QED
      BY <3>4, <3>6 DEF IInv
  <2> QED
    BY <2>3, <2>4
<1>7. CASE MailAlert(p)
  <2>1. PICK a \in pass[p].at : Enqueue(<<"price", a>>)
    BY <1>7 DEF MailAlert
  <2> DEFINE q == [pass[p] EXCEPT !.at = {}, !.step = "check"]
  <2>2. Turn(p, q) /\ UNCHANGED <<plus, alert, account, call, overtaken, muddled>>
    BY <1>7 DEF MailAlert
  <2>3. /\ mail \cup unlucky \subseteq mail' \cup unlucky' /\ <<"price", a>> \in mail' \cup unlucky'
        /\ faults' \in 0 .. MaxFaults
    BY <1>1, <2>1, EnqueueStep
  <2>4. q \in PassRecord(p) /\ q.at = {}
    BY <1>1 DEF PassRecord, PassSteps
  <2> HIDE DEF q
  <2>5. /\ TypeOK' /\ PlusInv' /\ DeletionInv'
        /\ pass'[p] = q /\ \A r \in Passes \ {p} : pass'[r] = pass[r]
    BY <1>1, <2>2, <2>3, <2>4, AlertPassStep
  <2>6. ASSUME NEW b \in Alerts, alert'[b] = "triggered"
        PROVE  \/ <<"price", b>> \in mail' \cup unlucky'
               \/ \E r \in Passes : In(r, "alerts", "mail")' /\ b \in pass'[r].at
    <3>1. \/ <<"price", b>> \in mail \cup unlucky
          \/ \E r \in Passes : In(r, "alerts", "mail") /\ b \in pass[r].at
      BY <1>1, <2>2, <2>6 DEF EndsAreTold
    <3>2. CASE b \in pass[p].at
      BY <1>1, <2>1, <2>3, <3>2
    <3>3. CASE b \notin pass[p].at
      BY <2>3, <2>5, <3>1, <3>3 DEF In
    <3> QED
      BY <3>2, <3>3
  <2>7. ASSUME NEW u \in Users, plus'[u].left = "lapsed", ~plus'[u].active
        PROVE  \/ <<"expired", <<u, plus'[u].period>>>> \in mail' \cup unlucky'
               \/ plus'[u].cancelled \/ u \in overtaken'
    BY <1>1, <2>2, <2>3, <2>7 DEF EndsAreTold
  <2>8. EndsAreTold'
    BY <2>6, <2>7 DEF EndsAreTold
  <2> QED
    BY <2>5, <2>8 DEF IInv
<1> QED
  BY <1>3, <1>4, <1>5, <1>6, <1>7

-------------------------------------------------------------------------------
(* Plus.                                                                   *)

PlusRow == [active : BOOLEAN, period : Nat, left : {"none", "running", "lapsed"},
            cancelled : BOOLEAN]

LEMMA PlusUserSafe ==
    ASSUME IInv, NEW u \in Users, ActivatePlus(u) \/ CancelPlus(u) \/ PeriodEnds(u)
    PROVE  IInv'
<1>1. /\ TypeOK /\ PlusInv /\ EndsAreTold /\ DeletionInv /\ plus \in [Users -> PlusRow]
      /\ PaidPeriodKeepsPlus /\ \A p \in Passes : SweepInv(p)
  BY DEF IInv, TypeOK, PlusRow, PlusInv
<1>2. /\ UNCHANGED <<alert, account, mail, pass, call, faults, unlucky, muddled>>
      /\ overtaken \subseteq overtaken'
  BY DEF ActivatePlus, CancelPlus, PeriodEnds, history
<1>3. /\ plus' \in [Users -> PlusRow] /\ \A v \in Users \ {u} : plus'[v] = plus[v]
      /\ plus[u].period \in Nat
  <2>1. CASE ActivatePlus(u)
    <3>1. plus[u].period + 1 \in Nat
      BY <1>1 DEF PlusRow
    <3> DEFINE r == [active |-> TRUE, period |-> plus[u].period + 1, left |-> "running", cancelled |-> FALSE]
    <3>2. r \in PlusRow /\ plus' = [plus EXCEPT ![u] = r]
      BY <2>1, <3>1 DEF PlusRow, ActivatePlus
    <3> HIDE DEF r
    <3> QED
      BY <1>1, <3>2 DEF PlusRow
  <2>2. CASE CancelPlus(u)
    BY <1>1, <2>2 DEF CancelPlus, PlusRow
  <2>3. CASE PeriodEnds(u)
    BY <1>1, <2>3 DEF PeriodEnds, PlusRow
  <2> QED
    BY <2>1, <2>2, <2>3
<1>4. TypeOK'
  BY <1>1, <1>2, <1>3 DEF TypeOK, PlusRow
<1>5. DeletionInv'
  BY <1>1, <1>2, DeletionKeep
<1>6. /\ plus'[u].left = "running" /\ ~plus'[u].active => plus'[u].cancelled \/ u \in overtaken'
      /\ plus'[u].left = "lapsed" /\ ~plus'[u].active =>
            \/ <<"expired", <<u, plus'[u].period>>>> \in mail \cup unlucky
            \/ plus'[u].cancelled \/ u \in overtaken'
  <2>1. CASE ActivatePlus(u)
    BY <1>1, <2>1 DEF ActivatePlus, PlusRow
  <2>2. CASE CancelPlus(u)
    BY <1>1, <2>2 DEF CancelPlus, PlusRow
  <2>3. CASE PeriodEnds(u)
    <3>1. plus' = [plus EXCEPT ![u].left = "lapsed"] /\ plus[u].left = "running" /\ overtaken' = overtaken
      BY <2>3 DEF PeriodEnds, history
    <3>2. plus'[u] = [plus[u] EXCEPT !.left = "lapsed"]
      BY <1>1, <3>1
    <3>3. plus'[u].left = "lapsed" /\ plus'[u].active = plus[u].active /\ plus'[u].cancelled = plus[u].cancelled
      BY <1>1, <3>2 DEF PlusRow
    <3> QED
      BY <1>1, <3>1, <3>3 DEF PaidPeriodKeepsPlus
  <2> QED
    BY <2>1, <2>2, <2>3
<1>7. EndsAreTold'
  BY <1>1, <1>2, <1>3, <1>6 DEF EndsAreTold, In
<1>8. PaidPeriodKeepsPlus'
  BY <1>1, <1>2, <1>3, <1>6 DEF PaidPeriodKeepsPlus
<1>9. ASSUME NEW p \in Passes PROVE SweepInv(p)'
  <2> SUFFICES ASSUME Job[p] = "plus", pass[p].step # "remind",
                      NEW k \in pass[p].todo \cup pass[p].at, k[1] \notin overtaken'
               PROVE  plus'[k[1]].left = "lapsed" /\ plus'[k[1]].period = k[2]
    BY <1>1, <1>2 DEF SweepInv, Told
  <2>1. k[1] \in Users
    BY <1>1, PassIs DEF Items
  <2>2. plus[k[1]].left = "lapsed" /\ plus[k[1]].period = k[2]
    BY <1>1, <1>2 DEF SweepInv
  <2>3. k[1] # u \/ (plus'[u].left = plus[u].left /\ plus'[u].period = plus[u].period)
    <3>1. CASE ActivatePlus(u)
      <4>1. k[1] # u
        BY <3>1 DEF ActivatePlus
      <4> QED
        BY <4>1
    <3>2. CASE PeriodEnds(u)
      BY <2>2, <3>2 DEF PeriodEnds
    <3>3. CASE CancelPlus(u)
      BY <1>1, <3>3 DEF CancelPlus, PlusRow
    <3> QED
      BY <3>1, <3>2, <3>3
  <2> QED
    BY <1>3, <2>1, <2>2, <2>3
<1> QED
  BY <1>4, <1>5, <1>7, <1>8, <1>9 DEF IInv, PlusInv

LEMMA SweepStep ==
    ASSUME IInv, NEW p \in Passes, Job[p] = "plus", NEW q \in PassRecord(p), Turn(p, q),
           \A x, y \in q.at : x = y,
           UNCHANGED <<alert, account, call, overtaken, muddled>>, faults' \in 0 .. MaxFaults,
           plus' \in [Users -> PlusRow]
    PROVE  /\ TypeOK' /\ DeletionInv'
           /\ pass'[p] = q /\ \A r \in Passes \ {p} : pass'[r] = pass[r]
<1>1. TypeOK /\ DeletionInv
  BY DEF IInv
<1>2. /\ pass'[p] = q /\ \A r \in Passes \ {p} : pass'[r] = pass[r]
      /\ DOMAIN pass' = Passes
      /\ \A r \in Passes : pass'[r] \in PassRecord(r) /\ \A x, y \in pass'[r].at : x = y
  BY <1>1, TurnStep
<1>3. TypeOK'
  BY <1>1, <1>2 DEF TypeOK, PassRecord, PlusRow
<1>4. DeletionInv'
  BY <1>1, <1>2, DeletionKeep
<1> QED
  BY <1>2, <1>3, <1>4

LEMMA SweepSafe ==
    ASSUME IInv, NEW p \in Passes,
           \/ ListRenewing(p) \/ ListLapsed(p) \/ ClearPlus(p) \/ EndSweep(p)
           \/ \E k \in pass[p].todo : Remind(p, k) \/ MailExpiry(p, k)
    PROVE  IInv'
<1>1. /\ TypeOK /\ EndsAreTold /\ pass[p] \in PassRecord(p) /\ faults \in 0 .. MaxFaults
      /\ plus \in [Users -> PlusRow]
      /\ pass[p].todo \subseteq Users \X Nat /\ pass[p].at \subseteq Users \X Nat
      /\ \A x, y \in pass[p].at : x = y
      /\ Job[p] = "plus" /\ Items(Job[p]) = Users \X Nat
      /\ PaidPeriodKeepsPlus /\ \A r \in Passes : SweepInv(r)
  BY PassIs DEF IInv, TypeOK, PlusRow, PlusInv, ListRenewing, ListLapsed, ClearPlus, EndSweep,
                Remind, MailExpiry, In, Items
<1>2. \A left : Members(left) \subseteq Users \X Nat
  BY <1>1 DEF Members, PlusRow
\* Only the list changes.
<1>3. ASSUME NEW q \in PassRecord(p), Turn(p, q), \A x, y \in q.at : x = y,
             UNCHANGED <<rows, call, history>>, faults' \in 0 .. MaxFaults, q.at = {},
             \/ q.step = "remind" \/ q = NoPass
             \/ q.step = "expire" /\ q.todo = Members("lapsed")
      PROVE  IInv'
  <2>1. UNCHANGED <<plus, alert, account, mail, call, unlucky, overtaken, muddled>>
    BY <1>3 DEF rows, history
  <2>2. /\ TypeOK' /\ DeletionInv'
        /\ pass'[p] = q /\ \A r \in Passes \ {p} : pass'[r] = pass[r]
    BY <1>1, <1>3, <2>1, SweepStep
  <2>3. EndsAreTold'
    BY <1>1, <2>1, <2>2, ToldKeep DEF In
  <2>4. SweepInv(p)'
    <3>1. CASE q.step = "remind"
      BY <1>3, <2>2, <3>1 DEF SweepInv
    <3>2. CASE q = NoPass
      BY <2>2, <3>2, NoPassIs DEF SweepInv
    <3>3. CASE q.step = "expire" /\ q.todo = Members("lapsed")
      <4>1. \A k \in Members("lapsed") : plus[k[1]].left = "lapsed" /\ plus[k[1]].period = k[2]
        BY DEF Members
      <4> QED
        BY <1>3, <2>1, <2>2, <3>3, <4>1 DEF SweepInv
    <3> QED
      BY <1>3, <3>1, <3>2, <3>3
  <2>5. \A r \in Passes \ {p} : SweepInv(r)'
    BY <1>1, <2>1, <2>2 DEF SweepInv, Told
  <2>6. PaidPeriodKeepsPlus'
    BY <1>1, <2>1 DEF PaidPeriodKeepsPlus
  <2> QED
    BY <2>2, <2>3, <2>4, <2>5, <2>6 DEF IInv, PlusInv
<1>4. CASE ListRenewing(p)
  <2>1. PICK renewing \in SUBSET Members("running") :
            Turn(p, [NoPass EXCEPT !.todo = renewing, !.step = "remind"])
    BY <1>4 DEF ListRenewing
  <2> DEFINE q == [NoPass EXCEPT !.todo = renewing, !.step = "remind"]
  <2>2. q \in PassRecord(p) /\ q.at = {} /\ q.step = "remind" /\ Turn(p, q)
    BY <1>1, <1>2, <2>1, NoPassIs DEF PassRecord, PassSteps
  <2> HIDE DEF q
  <2> QED
    BY <1>1, <1>3, <1>4, <2>2 DEF ListRenewing
<1>5. ASSUME NEW k \in pass[p].todo, Remind(p, k) PROVE IInv'
  <2> DEFINE q == [pass[p] EXCEPT !.todo = @ \ {k}]
  <2>1. /\ pass[p].step = "remind" /\ UNCHANGED <<rows, call, history>>
        /\ Turn(p, q) \/ Turn(p, NoPass)
        /\ faults' \in 0 .. MaxFaults
    BY <1>1, <1>5, HousekeepingAssumption DEF Remind, In, Fault, StopPass
  <2>2. q \in PassRecord(p) /\ q.at = {} /\ q.step = "remind"
    BY <1>1, <2>1 DEF PassRecord, SweepInv
  <2> HIDE DEF q
  <2> QED
    BY <1>1, <1>3, <2>1, <2>2, NoPassIs
<1>6. CASE ListLapsed(p)
  <2> DEFINE q == [pass[p] EXCEPT !.todo = Members("lapsed"), !.step = "expire"]
  <2>1. Turn(p, q) /\ UNCHANGED <<rows, call, faults, history>> /\ pass[p].step = "remind"
    BY <1>6 DEF ListLapsed, In
  <2>2. q \in PassRecord(p) /\ q.at = pass[p].at /\ q.step = "expire" /\ q.todo = Members("lapsed")
    BY <1>1, <1>2 DEF PassRecord, PassSteps
  <2>3. pass[p].at = {}
    BY <1>1, <2>1 DEF SweepInv
  <2> HIDE DEF q
  <2> QED
    BY <1>1, <1>3, <2>1, <2>2, <2>3
<1>7. CASE EndSweep(p)
  BY <1>1, <1>3, <1>7, NoPassIs DEF EndSweep, StopPass
<1>8. ASSUME NEW k \in pass[p].todo, MailExpiry(p, k) PROVE IInv'
  <2> DEFINE q == [pass[p] EXCEPT !.todo = @ \ {k}, !.at = {k}, !.step = "clear"]
  <2>1. /\ Turn(p, q) /\ pass[p].step = "expire" /\ Enqueue(<<"expired", k>>)
        /\ UNCHANGED <<plus, alert, account, call, overtaken, muddled>>
    BY <1>8 DEF MailExpiry, In
  <2>2. /\ mail \cup unlucky \subseteq mail' \cup unlucky' /\ <<"expired", k>> \in mail' \cup unlucky'
        /\ faults' \in 0 .. MaxFaults
    BY <1>1, <2>1, EnqueueStep
  <2>3. q \in PassRecord(p) /\ q.at = {k} /\ q.step = "clear" /\ q.todo = pass[p].todo \ {k}
    BY <1>1 DEF PassRecord, PassSteps
  <2> HIDE DEF q
  <2>4. /\ TypeOK' /\ DeletionInv'
        /\ pass'[p] = q /\ \A r \in Passes \ {p} : pass'[r] = pass[r]
    BY <1>1, <2>1, <2>2, <2>3, SweepStep
  <2>5. EndsAreTold'
    BY <1>1, <2>1, <2>2, <2>4, ToldKeep DEF In
  <2>6. SweepInv(p)'
    BY <1>1, <2>1, <2>2, <2>3, <2>4 DEF SweepInv, Told
  <2>7. \A r \in Passes \ {p} : SweepInv(r)'
    BY <1>1, <2>1, <2>2, <2>4 DEF SweepInv, Told
  <2>8. PaidPeriodKeepsPlus'
    BY <1>1, <2>1 DEF PaidPeriodKeepsPlus
  <2> QED
    BY <2>4, <2>5, <2>6, <2>7, <2>8 DEF IInv, PlusInv
<1>9. CASE ClearPlus(p)
  <2>1. PICK k \in pass[p].at : plus' = [plus EXCEPT ![k[1]].active = FALSE]
    BY <1>9 DEF ClearPlus
  <2> DEFINE q == [pass[p] EXCEPT !.at = {}, !.step = "expire"]
  <2>2. /\ Turn(p, q) /\ pass[p].step = "clear"
        /\ UNCHANGED <<alert, account, mail, call, faults, unlucky, overtaken, muddled>>
    BY <1>9 DEF ClearPlus, In, history
  <2>3. q \in PassRecord(p) /\ q.at = {} /\ q.step = "expire" /\ q.todo = pass[p].todo
    BY <1>1 DEF PassRecord, PassSteps
  <2> HIDE DEF q
  <2>4. k[1] \in Users /\ k = <<k[1], k[2]>>
    BY <1>1
  <2>5. PICK u \in Users : u = k[1]
    BY <2>4
  <2>6. /\ plus' \in [Users -> PlusRow] /\ \A v \in Users \ {u} : plus'[v] = plus[v]
        /\ plus'[u].left = plus[u].left /\ plus'[u].period = plus[u].period
        /\ plus'[u].cancelled = plus[u].cancelled
    BY <1>1, <2>1, <2>5 DEF PlusRow
  \* Whose flag is cleared has lapsed and was told, or was overtaken.
  <2>7. /\ u \in overtaken \/ (plus[u].left = "lapsed" /\ plus[u].period = k[2])
        /\ <<"expired", k>> \in mail \cup unlucky
    BY <1>1, <2>2, <2>5 DEF SweepInv, Told
  <2>8. /\ TypeOK' /\ DeletionInv'
        /\ pass'[p] = q /\ \A r \in Passes \ {p} : pass'[r] = pass[r]
    BY <1>1, <2>2, <2>3, <2>6, SweepStep
  <2>9. EndsAreTold'
    <3>1. ASSUME NEW a \in Alerts, alert'[a] = "triggered"
          PROVE  \/ <<"price", a>> \in mail' \cup unlucky'
                 \/ \E r \in Passes : In(r, "alerts", "mail")' /\ a \in pass'[r].at
      BY <1>1, <2>2, <2>8, <3>1 DEF EndsAreTold, In
    <3>2. ASSUME NEW v \in Users, plus'[v].left = "lapsed", ~plus'[v].active
          PROVE  \/ <<"expired", <<v, plus'[v].period>>>> \in mail' \cup unlucky'
                 \/ plus'[v].cancelled \/ v \in overtaken'
      <4>1. CASE v = u
        BY <2>2, <2>4, <2>5, <2>6, <2>7, <4>1
      <4>2. CASE v # u
        BY <1>1, <2>2, <2>6, <3>2, <4>2 DEF EndsAreTold
      <4> QED
        BY <4>1, <4>2
    <3> QED
      BY <3>1, <3>2 DEF EndsAreTold
  <2>10. PaidPeriodKeepsPlus'
    BY <1>1, <2>2, <2>6, <2>7 DEF PaidPeriodKeepsPlus
  <2>11. ASSUME NEW r \in Passes PROVE SweepInv(r)'
    <3>1. \A j : plus[j[1]].left = "lapsed" /\ plus[j[1]].period = j[2] /\ j[1] \in Users =>
              plus'[j[1]].left = "lapsed" /\ plus'[j[1]].period = j[2]
      BY <2>6
    <3>2. ASSUME Job[r] = "plus" PROVE \A j \in pass[r].todo \cup pass[r].at : j[1] \in Users
      BY <1>1, <3>2, PassIs DEF Items
    <3>3. CASE r = p
      BY <1>1, <2>2, <2>3, <2>8, <3>1, <3>2, <3>3 DEF SweepInv
    <3>4. CASE r # p
      BY <1>1, <2>2, <2>8, <3>1, <3>2, <3>4 DEF SweepInv, Told
    <3> QED
      BY <3>3, <3>4
  <2> QED
    BY <2>8, <2>9, <2>10, <2>11 DEF IInv, PlusInv
<1> QED
  BY <1>4, <1>5, <1>6, <1>7, <1>8, <1>9

-------------------------------------------------------------------------------
(* Deletions.                                                              *)

AccountRow == [schedule : {"no", "waiting", "due"}, deleted : BOOLEAN, requests : Nat]

\* A step of a call, the calendar or the erasing job leaves the other loops alone.
LEMMA DeletionStep ==
    ASSUME IInv, UNCHANGED <<plus, mail, unlucky, overtaken>>,
           account' \in [Users -> AccountRow], call' \in [Calls -> CallRecord],
           alert' \in [Alerts -> {"none", "active", "triggered", "gone"}],
           \A a \in Alerts : alert'[a] = "triggered" => alert[a] = "triggered",
           \A p \in Passes : Job[p] # "deletions" => pass'[p] = pass[p],
           DOMAIN pass' = Passes, faults' \in 0 .. MaxFaults,
           \A p \in Passes : pass'[p] \in PassRecord(p) /\ \A x, y \in pass'[p].at : x = y,
           DeletionInv'
    PROVE  IInv'
<1>1. TypeOK /\ PlusInv /\ EndsAreTold
  BY DEF IInv
<1>2. TypeOK'
  BY <1>1 DEF TypeOK, PassRecord, CallRecord, AccountRow
<1>3. PlusInv'
  BY <1>1, PlusKeep
<1>4. EndsAreTold'
  BY <1>1, ToldKeep DEF In
<1> QED
  BY <1>2, <1>3, <1>4 DEF IInv

\* One call moves its own account, and stays a call about that account until it
\* is answered with the account in order.
LEMMA CallMoves ==
    ASSUME IInv, NEW c \in Calls, call[c].step # "idle", NEW u \in Users, call[c].user = u,
           NEW row \in AccountRow, account' = [account EXCEPT ![u] = row],
           NEW q \in CallRecord, call' = [call EXCEPT ![c] = q],
           UNCHANGED <<plus, alert, mail, pass, faults, history>>,
           \/ q.user = u /\ q.step # "idle"
           \/ q = NoCall /\ (u \notin muddled => row.requests = (IF row.schedule = "no" THEN 0 ELSE 1)),
           u \notin muddled /\ q.user = u /\ q.step # "idle" => HalfWay(c)'
    PROVE  IInv'
<1>1. /\ TypeOK /\ DeletionInv /\ account \in [Users -> AccountRow]
      /\ alert \in [Alerts -> {"none", "active", "triggered", "gone"}] /\ faults \in 0 .. MaxFaults
      /\ DOMAIN pass = Passes
      /\ \A p \in Passes : pass[p] \in PassRecord(p) /\ \A x, y \in pass[p].at : x = y
  BY DEF IInv, TypeOK, AccountRow, PassRecord
<1>2. /\ call' \in [Calls -> CallRecord] /\ call'[c] = q /\ \A d \in Calls \ {c} : call'[d] = call[d]
  BY <1>1, CallStepIs
<1>3. /\ account' \in [Users -> AccountRow] /\ account'[u] = row
      /\ \A v \in Users \ {u} : account'[v] = account[v]
  BY <1>1
<1>4. UNCHANGED <<plus, alert, mail, pass, faults, unlucky, overtaken, muddled>>
  BY DEF history
<1>5. ASSUME NEW v \in Users \ muddled
      PROVE  /\ Alone(v)' /\ (UnderWay(v)' \/ Matches(v)')
             /\ \A d \in Calls : call'[d].user = v => HalfWay(d)'
             /\ \A p \in Passes : Job[p] = "deletions" /\ v \in pass[p].todo =>
                   account'[v].schedule = "due" /\ Matches(v)'
  <2>1. /\ Alone(v) /\ (UnderWay(v) \/ Matches(v))
        /\ \A d \in Calls : call[d].user = v => HalfWay(d)
        /\ \A p \in Passes : Job[p] = "deletions" /\ v \in pass[p].todo =>
              account[v].schedule = "due" /\ Matches(v)
    BY <1>1, <1>5 DEF DeletionInv
  <2>2. \A d \in Calls : call'[d].step # "idle" /\ call'[d].user = v =>
            call[d].step # "idle" /\ call[d].user = v
    BY <1>2, NoCallIs
  <2>3. Alone(v)'
    BY <1>4, <2>1, <2>2 DEF Alone
  <2>4. ASSUME NEW d \in Calls, call'[d].step = "idle" PROVE HalfWay(d)'
    BY <2>4 DEF HalfWay
  <2>5. CASE v = u
    \* Nothing else is at work on the account.
    <3>1. \A d \in Calls \ {c} : ~(call[d].step # "idle" /\ call[d].user = u)
      BY <2>1, <2>5 DEF Alone
    <3>2. \A p \in Passes : ~(Job[p] = "deletions" /\ u \in pass[p].todo)
      BY <2>1, <2>5 DEF Alone
    <3>3. UnderWay(v)' \/ Matches(v)'
      <4>1. CASE q.user = u /\ q.step # "idle"
        BY <1>2, <2>5, <4>1 DEF UnderWay
      <4>2. CASE row.requests = (IF row.schedule = "no" THEN 0 ELSE 1)
        BY <1>3, <2>5, <4>2 DEF Matches
      <4> QED
        BY <1>5, <2>5, <4>1, <4>2
    <3>4. ASSUME NEW d \in Calls, call'[d].user = v PROVE HalfWay(d)'
      <4>1. CASE call'[d].step = "idle"
        BY <2>4, <4>1
      <4>2. CASE call'[d].step # "idle"
        <5>1. d = c
          BY <1>2, <2>5, <3>1, <3>4, <4>2
        <5> QED
          BY <1>2, <1>5, <2>5, <3>4, <4>2, <5>1
      <4> QED
        BY <4>1, <4>2
    <3> QED
      BY <2>3, <2>5, <3>2, <3>3, <3>4
  <2>6. CASE v # u
    <3>1. account'[v] = account[v] /\ (Matches(v)' <=> Matches(v))
      BY <1>3, <1>5, <2>6 DEF Matches
    <3>2. UnderWay(v)' \/ ~UnderWay(v)
      BY <1>2, <1>4, <2>6 DEF UnderWay
    <3>3. ASSUME NEW d \in Calls, call'[d].user = v PROVE HalfWay(d)'
      <4>1. CASE call'[d].step = "idle"
        BY <2>4, <4>1
      <4>2. CASE call'[d].step # "idle"
        <5>1. call'[d] = call[d]
          BY <1>2, <2>6, <3>3, <4>2, NoCallIs
        <5>2. HalfWay(d)
          BY <2>1, <3>3, <5>1
        <5> QED
          BY <3>1, <3>3, <5>1, <5>2 DEF HalfWay, Matches
      <4> QED
        BY <4>1, <4>2
    <3> QED
      BY <2>1, <2>3, <3>1, <3>2, <3>3
  <2> QED
    BY <2>5, <2>6
<1>6. DeletionInv'
  BY <1>4, <1>5 DEF DeletionInv
<1> QED
  BY <1>1, <1>2, <1>3, <1>4, <1>6, DeletionStep

LEMMA CallStepSafe ==
    ASSUME IInv, NEW c \in Calls, CallStep(c)
    PROVE  IInv'
<1>1. /\ TypeOK /\ DeletionInv /\ account \in [Users -> AccountRow] /\ call \in [Calls -> CallRecord]
  BY DEF IInv, TypeOK, AccountRow, CallRecord
<1>2. PICK u \in Users : u = call[c].user
  BY <1>1 DEF CallRecord
<1>3. call[c] \in CallRecord /\ account[u] \in AccountRow /\ account[u].requests \in Nat
      /\ account[u].schedule \in {"no", "waiting", "due"}
  BY <1>1, <1>2 DEF AccountRow
<1>4. u \notin muddled => HalfWay(c)
  BY <1>1, <1>2 DEF DeletionInv
<1>5. UNCHANGED <<plus, alert, mail, pass, faults, history>>
  BY DEF CallStep, ReadSchedule, FindRequest, CreateRequest, Schedule, CloseRequests, Unschedule, rows
\* The call goes on to its next step.
<1>6. ASSUME NEW step \in CallSteps \ {"idle"}, Become(c, step), call[c].step # "idle",
             NEW row \in AccountRow, account' = [account EXCEPT ![u] = row],
             u \notin muddled =>
                 /\ step = "find" \/ step = "create" => row.requests = 0 /\ row.schedule = "no"
                 /\ step = "schedule" => row.requests = 1 /\ row.schedule = "no"
                 /\ step = "unschedule" => row.requests = 0,
             step \notin {"read", "close"}
      PROVE  IInv'
  <2> DEFINE q == [call[c] EXCEPT !.step = step]
  <2>1. q \in CallRecord /\ q.user = u /\ q.step = step /\ call' = [call EXCEPT ![c] = q]
    BY <1>2, <1>3, <1>6 DEF CallRecord, Become
  <2> HIDE DEF q
  <2>2. call'[c] = q /\ account'[u] = row
    BY <1>1, <1>6, <2>1
  <2>3. u \notin muddled => HalfWay(c)'
    BY <1>6, <2>1, <2>2 DEF HalfWay
  <2> QED
    BY <1>2, <1>5, <1>6, <2>1, <2>3, CallMoves
\* The call is answered.
<1>7. ASSUME Answer(c), call[c].step # "idle",
             NEW row \in AccountRow, account' = [account EXCEPT ![u] = row],
             u \notin muddled => row.requests = (IF row.schedule = "no" THEN 0 ELSE 1)
      PROVE  IInv'
  BY <1>2, <1>5, <1>7, NoCallIs, CallMoves DEF Answer
<1>8. account = [account EXCEPT ![u] = account[u]]
  BY <1>1
<1>9. CASE ReadSchedule(c)
  <2>1. /\ call[c].step = "read" /\ account' = account
        /\ IF account[u].schedule # "no" \/ account[u].deleted THEN Answer(c) ELSE Become(c, "find")
    BY <1>2, <1>9 DEF ReadSchedule, CallAt, rows
  <2>2. u \notin muddled => account[u].requests = (IF account[u].schedule = "no" THEN 0 ELSE 1)
    BY <1>2, <1>4, <2>1 DEF HalfWay, Matches
  <2>3. CASE account[u].schedule # "no" \/ account[u].deleted
    BY <1>3, <1>7, <1>8, <2>1, <2>2, <2>3
  <2>4. CASE ~(account[u].schedule # "no" \/ account[u].deleted)
    BY <1>3, <1>6, <1>8, <2>1, <2>2, <2>4 DEF CallSteps
  <2> QED
    BY <2>3, <2>4
<1>10. CASE FindRequest(c)
  <2>1. /\ call[c].step = "find" /\ account' = account
        /\ Become(c, IF account[u].requests > 0 THEN "schedule" ELSE "create")
    BY <1>2, <1>10 DEF FindRequest, CallAt, rows
  <2>2. u \notin muddled => account[u].requests = 0 /\ account[u].schedule = "no"
    BY <1>2, <1>4, <2>1 DEF HalfWay
  <2>3. CASE account[u].requests > 0
    BY <1>3, <1>6, <1>8, <2>1, <2>2, <2>3 DEF CallSteps
  <2>4. CASE ~(account[u].requests > 0)
    BY <1>3, <1>6, <1>8, <2>1, <2>2, <2>4 DEF CallSteps
  <2> QED
    BY <2>3, <2>4
<1>11. CASE CreateRequest(c)
  <2> DEFINE row == [account[u] EXCEPT !.requests = account[u].requests + 1]
  <2>1. /\ call[c].step = "create" /\ account' = [account EXCEPT ![u] = row] /\ Become(c, "schedule")
    BY <1>2, <1>11 DEF CreateRequest, CallAt, SetAccount
  <2>2. /\ row \in AccountRow /\ row.requests = account[u].requests + 1
        /\ row.schedule = account[u].schedule
    BY <1>3 DEF AccountRow
  <2>3. u \notin muddled => account[u].requests = 0 /\ account[u].schedule = "no"
    BY <1>2, <1>4, <2>1 DEF HalfWay
  <2>4. "schedule" \in CallSteps \ {"idle"}
    BY DEF CallSteps
  <2> HIDE DEF row
  <2>5. u \notin muddled => row.requests = 1 /\ row.schedule = "no"
    BY <2>2, <2>3
  <2> QED
    BY <1>6, <2>1, <2>2, <2>4, <2>5
<1>12. CASE Schedule(c)
  <2> DEFINE row == [account[u] EXCEPT !.schedule = "waiting"]
  <2>1. /\ call[c].step = "schedule" /\ account' = [account EXCEPT ![u] = row] /\ Answer(c)
    BY <1>2, <1>12 DEF Schedule, CallAt, SetAccount
  <2>2. row \in AccountRow /\ row.requests = account[u].requests /\ row.schedule = "waiting"
    BY <1>3 DEF AccountRow
  <2>3. u \notin muddled => account[u].requests = 1
    BY <1>2, <1>4, <2>1 DEF HalfWay
  <2> HIDE DEF row
  <2> QED
    BY <1>7, <2>1, <2>2, <2>3
<1>13. CASE CloseRequests(c)
  <2> DEFINE row == [account[u] EXCEPT !.requests = 0]
  <2>1. /\ call[c].step = "close" /\ account' = [account EXCEPT ![u] = row] /\ Become(c, "unschedule")
    BY <1>2, <1>13 DEF CloseRequests, CallAt, SetAccount
  <2>2. row \in AccountRow /\ row.requests = 0
    BY <1>3 DEF AccountRow
  <2>3. "unschedule" \in CallSteps \ {"idle"}
    BY DEF CallSteps
  <2> HIDE DEF row
  <2> QED
    BY <1>6, <2>1, <2>2, <2>3
<1>14. CASE Unschedule(c)
  <2> DEFINE row == [account[u] EXCEPT !.schedule = "no"]
  <2>1. /\ call[c].step = "unschedule" /\ account' = [account EXCEPT ![u] = row] /\ Answer(c)
    BY <1>2, <1>14 DEF Unschedule, CallAt, SetAccount
  <2>2. row \in AccountRow /\ row.requests = account[u].requests /\ row.schedule = "no"
    BY <1>3 DEF AccountRow
  <2>3. u \notin muddled => account[u].requests = 0
    BY <1>2, <1>4, <2>1 DEF HalfWay
  <2> HIDE DEF row
  <2> QED
    BY <1>7, <2>1, <2>2, <2>3
<1> QED
  BY <1>9, <1>10, <1>11, <1>12, <1>13, <1>14 DEF CallStep

\* A call begins: it is alone with its account, or its user is marked.
LEMMA BeginSafe ==
    ASSUME IInv, NEW c \in Calls, NEW u \in Users, AskDeletion(c, u) \/ CancelDeletion(c, u)
    PROVE  IInv'
<1>1. /\ TypeOK /\ DeletionInv /\ account \in [Users -> AccountRow]
      /\ alert \in [Alerts -> {"none", "active", "triggered", "gone"}] /\ faults \in 0 .. MaxFaults
      /\ DOMAIN pass = Passes
      /\ \A p \in Passes : pass[p] \in PassRecord(p) /\ \A x, y \in pass[p].at : x = y
  BY DEF IInv, TypeOK, AccountRow, PassRecord
<1>2. PICK q \in CallRecord :
          /\ q.user = u /\ q.step \in {"read", "close"}
          /\ call' = [call EXCEPT ![c] = q] /\ call[c].step = "idle" /\ Muddle(u)
          /\ UNCHANGED <<rows, pass, faults, unlucky, overtaken>>
  <2>1. ASSUME NEW op \in {"ask", "cancel"}, NEW step \in {"read", "close"}, Begin(c, u, op, step)
        PROVE  \E q \in CallRecord :
                  /\ q.user = u /\ q.step \in {"read", "close"}
                  /\ call' = [call EXCEPT ![c] = q] /\ call[c].step = "idle" /\ Muddle(u)
                  /\ UNCHANGED <<rows, pass, faults, unlucky, overtaken>>
    <3> DEFINE q == [op |-> op, user |-> u, step |-> step]
    <3>1. q \in CallRecord /\ q.user = u /\ q.step \in {"read", "close"}
      BY DEF CallRecord, CallSteps
    <3>2. call' = [call EXCEPT ![c] = q]
      BY <2>1 DEF Begin
    <3>3. call[c].step = "idle" /\ Muddle(u) /\ UNCHANGED <<rows, pass, faults, unlucky, overtaken>>
      BY <2>1 DEF Begin, CallAt
    <3> HIDE DEF q
    <3> QED
      BY <3>1, <3>2, <3>3
  <2> QED
    BY <2>1 DEF AskDeletion, CancelDeletion
<1>3. /\ call' \in [Calls -> CallRecord] /\ call'[c] = q /\ \A d \in Calls \ {c} : call'[d] = call[d]
  BY <1>1, <1>2, CallStepIs
<1>4. UNCHANGED <<plus, alert, account, mail, pass, faults, unlucky, overtaken>>
  BY <1>2 DEF rows
<1>5. muddled \subseteq muddled' /\ (u \notin muddled' => ~UnderWay(u))
  BY <1>2 DEF Muddle
<1>6. ASSUME NEW v \in Users \ muddled'
      PROVE  /\ Alone(v)' /\ (UnderWay(v)' \/ Matches(v)')
             /\ \A d \in Calls : call'[d].user = v => HalfWay(d)'
             /\ \A p \in Passes : Job[p] = "deletions" /\ v \in pass[p].todo =>
                   account'[v].schedule = "due" /\ Matches(v)'
  <2>1. /\ Alone(v) /\ (UnderWay(v) \/ Matches(v))
        /\ \A d \in Calls : call[d].user = v => HalfWay(d)
        /\ \A p \in Passes : Job[p] = "deletions" /\ v \in pass[p].todo =>
              account[v].schedule = "due" /\ Matches(v)
    BY <1>1, <1>5, <1>6 DEF DeletionInv
  <2>2. Matches(v)' <=> Matches(v)
    BY <1>4 DEF Matches
  <2>3. ASSUME NEW d \in Calls, call'[d].user = v PROVE HalfWay(d)'
    <3>1. CASE d = c
      <4>1. v = u /\ Matches(v)
        BY <1>2, <1>3, <1>5, <1>6, <2>1, <2>3, <3>1
      <4>2. call'[d].step \in {"read", "close"} /\ call'[d].user = v
        BY <1>2, <1>3, <2>3, <3>1
      <4> QED
        BY <2>2, <4>1, <4>2 DEF HalfWay
    <3>2. CASE d # c
      <4>1. call'[d] = call[d] /\ HalfWay(d)
        BY <1>3, <2>1, <2>3, <3>2
      <4> QED
        BY <1>4, <4>1 DEF HalfWay, Matches
    <3> QED
      BY <3>1, <3>2
  <2>4. Alone(v)'
    <3>1. CASE v = u
      <4>1. ~UnderWay(u)
        BY <1>5, <1>6, <3>1
      <4> QED
        BY <1>3, <1>4, <3>1, <4>1 DEF Alone, UnderWay
    <3>2. CASE v # u
      BY <1>2, <1>3, <1>4, <2>1, <3>2 DEF Alone
    <3> QED
      BY <3>1, <3>2
  <2>5. UnderWay(v)' \/ Matches(v)'
    <3>1. UnderWay(v) => UnderWay(v)'
      <4>1. \A d \in Calls : call[d].step # "idle" => call'[d] = call[d]
        BY <1>2, <1>3
      <4> QED
        BY <1>4, <4>1 DEF UnderWay
    <3> QED
      BY <2>1, <2>2, <3>1
  <2> QED
    BY <1>4, <2>1, <2>2, <2>3, <2>4, <2>5
<1>7. DeletionInv'
  BY <1>4, <1>6 DEF DeletionInv
<1> QED
  BY <1>1, <1>3, <1>4, <1>7, DeletionStep

\* The grace period of an account ends when nothing is under way for it.
LEMMA GraceSafe ==
    ASSUME IInv, NEW u \in Users, GraceEnds(u)
    PROVE  IInv'
<1>1. /\ TypeOK /\ DeletionInv /\ account \in [Users -> AccountRow] /\ call \in [Calls -> CallRecord]
      /\ alert \in [Alerts -> {"none", "active", "triggered", "gone"}] /\ faults \in 0 .. MaxFaults
      /\ DOMAIN pass = Passes
      /\ \A p \in Passes : pass[p] \in PassRecord(p) /\ \A x, y \in pass[p].at : x = y
  BY DEF IInv, TypeOK, AccountRow, PassRecord, CallRecord
<1>2. /\ account[u].schedule = "waiting" /\ ~UnderWay(u)
      /\ account' = [account EXCEPT ![u].schedule = "due"]
      /\ UNCHANGED <<plus, alert, mail, pass, call, faults, unlucky, overtaken, muddled>>
  BY DEF GraceEnds, SetAccount, history
<1>3. /\ account' \in [Users -> AccountRow] /\ \A v \in Users \ {u} : account'[v] = account[v]
      /\ account'[u].schedule = "due" /\ account'[u].requests = account[u].requests
  BY <1>1, <1>2 DEF AccountRow
<1>4. \A v \in Users : (Matches(v)' <=> Matches(v)) /\ (UnderWay(v)' <=> UnderWay(v))
                       /\ (Alone(v)' <=> Alone(v))
  BY <1>2, <1>3 DEF Matches, UnderWay, Alone
<1>5. ASSUME NEW c \in Calls, HalfWay(c) PROVE HalfWay(c)'
  <2>1. call[c].user \in Users
    BY <1>1 DEF CallRecord
  <2>2. CASE call[c].user = u
    <3>1. call[c].step = "idle"
      BY <1>2, <2>2 DEF UnderWay
    <3> QED
      BY <1>2, <3>1 DEF HalfWay
  <2>3. CASE call[c].user # u
    BY <1>2, <1>3, <1>4, <1>5, <2>1, <2>3 DEF HalfWay
  <2> QED
    BY <2>2, <2>3
<1>6. \A p \in Passes : Job[p] = "deletions" => u \notin pass[p].todo
  BY <1>2 DEF UnderWay
<1>7. DeletionInv'
  BY <1>1, <1>2, <1>3, <1>4, <1>5, <1>6 DEF DeletionInv
<1> QED
  BY <1>1, <1>2, <1>3, <1>7, DeletionStep

\* The hourly job lists the accounts that are due and erases them one by one.
LEMMA DuePassSafe ==
    ASSUME IInv, NEW p \in Passes,
           ListDue(p) \/ EndDeletions(p) \/ \E u \in Users : EraseAccount(p, u)
    PROVE  IInv'
<1>1. /\ TypeOK /\ DeletionInv /\ account \in [Users -> AccountRow] /\ call \in [Calls -> CallRecord]
      /\ alert \in [Alerts -> {"none", "active", "triggered", "gone"}] /\ faults \in 0 .. MaxFaults
      /\ pass[p] \in PassRecord(p) /\ \A x, y \in pass[p].at : x = y
      /\ Job[p] = "deletions" /\ Items(Job[p]) = Users /\ pass[p].todo \subseteq Users
  BY PassIs DEF IInv, TypeOK, AccountRow, CallRecord, ListDue, EndDeletions, EraseAccount, In, Items
<1>2. CASE ListDue(p)
  <2> DEFINE q == [NoPass EXCEPT !.todo = Due, !.step = "erase"]
  <2>1. /\ Turn(p, q) /\ UNCHANGED <<plus, alert, account, mail, call, faults, unlucky, overtaken>>
        /\ muddled' = muddled \cup {u \in Due : UnderWay(u)}
    BY <1>2 DEF ListDue, rows
  <2>2. q \in PassRecord(p) /\ q.at = {} /\ q.todo = Due /\ Due \subseteq Users
    BY <1>1, NoPassIs DEF PassRecord, PassSteps, Due
  <2> HIDE DEF q
  <2>3. /\ pass'[p] = q /\ \A r \in Passes \ {p} : pass'[r] = pass[r]
        /\ DOMAIN pass' = Passes
        /\ \A r \in Passes : pass'[r] \in PassRecord(r) /\ \A x, y \in pass'[r].at : x = y
    BY <1>1, <2>1, <2>2, TurnStep
  <2>4. ASSUME NEW v \in Users \ muddled'
        PROVE  /\ Alone(v)' /\ (UnderWay(v)' \/ Matches(v)')
               /\ \A d \in Calls : call[d].user = v => HalfWay(d)'
               /\ \A r \in Passes : Job[r] = "deletions" /\ v \in pass'[r].todo =>
                     account'[v].schedule = "due" /\ Matches(v)'
    <3>1. /\ Alone(v) /\ (UnderWay(v) \/ Matches(v))
          /\ \A d \in Calls : call[d].user = v => HalfWay(d)
          /\ \A r \in Passes : Job[r] = "deletions" /\ v \in pass[r].todo =>
                account[v].schedule = "due" /\ Matches(v)
      BY <1>1, <2>1, <2>4 DEF DeletionInv
    <3>2. /\ Matches(v)' <=> Matches(v)
          /\ \A d \in Calls : HalfWay(d)' <=> HalfWay(d)
      BY <2>1 DEF Matches, HalfWay
    <3>3. CASE v \in Due
      <4>1. ~UnderWay(v) /\ account[v].schedule = "due"
        BY <2>1, <2>4, <3>3 DEF Due
      <4>2. Alone(v)'
        BY <2>1, <2>3, <4>1 DEF Alone, UnderWay
      <4> QED
        BY <2>1, <3>1, <3>2, <4>1, <4>2
    <3>4. CASE v \notin Due
      <4>1. \A r \in Passes : v \in pass'[r].todo => v \in pass[r].todo
        BY <2>2, <2>3, <3>4
      <4>2. Alone(v)'
        BY <2>1, <3>1, <4>1 DEF Alone
      <4>3. UnderWay(v)' \/ Matches(v)'
        <5>1. CASE UnderWay(v) /\ ~(v \in pass[p].todo)
          BY <2>1, <2>3, <5>1 DEF UnderWay
        <5>2. CASE v \in pass[p].todo
          BY <1>1, <3>1, <3>2, <5>2
        <5> QED
          BY <3>1, <3>2, <5>1, <5>2
      <4> QED
        BY <2>1, <3>1, <3>2, <4>1, <4>2, <4>3
    <3> QED
      BY <3>3, <3>4
  <2>5. DeletionInv'
    BY <2>1, <2>4 DEF DeletionInv
  <2> QED
    BY <1>1, <2>1, <2>3, <2>5, DeletionStep
<1>3. CASE EndDeletions(p)
  <2>1. /\ Turn(p, NoPass) /\ pass[p].todo = {}
        /\ UNCHANGED <<plus, alert, account, mail, call, faults, unlucky, overtaken, muddled>>
    BY <1>3 DEF EndDeletions, StopPass, rows, history
  <2>2. /\ pass'[p] = NoPass /\ \A r \in Passes \ {p} : pass'[r] = pass[r]
        /\ DOMAIN pass' = Passes
        /\ \A r \in Passes : pass'[r] \in PassRecord(r) /\ \A x, y \in pass'[r].at : x = y
    BY <1>1, <2>1, NoPassIs, TurnStep
  <2>3. DeletionInv'
    BY <1>1, <2>1, <2>2, NoPassIs, DeletionKeep
  <2> QED
    BY <1>1, <2>1, <2>2, <2>3, DeletionStep
<1>4. ASSUME NEW u \in Users, EraseAccount(p, u) PROVE IInv'
  <2> DEFINE q == [pass[p] EXCEPT !.todo = pass[p].todo \ {u}]
             row == [schedule |-> "no", deleted |-> TRUE, requests |-> 0]
  <2>1. /\ Turn(p, q) /\ u \in pass[p].todo /\ account' = [account EXCEPT ![u] = row]
        /\ alert' = [a \in Alerts |-> IF Owner[a] = u /\ alert[a] # "none" THEN "gone" ELSE alert[a]]
        /\ UNCHANGED <<plus, mail, call, faults, unlucky, overtaken, muddled>>
    BY <1>4 DEF EraseAccount, history
  <2>2. q \in PassRecord(p) /\ q.at = pass[p].at /\ q.todo = pass[p].todo \ {u}
    BY <1>1 DEF PassRecord
  <2>3. row \in AccountRow /\ row.requests = 0 /\ row.schedule = "no"
    BY DEF AccountRow
  <2> HIDE DEF q, row
  <2>4. /\ pass'[p] = q /\ \A r \in Passes \ {p} : pass'[r] = pass[r]
        /\ DOMAIN pass' = Passes
        /\ \A r \in Passes : pass'[r] \in PassRecord(r) /\ \A x, y \in pass'[r].at : x = y
    BY <1>1, <2>1, <2>2, TurnStep
  <2>5. /\ account' \in [Users -> AccountRow] /\ account'[u] = row
        /\ \A v \in Users \ {u} : account'[v] = account[v]
    BY <1>1, <2>1, <2>3
  <2>6. /\ alert' \in [Alerts -> {"none", "active", "triggered", "gone"}]
        /\ \A a \in Alerts : alert'[a] = "triggered" => alert[a] = "triggered"
    BY <1>1, <2>1
  <2>7. ASSUME NEW v \in Users \ muddled
        PROVE  /\ Alone(v)' /\ (UnderWay(v)' \/ Matches(v)')
               /\ \A d \in Calls : call[d].user = v => HalfWay(d)'
               /\ \A r \in Passes : Job[r] = "deletions" /\ v \in pass'[r].todo =>
                     account'[v].schedule = "due" /\ Matches(v)'
    <3>1. /\ Alone(v) /\ (UnderWay(v) \/ Matches(v))
          /\ \A d \in Calls : call[d].user = v => HalfWay(d)
          /\ \A r \in Passes : Job[r] = "deletions" /\ v \in pass[r].todo =>
                account[v].schedule = "due" /\ Matches(v)
      BY <1>1, <2>7 DEF DeletionInv
    <3>2. \A r \in Passes : v \in pass'[r].todo => v \in pass[r].todo
      BY <2>2, <2>4
    <3>3. Alone(v)'
      BY <2>1, <3>1, <3>2 DEF Alone
    <3>4. CASE v = u
      <4>1. \A d \in Calls : call[d].user = u => call[d].step = "idle"
        BY <1>1, <2>1, <3>1, <3>4 DEF Alone
      <4>2. \A r \in Passes : Job[r] = "deletions" => u \notin pass'[r].todo
        <5>1. ASSUME NEW r \in Passes, Job[r] = "deletions", u \in pass'[r].todo PROVE FALSE
          <6>1. r = p
            BY <1>1, <2>1, <3>1, <3>2, <3>4, <5>1 DEF Alone
          <6> QED
            BY <2>2, <2>4, <5>1, <6>1
        <5> QED
          BY <5>1
      <4>3. Matches(v)'
        BY <2>3, <2>5, <3>4 DEF Matches
      <4>4. \A d \in Calls : call[d].user = v => HalfWay(d)'
        BY <2>1, <3>4, <4>1 DEF HalfWay
      <4> QED
        BY <3>3, <3>4, <4>2, <4>3, <4>4
    <3>5. CASE v # u
      <4>1. account'[v] = account[v] /\ (Matches(v)' <=> Matches(v))
        BY <2>5, <2>7, <3>5 DEF Matches
      <4>2. \A d \in Calls : call[d].user = v => HalfWay(d)'
        BY <2>1, <3>1, <4>1 DEF HalfWay, Matches
      <4>3. UnderWay(v) => UnderWay(v)'
        <5>1. \A r \in Passes : v \in pass[r].todo => v \in pass'[r].todo
          BY <2>2, <2>4, <3>5
        <5> QED
          BY <2>1, <5>1 DEF UnderWay
      <4> QED
        BY <3>1, <3>2, <3>3, <4>1, <4>2, <4>3
    <3> QED
      BY <3>4, <3>5
  <2>8. DeletionInv'
    BY <2>1, <2>7 DEF DeletionInv
  <2>9. \A r \in Passes : Job[r] # "deletions" => pass'[r] = pass[r]
    BY <1>1, <2>4
  <2> QED
    BY <1>1, <2>1, <2>4, <2>5, <2>6, <2>8, <2>9, DeletionStep
<1> QED
  BY <1>2, <1>3, <1>4

-------------------------------------------------------------------------------

\* A restart ends passes and calls where they are: it owes their mails and marks
\* the users of the calls.
LEMMA RestartSafe == ASSUME IInv, Restart PROVE IInv'
<1>1. /\ TypeOK /\ PlusInv /\ EndsAreTold /\ DeletionInv
      /\ call \in [Calls -> CallRecord]
  BY DEF IInv, TypeOK, CallRecord
<1>2. /\ pass' = [p \in Passes |-> NoPass] /\ call' = [c \in Calls |-> NoCall]
      /\ unlucky' = unlucky \cup {<<"price", a>> : a \in UNION {pass[p].at : p \in {q \in Passes : In(q, "alerts", "mail")}}}
      /\ muddled' = muddled \cup {call[c].user : c \in {d \in Calls : call[d].step # "idle"}}
      /\ UNCHANGED <<plus, alert, account, mail, overtaken>>
      /\ faults' \in 0 .. MaxFaults
  BY <1>1, HousekeepingAssumption DEF Restart, Fault, rows, TypeOK
<1>3. /\ DOMAIN pass' = Passes /\ \A p \in Passes : pass'[p] = NoPass
      /\ \A c \in Calls : call'[c] = NoCall
  BY <1>2
<1>4. call' \in [Calls -> CallRecord]
  BY <1>2, NoCallIs
<1>5. TypeOK'
  BY <1>1, <1>2, <1>3, <1>4, NoPassIs DEF TypeOK, PassRecord, CallRecord
<1>6. PlusInv'
  BY <1>1, <1>2, <1>3, PlusKeep
<1>7. EndsAreTold'
  <2>1. ASSUME NEW a \in Alerts, alert'[a] = "triggered" PROVE <<"price", a>> \in mail' \cup unlucky'
    BY <1>1, <1>2, <2>1 DEF EndsAreTold
  <2>2. ASSUME NEW u \in Users, plus'[u].left = "lapsed", ~plus'[u].active
        PROVE  \/ <<"expired", <<u, plus'[u].period>>>> \in mail' \cup unlucky'
               \/ plus'[u].cancelled \/ u \in overtaken'
    BY <1>1, <1>2, <2>2 DEF EndsAreTold
  <2> QED
    BY <2>1, <2>2 DEF EndsAreTold
<1>8. DeletionInv'
  <2> SUFFICES ASSUME NEW u \in Users \ muddled'
               PROVE  /\ Alone(u)' /\ Matches(u)'
                      /\ \A c \in Calls : HalfWay(c)'
                      /\ \A p \in Passes : u \notin pass'[p].todo
    BY DEF DeletionInv
  <2>1. \A c \in Calls : ~(call[c].step # "idle" /\ call[c].user = u)
    BY <1>2
  <2>2. UnderWay(u) => \E p \in Passes : Job[p] = "deletions" /\ u \in pass[p].todo
    BY <2>1 DEF UnderWay
  <2>3. Matches(u)
    BY <1>1, <1>2, <2>2 DEF DeletionInv
  <2>4. Matches(u)'
    BY <1>2, <2>3 DEF Matches
  <2> QED
    BY <1>3, <2>4, NoPassIs, NoCallIs DEF Alone, HalfWay
<1> QED
  BY <1>5, <1>6, <1>7, <1>8 DEF IInv

LEMMA StutterSafe == IInv /\ UNCHANGED vars => IInv'
<1> SUFFICES ASSUME IInv, UNCHANGED vars PROVE IInv'
  OBVIOUS
<1>1. /\ TypeOK /\ PlusInv /\ EndsAreTold /\ DeletionInv
      /\ UNCHANGED <<plus, alert, account, mail, pass, call, faults, unlucky, overtaken, muddled>>
  BY DEF IInv, vars, rows, history
<1>2. TypeOK'
  BY <1>1 DEF TypeOK
<1>3. PlusInv' /\ EndsAreTold' /\ DeletionInv'
  BY <1>1, PlusKeep, ToldKeep, DeletionKeep
<1> QED
  BY <1>2, <1>3 DEF IInv

LEMMA NextSafe == IInv /\ [Next]_vars => IInv'
<1>1. ASSUME IInv, NEW p \in Passes, PassStep(p) \/ ListAlerts(p) \/ ListRenewing(p) \/ ListDue(p)
      PROVE  IInv'
  BY <1>1, AlertPassSafe, SweepSafe, DuePassSafe DEF PassStep
<1>2. ASSUME IInv, Next PROVE IInv'
  BY <1>1, <1>2, CallStepSafe, BeginSafe, AlertRowsSafe, PlusUserSafe, GraceSafe, RestartSafe DEF Next
<1> QED
  BY <1>2, StutterSafe

\* The loops of index.ts and the requests beside them keep the inductive
\* invariant, however many passes of each loop run at once.
THEOREM InvariantHolds == Spec => []IInv
  BY InitIInv, NextSafe, PTL DEF Spec

\* The rows keep the values the schema gives them, and a pass works on one row.
THEOREM TypeCorrect == Spec => []TypeOK
<1>1. IInv => TypeOK
  BY DEF IInv
<1> QED
  BY <1>1, InvariantHolds, PTL

\* sweepPlusMemberships takes Plus from nobody whose period runs, except a member
\* who renewed while the sweep had the lapse on its list.
THEOREM PlusIsKept == Spec => []PaidPeriodKeepsPlus
<1>1. IInv => PaidPeriodKeepsPlus
  BY DEF IInv, PlusInv
<1> QED
  BY <1>1, InvariantHolds, PTL

\* checkPriceAlerts and sweepPlusMemberships tell what they end, unless the
\* insert failed or the pass died first.
THEOREM EndsTold == Spec => []EndsAreTold
<1>1. IInv => EndsAreTold
  BY DEF IInv
<1> QED
  BY <1>1, InvariantHolds, PTL

\* requestDeletion and cancelDeletion leave schedule and request in agreement,
\* for every user whose calls did not cross.
THEOREM RequestsMatch == Spec => []RequestMatchesSchedule
<1>1. IInv => RequestMatchesSchedule
  BY DEF IInv, DeletionInv, RequestMatchesSchedule
<1> QED
  BY <1>1, InvariantHolds, PTL

\* processDueDeletions erases only accounts whose deletion is due, unless a call
\* crossed the job that had listed the account.
THEOREM OnlyDueErased == Spec => ErasesOnlyDue
<1> DEFINE Good == \A u \in Users : account'[u].deleted /\ ~account[u].deleted =>
                       account[u].schedule = "due" \/ u \in muddled
<1>1. IInv /\ [Next]_vars => [Good]_vars
  <2> SUFFICES ASSUME IInv, Next, NEW u \in Users, account'[u].deleted, ~account[u].deleted,
                      u \notin muddled
               PROVE  account[u].schedule = "due"
    BY DEF vars
  <2>1. account \in [Users -> AccountRow] /\ DeletionInv
    BY DEF IInv, TypeOK, AccountRow
  <2>2. ASSUME NEW v \in Users, NEW f \in {"schedule", "requests"}, NEW x, SetAccount(v, f, x)
        PROVE  FALSE
    <3>1. account' = [account EXCEPT ![v][f] = x]
      BY <2>2 DEF SetAccount
    <3>2. account'[u].deleted = account[u].deleted
      BY <2>1, <2>2, <3>1 DEF AccountRow
    <3> QED
      BY <3>2
  <2>3. \A c \in Calls : call[c].user \in Users
    BY DEF IInv, TypeOK
  <2>4. account' # account
    OBVIOUS
  <2>5. \A c \in Calls : ~CallStep(c)
    BY <2>2, <2>3, <2>4 DEF CallStep, ReadSchedule, FindRequest, CreateRequest, Schedule,
                        CloseRequests, Unschedule, rows
  <2>6. PICK p \in Passes, v \in Users : EraseAccount(p, v)
    BY <2>2, <2>4, <2>5 DEF Next, PassStep, ListAlerts, CheckPrice, FireAlert, MailAlert, EndAlerts,
          ListRenewing, ListLapsed, Remind, MailExpiry, ClearPlus, EndSweep, ListDue, EndDeletions,
          AskDeletion, CancelDeletion, Begin, CreateAlert, DeleteAlert, ActivatePlus, CancelPlus,
          PeriodEnds, GraceEnds, Restart, rows
  <2>7. v = u
    BY <2>1, <2>6 DEF EraseAccount
  <2> QED
    BY <2>1, <2>6, <2>7 DEF EraseAccount, In, DeletionInv
<1>2. Spec => [][Good]_vars
  BY <1>1, InvariantHolds, PTL DEF Spec
<1> QED
  BY <1>2 DEF ErasesOnlyDue

===============================================================================

------------------------------ MODULE Complaints ------------------------------
(***************************************************************************)
(* One complaint: its customer (complaints.service.ts), the seller's       *)
(* callbacks from the network (igm.adapter.ts), which may come twice, and  *)
(* the grievance officers of the console (grievance.ops.ts).  A handler is *)
(* stepped at its awaits: what it read may be old when it writes.          *)
(***************************************************************************)
EXTENDS Integers, FiniteSets

CONSTANTS
    Calls,        \* slots for handlers under way
    Events, Kind, Act, \* the seller's messages, what each one brings, and its action id
    Resolutions, Money, \* those proposed, and those among them that refund an amount
    Officers,     \* what officers do in this instance
    MaxCalls,     \* bound on the handlers begun
    MaxFaults     \* bound on the handlers cut short

Desk == {"assign", "contact", "conclude", "appeal", "rule"}

\* What this side puts on the trail; the seller's actions are events.
OwnActions ==
    {<<"CREATED", "none">>, <<"INFO_PROVIDED", "none">>}
    \cup ({"RESOLUTION_ACCEPTED", "RESOLUTION_REJECTED", "REFUND_INITIATED"} \X Resolutions)
    \cup ({"ESCALATED"} \X (1 .. 2))

ASSUME ComplaintsAssumption ==
    /\ Kind \in [Events -> {"ACKNOWLEDGED", "INFO_REQUESTED", "RESOLUTION_PROPOSED", "CLOSED"}]
    /\ Act \in [Events -> Events] /\ \A e \in Events : Kind[Act[e]] = Kind[e]
    /\ Events \cap OwnActions = {} /\ "issue" \notin Events
    /\ Money \subseteq Resolutions /\ Officers \subseteq Desk
    /\ MaxCalls \in Nat /\ MaxFaults \in Nat

VARIABLES
    status,      \* Complaint.status; "NONE" before there is one
    stamped,     \* how often assignedAt, contactedAt, resolvedAt, ... were written
    level,       \* escalationLevel
    question,    \* infoRequest: the message whose question is shown, if any
    trail,       \* ComplaintAction rows: what each one records
    messages,    \* ComplaintMessage rows: the issue sent, and what came in
    decision,    \* ComplaintResolution rows and what the customer decided
    refunds,     \* ComplaintRefund rows of a resolution
    escalations, \* ComplaintEscalation rows of a level
    call, begun, faults,
    open,        \* history: the question that was asked last, until a reply to it is recorded
    crossed,     \* history: topics two handlers were at work on at once
    cut          \* history: topics of a handler that was cut short

case == <<status, stamped, level, question, trail, messages, decision, refunds, escalations>>
history == <<open, crossed, cut>>
vars == <<case, call, begun, faults, history>>

Idle == [op |-> "none", of |-> "none", code |-> "none", step |-> "idle", seen |-> "NONE",
         saw |-> {}, twins |-> {}, clash |-> FALSE]

Init ==
    /\ status = "NONE" /\ level = 0 /\ question = {}
    /\ stamped = [s \in {"assigned", "contacted", "resolved", "appealed", "ruled"} |-> 0]
    /\ trail = {} /\ messages = {}
    /\ decision = [r \in Resolutions |-> "none"]
    /\ refunds = [r \in Resolutions |-> 0]
    /\ escalations = [l \in 1 .. 2 |-> 0]
    /\ call = [c \in Calls |-> Idle] /\ begun = 0 /\ faults = 0
    /\ open = {} /\ crossed = {} /\ cut = {}

RANK == [OPEN |-> 0, PROCESSING |-> 1, RESOLVED |-> 2, CLOSED |-> 3]

STATUS_AFTER ==
    [CREATED |-> "OPEN", ACKNOWLEDGED |-> "PROCESSING", INFO_REQUESTED |-> "PROCESSING",
     INFO_PROVIDED |-> "PROCESSING", RESOLUTION_PROPOSED |-> "PROCESSING",
     RESOLUTION_ACCEPTED |-> "RESOLVED", ESCALATED |-> "PROCESSING", CLOSED |-> "CLOSED"]

\* Mutant: any action that implies a status sets it.
SetsStatus(code, seen) == code \in DOMAIN STATUS_AFTER

\* A case that was appealed has a status without a rank: nothing compares above it.
Advances(code, seen) ==
    /\ code \in DOMAIN STATUS_AFTER /\ seen \in DOMAIN RANK
    /\ RANK[STATUS_AFTER[code]] > RANK[seen]

-------------------------------------------------------------------------------
(* Handlers.                                                               *)

At(c, step) == call[c].step = step
Put(c, q) == call' = [call EXCEPT ![c] = q]
Step(c, step) == Put(c, [call[c] EXCEPT !.step = step])
Record(c, code) == Put(c, [call[c] EXCEPT !.step = "record", !.code = code])
Done(c) == Put(c, Idle)

\* What a handler reads and writes besides the trail; an event is a topic too.
Topics(q) ==
    CASE q.op = "decide" -> {q.of, "status"}
      [] q.op = "escalate" -> {"level", "status"}
      [] q.op = "reply" -> {"question", "status"}
      [] q.op = "inbound" -> {q.of, "status"} \cup (IF Kind[q.of] = "INFO_REQUESTED" THEN {"question"} ELSE {})
      [] q.op \in {"assign", "contact", "conclude"} -> {"clocks", "status"}
      [] q.op \in {"appeal", "rule"} -> {"appeal", "status"}
      [] q.op = "file" -> {"file", "status"}
      [] OTHER -> {}

Begin(c, q) ==
    /\ At(c, "idle") /\ begun < MaxCalls
    /\ begun' = begun + 1
    /\ Put(c, q)
    /\ crossed' = crossed \cup (Topics(q) \cap UNION {Topics(call[d]) : d \in Calls})
    /\ UNCHANGED <<case, faults, open, cut>>

New(op, of, step) == [Idle EXCEPT !.op = op, !.of = of, !.step = step]

\* A database call fails, or the process stops. The seller's message comes again.
CutOff(c) ==
    /\ ~At(c, "idle") /\ faults < MaxFaults
    /\ faults' = faults + 1
    /\ cut' = cut \cup Topics(call[c])
    /\ Done(c)
    /\ UNCHANGED <<case, begun, open, crossed>>

\* An insert is refused: the handler throws.
Throw(c) ==
    /\ Done(c) /\ cut' = cut \cup Topics(call[c])
    /\ UNCHANGED <<case, begun, faults, open, crossed>>

-------------------------------------------------------------------------------
(* recordAction.                                                           *)

\* What comes after the action: the reply clears the question, a refund is opened.
AfterRecord(c) ==
    CASE call[c].op = "file" -> Step(c, "issue")
      [] call[c].op = "reply" -> Step(c, "clear")
      [] call[c].op = "decide" /\ call[c].code = "RESOLUTION_ACCEPTED" /\ call[c].of \in Money ->
            Step(c, "refund")
      [] OTHER -> Done(c)

\* Mutant: a message is recognised by what it brings, not by its action id.
EntryByKind(c) ==
    IF call[c].op = "inbound" THEN CHOOSE e \in Events : Kind[e] = Kind[call[c].of]
    ELSE <<call[c].code, call[c].of>>

Entry(c) == IF call[c].op = "inbound" THEN Act[call[c].of] ELSE <<call[c].code, call[c].of>>

Own(c) == call[c].op # "inbound"

\* An id that is on the trail already makes the action a no-op, and nothing moves.
\* That is meant for a message that repeats an action; but the id of an own action
\* is the millisecond, and another one under way may have it.
SkipAction(c) ==
    /\ At(c, "record")
    /\ IF Own(c)
       THEN /\ \E d \in Calls \ {c} : At(d, "advance") /\ Own(d)
            /\ cut' = cut \cup Topics(call[c])
       ELSE Entry(c) \in trail /\ UNCHANGED cut
    /\ AfterRecord(c)
    /\ UNCHANGED <<case, begun, faults, open, crossed>>

ReadCase(c) ==
    /\ At(c, "record")
    /\ Own(c) \/ Entry(c) \notin trail
    /\ \E twins \in {{}} \cup {{d} : d \in {e \in Calls \ {c} : At(e, "create") /\ Own(e) /\ Own(c)}} :
          Put(c, [call[c] EXCEPT !.step = "create", !.seen = status, !.twins = twins])
    /\ UNCHANGED <<case, begun, faults, history>>

SameId(c, d) ==
    /\ At(d, "create")
    /\ IF Own(c) THEN c \in call[d].twins \/ d \in call[c].twins ELSE ~Own(d) /\ Entry(d) = Entry(c)

CreateAction(c) ==
    /\ At(c, "create") /\ ~call[c].clash
    /\ trail' = trail \cup {Entry(c)}
    /\ open' = IF call[c].code = "INFO_PROVIDED" THEN open \ call[c].saw ELSE open
    /\ call' = [d \in Calls |->
          IF d = c THEN [call[c] EXCEPT !.step = "advance", !.twins = {}]
          ELSE IF SameId(c, d) THEN [call[d] EXCEPT !.clash = TRUE, !.twins = {}]
          ELSE call[d]]
    /\ UNCHANGED <<status, stamped, level, question, messages, decision, refunds, escalations,
                   begun, faults, crossed, cut>>

SameActionId(c) == At(c, "create") /\ call[c].clash /\ Throw(c)

Stamp(names) == stamped' = [s \in DOMAIN stamped |-> IF s \in names THEN stamped[s] + 1 ELSE stamped[s]]

\* The status is compared with what was read before the action was created.
Advance(c) ==
    /\ At(c, "advance")
    /\ IF Advances(call[c].code, call[c].seen)
       THEN /\ status' = STATUS_AFTER[call[c].code]
            /\ Stamp(IF status' = "RESOLVED" THEN {"resolved"} ELSE {})
       ELSE UNCHANGED <<status, stamped>>
    /\ AfterRecord(c)
    /\ UNCHANGED <<level, question, trail, messages, decision, refunds, escalations,
                   begun, faults, history>>

-------------------------------------------------------------------------------
(* The customer.                                                           *)

\* createComplaint, up to its opening action. The mail is left to the outbox.
CreateComplaint(c) ==
    /\ status = "NONE" /\ At(c, "idle") /\ begun < MaxCalls
    /\ status' = "OPEN" /\ begun' = begun + 1
    /\ Put(c, [New("file", "none", "record") EXCEPT !.code = "CREATED"])
    /\ UNCHANGED <<stamped, level, question, trail, messages, decision, refunds, escalations,
                   faults, history>>

\* sendIssue of the adapter in use: a pending message, whatever becomes of it.
SendIssue(c) ==
    /\ At(c, "issue")
    /\ messages' = messages \cup {"issue"}
    /\ Done(c)
    /\ UNCHANGED <<status, stamped, level, question, trail, decision, refunds, escalations,
                   begun, faults, history>>

ProvideInformation(c) ==
    /\ question # {}
    /\ Begin(c, [New("reply", "none", "record") EXCEPT !.code = "INFO_PROVIDED", !.saw = question])

\* Mutant: the question is left for the seller to withdraw.
LeaveQuestion(c) ==
    /\ At(c, "clear")
    /\ Done(c)
    /\ UNCHANGED <<case, begun, faults, history>>

ClearQuestion(c) ==
    /\ At(c, "clear")
    /\ question' = {}
    /\ Done(c)
    /\ UNCHANGED <<status, stamped, level, trail, messages, decision, refunds, escalations,
                   begun, faults, history>>

\* Mutant: a decision can be taken again.
DecideAgain(c, r, verdict) ==
    /\ decision[r] # "none"
    /\ Begin(c, [New("decide", r, "mark") EXCEPT !.saw = {verdict}])

DecideResolution(c, r, verdict) ==
    /\ decision[r] = "open"
    /\ Begin(c, [New("decide", r, "mark") EXCEPT !.saw = {verdict}])

MarkDecision(c) ==
    /\ At(c, "mark")
    /\ \E verdict \in call[c].saw :
          /\ decision' = [decision EXCEPT ![call[c].of] = verdict]
          /\ Record(c, IF verdict = "accepted" THEN "RESOLUTION_ACCEPTED" ELSE "RESOLUTION_REJECTED")
    /\ UNCHANGED <<status, stamped, level, question, trail, messages, refunds, escalations,
                   begun, faults, history>>

OpenRefund(c) ==
    /\ At(c, "refund")
    /\ refunds' = [refunds EXCEPT ![call[c].of] = @ + 1]
    /\ Record(c, "REFUND_INITIATED")
    /\ UNCHANGED <<status, stamped, level, question, trail, messages, decision, escalations,
                   begun, faults, history>>

EscalateComplaint(c) ==
    /\ status \notin {"NONE", "CLOSED"} /\ level < 2
    /\ Begin(c, New("escalate", level + 1, "row"))

CreateEscalation(c) ==
    /\ At(c, "row")
    /\ escalations' = [escalations EXCEPT ![call[c].of] = @ + 1]
    /\ Step(c, "level")
    /\ UNCHANGED <<status, stamped, level, question, trail, messages, decision, refunds,
                   begun, faults, history>>

\* Mutant: the level stays what it was.
KeepLevel(c) ==
    /\ At(c, "level")
    /\ Record(c, "ESCALATED")
    /\ UNCHANGED <<case, begun, faults, history>>

SetLevel(c) ==
    /\ At(c, "level")
    /\ level' = call[c].of
    /\ Record(c, "ESCALATED")
    /\ UNCHANGED <<status, stamped, question, trail, messages, decision, refunds, escalations,
                   begun, faults, history>>

-------------------------------------------------------------------------------
(* The seller: applyInboundEvent.                                          *)

\* The complaint and the message are looked up; one that was seen is acknowledged.
Deliver(c, e) ==
    /\ status # "NONE" /\ e \notin messages
    /\ Begin(c, New("inbound", e, "store"))

StoreMessage(c) ==
    /\ At(c, "store")
    /\ IF call[c].of \in messages
       THEN Throw(c)
       ELSE /\ messages' = messages \cup {call[c].of}
            /\ Step(c, "apply")
            /\ UNCHANGED <<status, stamped, level, question, trail, decision, refunds, escalations,
                           begun, faults, history>>

\* The question replaces the one before; a resolution is created or left as it is.
ApplyEvent(c) ==
    /\ At(c, "apply")
    /\ LET kind == Kind[call[c].of] IN
       /\ question' = IF kind = "INFO_REQUESTED" THEN {call[c].of} ELSE question
       /\ open' = IF kind = "INFO_REQUESTED" THEN {call[c].of} ELSE open
       /\ decision' = IF kind = "RESOLUTION_PROPOSED"
                      THEN [r \in Resolutions |-> IF decision[r] = "none" THEN "open" ELSE decision[r]]
                      ELSE decision
       /\ Record(c, kind)
    /\ UNCHANGED <<status, stamped, level, trail, messages, refunds, escalations,
                   begun, faults, crossed, cut>>

-------------------------------------------------------------------------------
(* The officers: grievance.ops.ts reads the case twice and writes once.    *)

Refused(op) ==
    \/ op = "conclude" /\ stamped["resolved"] > 0
    \/ op = "appeal" /\ (stamped["resolved"] = 0 \/ stamped["appealed"] > 0)
    \/ op = "rule" /\ (stamped["appealed"] = 0 \/ stamped["ruled"] > 0)

\* Mutant: a handover stamps again.
Always(names) == names

Missing(names) == {s \in names : stamped[s] = 0}

\* Which stamps the write will set.
Owed(op) ==
    CASE op = "assign" -> Missing({"assigned"})
      [] op = "contact" -> Missing({"assigned", "contacted"})
      [] op = "conclude" -> {"resolved"} \cup Missing({"assigned", "contacted"})
      [] op = "appeal" -> {"appealed"}
      [] OTHER -> {"ruled"}

OfficerReads(c, op) ==
    /\ status # "NONE" /\ ~Refused(op)
    /\ Begin(c, [New(op, "none", "write") EXCEPT !.seen = status, !.saw = Owed(op)])

StatusWritten(op, seen) ==
    CASE op = "assign" -> IF seen = "OPEN" THEN "PROCESSING" ELSE status
      [] op = "contact" -> status
      [] op = "conclude" -> "RESOLVED"
      [] op = "appeal" -> "ESCALATED"
      [] OTHER -> "CLOSED"

OfficerWrites(c) ==
    /\ At(c, "write")
    /\ status' = StatusWritten(call[c].op, call[c].seen)
    /\ Stamp(call[c].saw)
    /\ Done(c)
    /\ UNCHANGED <<level, question, trail, messages, decision, refunds, escalations,
                   begun, faults, history>>

-------------------------------------------------------------------------------
Continue(c) ==
    \/ SkipAction(c) \/ ReadCase(c) \/ CreateAction(c) \/ SameActionId(c) \/ Advance(c)
    \/ SendIssue(c) \/ ClearQuestion(c) \/ MarkDecision(c) \/ OpenRefund(c)
    \/ CreateEscalation(c) \/ SetLevel(c)
    \/ StoreMessage(c) \/ ApplyEvent(c) \/ OfficerWrites(c)

Next ==
    \E c \in Calls :
        \/ Continue(c) \/ CutOff(c)
        \/ CreateComplaint(c) \/ ProvideInformation(c) \/ EscalateComplaint(c)
        \/ \E r \in Resolutions : \E v \in {"accepted", "rejected"} : DecideResolution(c, r, v)
        \/ \E e \in Events : Deliver(c, e)
        \/ \E op \in Officers : OfficerReads(c, op)

Spec == Init /\ [][Next]_vars

-------------------------------------------------------------------------------
(* Properties.                                                             *)

UnderWay(topic) == \E c \in Calls : topic \in Topics(call[c])
Excused(topic) == topic \in crossed \cup cut \/ UnderWay(topic)

Stamps == {"assigned", "contacted", "resolved", "appealed", "ruled"}
Recording == {"record", "create", "advance"}

\* The steps of each handler, with the locals it has at them.
Shape(q) ==
    /\ q = [op |-> q.op, of |-> q.of, code |-> q.code, step |-> q.step, seen |-> q.seen,
            saw |-> q.saw, twins |-> q.twins, clash |-> q.clash]
    /\ \/ q = Idle
       \/ q.op = "file" /\ q.of = "none" /\ q.code = "CREATED" /\ q.step \in Recording \cup {"issue"}
       \/ /\ q.op = "reply" /\ q.of = "none" /\ q.code = "INFO_PROVIDED"
          /\ q.step \in Recording \cup {"clear"}
       \/ /\ q.op = "decide" /\ q.of \in Resolutions /\ q.saw \subseteq {"accepted", "rejected"}
          /\ \/ q.step = "mark"
             \/ q.step = "refund" /\ q.code = "RESOLUTION_ACCEPTED"
             \/ /\ q.step \in Recording
                /\ q.code \in {"RESOLUTION_ACCEPTED", "RESOLUTION_REJECTED", "REFUND_INITIATED"}
       \/ /\ q.op = "escalate" /\ q.of \in 1 .. 2
          /\ \/ q.step \in {"row", "level"}
             \/ q.step \in Recording /\ q.code = "ESCALATED"
       \/ /\ q.op = "inbound" /\ q.of \in Events
          /\ \/ q.step \in {"store", "apply"}
             \/ q.step \in Recording /\ q.code = Kind[q.of]
       \/ q.op \in Desk /\ q.of = "none" /\ q.step = "write" /\ q.saw \subseteq Stamps

TypeOK ==
    /\ status \in {"NONE", "ESCALATED", "OPEN", "PROCESSING", "RESOLVED", "CLOSED"}
    /\ stamped \in [Stamps -> Nat]
    /\ level \in 0 .. 2 /\ question \subseteq Events /\ open \subseteq Events
    /\ messages \subseteq Events \cup {"issue"}
    /\ trail \subseteq Events \cup OwnActions
    /\ decision \in [Resolutions -> {"none", "open", "accepted", "rejected"}]
    /\ refunds \in [Resolutions -> Nat]
    /\ escalations \in [1 .. 2 -> Nat]
    /\ DOMAIN call = Calls /\ \A c \in Calls : Shape(call[c])
    /\ begun \in 0 .. MaxCalls /\ faults \in 0 .. MaxFaults

\* An accepted resolution that pays has its refund, once, and a rejected one has
\* none, unless two decisions of it overlapped; a decision that was cut short
\* leaves an accepted resolution that can be neither decided again nor refunded.
AcceptedIsRefunded ==
    \A r \in Money :
        /\ refunds[r] > (IF decision[r] = "accepted" THEN 1 ELSE 0) => r \in crossed
        /\ decision[r] = "accepted" => refunds[r] > 0 \/ Excused(r)

\* A message of the seller that is in the log, and will be called a duplicate if
\* it comes again, has its action on the trail, unless its handler was cut short
\* or crossed another message that brought the same action.
EventsAreApplied ==
    \A e \in messages \cap Events : Act[e] \in trail \/ Excused(e)

\* The customer is shown the question that is open, and no question that was
\* answered, unless a reply overlapped a new question or was cut short.
ShownIsOpen == question = open \/ Excused("question")

\* The level, the escalations and the trail tell the same story.
EscalationsMatchLevel ==
    \/ Excused("level")
    \/ \A l \in 1 .. 2 :
          /\ escalations[l] = (IF l <= level THEN 1 ELSE 0)
          /\ <<"ESCALATED", l>> \in trail <=> l <= level

\* A clock that was answered is not answered again, an appeal is opened and
\* decided once, unless two handlers read the case before either wrote it.
StampedOnce ==
    /\ \A s \in {"assigned", "contacted"} : stamped[s] <= 1 \/ "clocks" \in crossed
    /\ \A s \in {"appealed", "ruled"} : stamped[s] <= 1 \/ "appeal" \in crossed
    /\ stamped["resolved"] <= 1 \/ "status" \in crossed

Follows(a) ==
    LET code == IF a \in Events THEN Kind[a] ELSE a[1] IN
    code \in DOMAIN STATUS_AFTER =>
        \/ stamped["appealed"] > 0
        \/ status = "RESOLVED" /\ code = "CLOSED"
        \/ RANK[status] >= RANK[STATUS_AFTER[code]]

\* The status is what the furthest action of the trail makes it, until an officer
\* concludes or an appeal is opened, unless handlers overlapped or were cut short.
StatusFollowsTrail ==
    \/ Excused("status")
    \/ \A a \in trail : Follows(a)

\* The comment on RANK: "Never move backwards: a resolved case isn't reopened by
\* a late callback."
NeverReopened == [][status = "RESOLVED" => status' # "PROCESSING"]_vars

-------------------------------------------------------------------------------
(* The inductive invariant behind the safety properties, topic by topic.   *)

\* Two handlers at work on one topic have crossed.
OneAtATime ==
    \A c, d \in Calls : c # d => Topics(call[c]) \cap Topics(call[d]) \subseteq crossed

\* Before the complaint there is nothing to work on.
FiledFirst ==
    status = "NONE" =>
        /\ \A c \in Calls : call[c] = Idle
        /\ question = {} /\ trail = {} /\ stamped["resolved"] = 0
        /\ \A r \in Resolutions : decision[r] = "none"

\* How far the one decision of a resolution has come.
Decided(r) ==
    /\ refunds[r] = 0 \/ (refunds[r] = 1 /\ decision[r] = "accepted")
    /\ decision[r] = "accepted" =>
          \/ refunds[r] = 1 \/ r \in cut
          \/ \E c \in Calls : call[c].op = "decide" /\ call[c].of = r
    /\ \A c \in Calls : call[c].op = "decide" /\ call[c].of = r =>
          /\ call[c].step = "mark" => decision[r] = "open"
          /\ call[c].step # "mark" =>
                decision[r] = (IF call[c].code = "RESOLUTION_REJECTED" THEN "rejected" ELSE "accepted")
          /\ call[c].step # "mark" /\ call[c].code = "REFUND_INITIATED" => refunds[r] = 1
          /\ call[c].step = "refund" => refunds[r] = 0
          /\ call[c].step \in Recording /\ call[c].code = "RESOLUTION_ACCEPTED" => refunds[r] = 0

DecisionInv == \A r \in Money \ crossed : Decided(r)

\* A reply that is on the trail has still to take its question off the screen.
QuestionInv ==
    "question" \in crossed \cup cut
    \/ /\ \A c \in Calls : call[c].op = "reply" =>
              IF call[c].step \in {"record", "create"}
              THEN call[c].saw = question ELSE open = {}
       /\ \/ question = open
          \/ \E c \in Calls : call[c].op = "reply" /\ call[c].step \in {"advance", "clear"}

Escalated(n) == \A l \in 1 .. 2 : escalations[l] = (IF l <= n THEN 1 ELSE 0)
Traced(n) == \A l \in 1 .. 2 : <<"ESCALATED", l>> \in trail <=> l <= n

\* Escalating writes the row, the level and the action in this order.
LevelInv ==
    "level" \in crossed \cup cut
    \/ /\ (\A c \in Calls : call[c].op # "escalate") => Escalated(level) /\ Traced(level)
       /\ \A c \in Calls : call[c].op = "escalate" =>
              LET l == call[c].of IN
              /\ level = IF call[c].step \in {"row", "level"} THEN l - 1 ELSE l
              /\ Escalated(IF call[c].step = "row" THEN l - 1 ELSE l)
              /\ Traced(IF call[c].step = "advance" THEN l ELSE l - 1)

\* What an officer is about to stamp has no stamp yet.
StampInv ==
    /\ \A s \in {"assigned", "contacted"} : "clocks" \notin crossed =>
          /\ stamped[s] <= 1
          /\ \A c \in Calls : call[c].op \in {"assign", "contact", "conclude"} /\ s \in call[c].saw =>
                stamped[s] = 0
    /\ \A s \in {"appealed", "ruled"} : "appeal" \notin crossed =>
          /\ stamped[s] <= 1
          /\ \A c \in Calls : call[c].op \in {"appeal", "rule"} /\ s \in call[c].saw =>
                stamped[s] = 0
    /\ \A c \in Calls :
          /\ call[c].op \in {"assign", "contact"} => call[c].saw \subseteq {"assigned", "contacted"}
          /\ call[c].op = "conclude" =>
                "resolved" \in call[c].saw /\ call[c].saw \subseteq {"assigned", "contacted", "resolved"}
          /\ call[c].op = "appeal" => call[c].saw = {"appealed"}
          /\ call[c].op = "rule" => call[c].saw = {"ruled"} /\ stamped["appealed"] > 0
    /\ status = "ESCALATED" => stamped["appealed"] > 0

\* A handler that is alone with the case has seen the status as it is, and a
\* case that is not resolved yet has no stamp that says so.
ResolvedInv ==
    "status" \in crossed
    \/ /\ stamped["resolved"] <= 1
       /\ status \in {"OPEN", "PROCESSING"} => stamped["resolved"] = 0
       /\ \A c \in Calls :
             /\ call[c].op = "conclude" => stamped["resolved"] = 0
             /\ call[c].step \in {"create", "advance", "write"} => call[c].seen = status

\* Only the action recorded last can be ahead of the status.
TrailInv ==
    "status" \in crossed \cup cut
    \/ \A a \in trail :
          Follows(a) \/ \E c \in Calls : At(c, "advance") /\ Entry(c) = a

\* An action whose status comes next is on the trail.
RecordedInv == \A c \in Calls : At(c, "advance") => Entry(c) \in trail

\* Only a handler of the message itself, or one that was cut short, owes its action.
AppliedInv ==
    \A e \in messages \cap Events :
        \/ Act[e] \in trail \/ e \in cut
        \/ \E c \in Calls : call[c].op = "inbound" /\ call[c].of = e

IInv ==
    /\ TypeOK /\ OneAtATime /\ FiledFirst
    /\ DecisionInv /\ QuestionInv /\ LevelInv
    /\ StampInv /\ ResolvedInv /\ TrailInv
    /\ RecordedInv /\ AppliedInv
===============================================================================

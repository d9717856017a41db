--------------------------- MODULE ComplaintsProofs ---------------------------
(***************************************************************************)
(* Proofs about Complaints, for any number of handlers, messages and       *)
(* resolutions.  Every action moves one handler; what it does to that      *)
(* handler is stated first, and each part of the invariant then asks only  *)
(* whether the handler is at work on that part's topic.                    *)
(***************************************************************************)
EXTENDS Complaints, TLAPS

\* What the others do stays as it is; an insert may only mark them as clashing.
Same(d) ==
    /\ call'[d].op = call[d].op /\ call'[d].of = call[d].of /\ call'[d].code = call[d].code
    /\ call'[d].step = call[d].step /\ call'[d].seen = call[d].seen /\ call'[d].saw = call[d].saw

Others(c) == DOMAIN call' = Calls /\ \A d \in Calls \ {c} : Same(d) /\ Shape(call'[d])

LEMMA IdleIs ==
    /\ Idle.op = "none" /\ Idle.of = "none" /\ Idle.code = "none" /\ Idle.step = "idle"
    /\ Idle.seen = "NONE" /\ Idle.saw = {} /\ Topics(Idle) = {} /\ Shape(Idle)
  BY DEF Idle, Topics, Shape, Desk

LEMMA ShapeIs ==
    ASSUME TypeOK, NEW c \in Calls
    PROVE  Shape(call[c])
  BY DEF TypeOK

\* Which steps a handler can be at.
LEMMA OpIs ==
    ASSUME NEW q, Shape(q)
    PROVE  /\ q.op \in {"none", "file", "reply", "decide", "escalate", "inbound"} \cup Desk
           /\ q.op = "none" => q = Idle
           /\ q.op = "file" => q.of = "none" /\ q.code = "CREATED" /\ q.step \in Recording \cup {"issue"}
           /\ q.op = "reply" => /\ q.of = "none" /\ q.code = "INFO_PROVIDED"
                                /\ q.step \in Recording \cup {"clear"}
           /\ q.op = "decide" =>
                 /\ q.of \in Resolutions /\ q.saw \subseteq {"accepted", "rejected"}
                 /\ \/ q.step = "mark"
                    \/ q.step = "refund" /\ q.code = "RESOLUTION_ACCEPTED"
                    \/ /\ q.step \in Recording
                       /\ q.code \in {"RESOLUTION_ACCEPTED", "RESOLUTION_REJECTED", "REFUND_INITIATED"}
           /\ q.op = "escalate" =>
                 /\ q.of \in 1 .. 2
                 /\ \/ q.step \in {"row", "level"}
                    \/ q.step \in Recording /\ q.code = "ESCALATED"
           /\ q.op = "inbound" =>
                 /\ q.of \in Events
                 /\ \/ q.step \in {"store", "apply"}
                    \/ q.step \in Recording /\ q.code = Kind[q.of]
           /\ q.op \in Desk => q.of = "none" /\ q.step = "write" /\ q.saw \subseteq Stamps
  BY IdleIs DEF Shape, Desk

LEMMA TopicsOf ==
    ASSUME NEW q, Shape(q)
    PROVE  /\ q = Idle \/ "status" \in Topics(q)
           /\ q.op = "decide" => q.of \in Topics(q)
           /\ q.op = "escalate" => "level" \in Topics(q)
           /\ q.op = "reply" => "question" \in Topics(q)
           /\ q.op = "inbound" => q.of \in Topics(q)
           /\ q.op = "inbound" /\ Kind[q.of] = "INFO_REQUESTED" => "question" \in Topics(q)
           /\ q.op \in {"assign", "contact", "conclude"} => "clocks" \in Topics(q)
           /\ q.op \in {"appeal", "rule"} => "appeal" \in Topics(q)
  BY OpIs DEF Topics, Desk

LEMMA SameTopics ==
    ASSUME NEW q, NEW r, q.op = r.op, q.of = r.of
    PROVE  Topics(q) = Topics(r)
  BY DEF Topics

-------------------------------------------------------------------------------
(* What an action does to the handlers.                                    *)

LEMMA PutDoes ==
    ASSUME TypeOK, NEW c \in Calls, NEW q, Put(c, q)
    PROVE  call'[c] = q /\ Others(c)
<1>1. DOMAIN call = Calls /\ call' = [call EXCEPT ![c] = q]
  BY DEF Put, TypeOK
<1>2. DOMAIN call' = Calls /\ call'[c] = q /\ \A d \in Calls \ {c} : call'[d] = call[d]
  BY <1>1
<1>3. \A d \in Calls \ {c} : Same(d) /\ Shape(call'[d])
  BY <1>2, ShapeIs DEF Same
<1> QED
  BY <1>2, <1>3 DEF Others

\* The handler goes on, with the topics it has.
Turned(c, code, step, seen) ==
    /\ call'[c].op = call[c].op /\ call'[c].of = call[c].of /\ call'[c].saw = call[c].saw
    /\ call'[c].code = code /\ call'[c].step = step /\ call'[c].seen = seen

LEMMA PutTurns ==
    ASSUME TypeOK, NEW c \in Calls, NEW code, NEW step, NEW seen, NEW twins,
           Put(c, [call[c] EXCEPT !.code = code, !.step = step, !.seen = seen, !.twins = twins])
    PROVE  /\ Others(c) /\ Turned(c, code, step, seen)
           /\ call'[c] = [op |-> call'[c].op, of |-> call'[c].of, code |-> call'[c].code,
                          step |-> call'[c].step, seen |-> call'[c].seen, saw |-> call'[c].saw,
                          twins |-> call'[c].twins, clash |-> call'[c].clash]
<1>1. call[c] = [op |-> call[c].op, of |-> call[c].of, code |-> call[c].code,
                 step |-> call[c].step, seen |-> call[c].seen, saw |-> call[c].saw,
                 twins |-> call[c].twins, clash |-> call[c].clash]
  BY ShapeIs DEF Shape
<1>2. Others(c) /\ call'[c] = [call[c] EXCEPT !.code = code, !.step = step, !.seen = seen, !.twins = twins]
  BY PutDoes
<1> QED
  BY <1>1, <1>2 DEF Turned

LEMMA StepTurns ==
    ASSUME TypeOK, NEW c \in Calls, NEW step, Step(c, step)
    PROVE  /\ Others(c) /\ Turned(c, call[c].code, step, call[c].seen)
           /\ call'[c] = [op |-> call'[c].op, of |-> call'[c].of, code |-> call'[c].code,
                          step |-> call'[c].step, seen |-> call'[c].seen, saw |-> call'[c].saw,
                          twins |-> call'[c].twins, clash |-> call'[c].clash]
<1>1. call[c] = [op |-> call[c].op, of |-> call[c].of, code |-> call[c].code,
                 step |-> call[c].step, seen |-> call[c].seen, saw |-> call[c].saw,
                 twins |-> call[c].twins, clash |-> call[c].clash]
  BY ShapeIs DEF Shape
<1>2. Others(c) /\ call'[c] = [call[c] EXCEPT !.step = step]
  BY PutDoes DEF Step
<1> QED
  BY <1>1, <1>2 DEF Turned

LEMMA RecordTurns ==
    ASSUME TypeOK, NEW c \in Calls, NEW code, Record(c, code)
    PROVE  /\ Others(c) /\ Turned(c, code, "record", call[c].seen)
           /\ call'[c] = [op |-> call'[c].op, of |-> call'[c].of, code |-> call'[c].code,
                          step |-> call'[c].step, seen |-> call'[c].seen, saw |-> call'[c].saw,
                          twins |-> call'[c].twins, clash |-> call'[c].clash]
<1>1. call[c] = [op |-> call[c].op, of |-> call[c].of, code |-> call[c].code,
                 step |-> call[c].step, seen |-> call[c].seen, saw |-> call[c].saw,
                 twins |-> call[c].twins, clash |-> call[c].clash]
  BY ShapeIs DEF Shape
<1>2. Others(c) /\ call'[c] = [call[c] EXCEPT !.step = "record", !.code = code]
  BY PutDoes DEF Record
<1> QED
  BY <1>1, <1>2 DEF Turned

\* Where a handler goes when its action is recorded, or found recorded.
Pays(c) == call[c].op = "decide" /\ call[c].code = "RESOLUTION_ACCEPTED" /\ call[c].of \in Money

Resumes(c) ==
    \/ call[c].op = "file" /\ Turned(c, call[c].code, "issue", call[c].seen)
    \/ call[c].op = "reply" /\ Turned(c, call[c].code, "clear", call[c].seen)
    \/ Pays(c) /\ Turned(c, call[c].code, "refund", call[c].seen)
    \/ call[c].op \in {"decide", "escalate", "inbound"} /\ call'[c] = Idle /\ ~Pays(c)

LEMMA AfterRecordDoes ==
    ASSUME TypeOK, NEW c \in Calls, call[c].step \in Recording, AfterRecord(c)
    PROVE  Others(c) /\ Resumes(c) /\ Shape(call'[c])
<1>0. Shape(call[c])
  BY ShapeIs
<1>1. CASE call[c].op = "file"
  <2>1. Step(c, "issue")
    BY <1>1 DEF AfterRecord
  <2>2. call[c].of = "none" /\ call[c].code = "CREATED"
    BY <1>0, <1>1, OpIs
  <2> QED
    BY <1>1, <2>1, <2>2, StepTurns DEF Resumes, Turned, Shape
<1>2. CASE call[c].op = "reply"
  <2>1. Step(c, "clear")
    BY <1>2 DEF AfterRecord
  <2>2. call[c].of = "none" /\ call[c].code = "INFO_PROVIDED"
    BY <1>0, <1>2, OpIs
  <2> QED
    BY <1>2, <2>1, <2>2, StepTurns DEF Resumes, Turned, Shape
<1>3. CASE Pays(c)
  <2>1. Step(c, "refund")
    BY <1>3 DEF AfterRecord, Pays
  <2>2. call[c].of \in Resolutions /\ call[c].saw \subseteq {"accepted", "rejected"}
    BY <1>0, <1>3, OpIs DEF Pays
  <2> QED
    BY <1>3, <2>1, <2>2, StepTurns DEF Resumes, Turned, Shape, Pays
<1>4. CASE call[c].op \notin {"file", "reply"} /\ ~Pays(c)
  <2>1. Done(c)
    BY <1>4 DEF AfterRecord, Pays
  <2>2. call[c].op \in {"decide", "escalate", "inbound"}
    BY <1>0, <1>4, OpIs, IdleIs DEF Recording
  <2> QED
    BY <1>4, <2>1, <2>2, PutDoes, IdleIs DEF Done, Resumes
<1> QED
  BY <1>1, <1>2, <1>3, <1>4

\* A handler under way that goes on, or ends, keeps to its topics.
Moves(c) ==
    /\ Others(c) /\ Shape(call'[c]) /\ call[c].op # "none"
    /\ call'[c] = Idle \/ (/\ call'[c].op = call[c].op /\ call'[c].of = call[c].of
                           /\ call'[c].saw = call[c].saw)

LEMMA ResumedMoves ==
    ASSUME TypeOK, NEW c \in Calls, call[c].step \in Recording, AfterRecord(c)
    PROVE  Moves(c) /\ Resumes(c)
<1>1. Others(c) /\ Resumes(c) /\ Shape(call'[c])
  BY AfterRecordDoes
<1>2. call[c].op # "none"
  BY ShapeIs, OpIs, IdleIs DEF Recording
<1> QED
  BY <1>1, <1>2 DEF Resumes, Turned, Moves, Pays

LEMMA EndedMoves ==
    ASSUME TypeOK, NEW c \in Calls, call[c].step # "idle", Done(c)
    PROVE  Moves(c) /\ call'[c] = Idle
<1>1. call[c].op # "none"
  BY ShapeIs, OpIs, IdleIs
<1> QED
  BY <1>1, PutDoes, IdleIs DEF Done, Moves

\* The record a handler is, written out.
Whole(q) ==
    q = [op |-> q.op, of |-> q.of, code |-> q.code, step |-> q.step, seen |-> q.seen,
         saw |-> q.saw, twins |-> q.twins, clash |-> q.clash]

LEMMA RecordingShape ==
    ASSUME TypeOK, NEW c \in Calls, NEW step \in Recording, NEW seen, call[c].step \in Recording,
           Turned(c, call[c].code, step, seen), Whole(call'[c])
    PROVE  Shape(call'[c]) /\ call[c].op \in {"file", "reply", "decide", "escalate", "inbound"}
<1>0. Shape(call[c])
  BY ShapeIs
<1>1. call[c].op \in {"file", "reply", "decide", "escalate", "inbound"}
  BY <1>0, OpIs, IdleIs DEF Recording
<1>2. CASE call[c].op = "file"
  <2>1. call[c].of = "none" /\ call[c].code = "CREATED"
    BY <1>0, <1>2, OpIs
  <2> QED
    BY <1>1, <1>2, <2>1 DEF Turned, Shape, Whole
<1>3. CASE call[c].op = "reply"
  <2>1. call[c].of = "none" /\ call[c].code = "INFO_PROVIDED"
    BY <1>0, <1>3, OpIs
  <2> QED
    BY <1>1, <1>3, <2>1 DEF Turned, Shape, Whole
<1>4. CASE call[c].op = "decide"
  <2>1. /\ call[c].of \in Resolutions /\ call[c].saw \subseteq {"accepted", "rejected"}
        /\ call[c].code \in {"RESOLUTION_ACCEPTED", "RESOLUTION_REJECTED", "REFUND_INITIATED"}
    BY <1>0, <1>4, OpIs DEF Recording
  <2> QED
    BY <1>1, <1>4, <2>1 DEF Turned, Shape, Whole
<1>5. CASE call[c].op = "escalate"
  <2>1. call[c].of \in 1 .. 2 /\ call[c].code = "ESCALATED"
    BY <1>0, <1>5, OpIs DEF Recording
  <2> QED
    BY <1>1, <1>5, <2>1 DEF Turned, Shape, Whole
<1>6. CASE call[c].op = "inbound"
  <2>1. call[c].of \in Events /\ call[c].code = Kind[call[c].of]
    BY <1>0, <1>6, OpIs DEF Recording
  <2> QED
    BY <1>1, <1>6, <2>1 DEF Turned, Shape, Whole
<1> QED
  BY <1>1, <1>2, <1>3, <1>4, <1>5, <1>6

LEMMA ReadCaseDoes ==
    ASSUME TypeOK, NEW c \in Calls, ReadCase(c)
    PROVE  Moves(c) /\ Turned(c, call[c].code, "create", status) /\ call[c].step = "record"
<1>0. Shape(call[c]) /\ call[c].step = "record"
  BY ShapeIs DEF ReadCase, At
<1>1. PICK twins : Put(c, [call[c] EXCEPT !.step = "create", !.seen = status, !.twins = twins])
  BY DEF ReadCase
<1>2. [call[c] EXCEPT !.step = "create", !.seen = status, !.twins = twins]
      = [call[c] EXCEPT !.code = call[c].code, !.step = "create", !.seen = status, !.twins = twins]
  BY <1>0 DEF Shape
<1>3. Put(c, [call[c] EXCEPT !.code = call[c].code, !.step = "create", !.seen = status, !.twins = twins])
  BY <1>1, <1>2
<1>4. Others(c) /\ Turned(c, call[c].code, "create", status) /\ Whole(call'[c])
  BY <1>3, PutTurns DEF Whole
<1>5. "create" \in Recording /\ call[c].step \in Recording
  BY <1>0 DEF Recording
<1>6. Shape(call'[c]) /\ call[c].op # "none"
  BY <1>4, <1>5, RecordingShape
<1> QED
  BY <1>0, <1>4, <1>6 DEF Moves, Turned

LEMMA CreateActionDoes ==
    ASSUME TypeOK, NEW c \in Calls, CreateAction(c)
    PROVE  Moves(c) /\ Turned(c, call[c].code, "advance", call[c].seen) /\ call[c].step = "create"
<1>0. Shape(call[c]) /\ call[c].step = "create"
  BY ShapeIs DEF CreateAction, At
<1>1. /\ DOMAIN call' = Calls
      /\ call'[c] = [call[c] EXCEPT !.step = "advance", !.twins = {}]
      /\ \A d \in Calls \ {c} :
            \/ call'[d] = call[d]
            \/ /\ call[d].step = "create"
               /\ call'[d] = [call[d] EXCEPT !.clash = TRUE, !.twins = {}]
  BY DEF CreateAction, SameId, At
<1>2. ASSUME NEW d \in Calls \ {c} PROVE Same(d) /\ Shape(call'[d])
  <2>1. CASE call'[d] = call[d]
    BY <2>1, ShapeIs DEF Same
  <2>2. CASE /\ call[d].step = "create"
             /\ call'[d] = [call[d] EXCEPT !.clash = TRUE, !.twins = {}]
    <3>1. Shape(call[d])
      BY ShapeIs
    <3>2. Same(d) /\ Whole(call'[d])
      BY <2>2, <3>1 DEF Shape, Same, Whole
    <3>3. call[d].op # "none"
      BY <2>2, <3>1, OpIs, IdleIs
    <3> QED
      BY <3>1, <3>2, <3>3, IdleIs DEF Shape, Same, Whole
  <2> QED
    BY <1>1, <2>1, <2>2
<1>3. Turned(c, call[c].code, "advance", call[c].seen) /\ Whole(call'[c])
  BY <1>0, <1>1 DEF Turned, Whole, Shape
<1>4. "advance" \in Recording /\ call[c].step \in Recording
  BY <1>0 DEF Recording
<1>5. Shape(call'[c]) /\ call[c].op # "none"
  BY <1>3, <1>4, RecordingShape
<1> QED
  BY <1>0, <1>1, <1>2, <1>3, <1>5 DEF Moves, Others, Turned

LEMMA RecordedDoes ==
    ASSUME TypeOK, NEW c \in Calls, SkipAction(c) \/ Advance(c)
    PROVE  /\ Moves(c) /\ Resumes(c)
           /\ call[c].step = (IF SkipAction(c) THEN "record" ELSE "advance")
<1>1. CASE SkipAction(c)
  <2>1. AfterRecord(c) /\ call[c].step = "record"
    BY <1>1 DEF SkipAction, At
  <2> QED
    BY <1>1, <2>1, ResumedMoves DEF Recording
<1>2. CASE Advance(c) /\ ~SkipAction(c)
  <2>1. AfterRecord(c) /\ call[c].step = "advance"
    BY <1>2 DEF Advance, At
  <2> QED
    BY <1>2, <2>1, ResumedMoves DEF Recording
<1> QED
  BY <1>1, <1>2

LEMMA LastStepDoes ==
    ASSUME TypeOK, NEW c \in Calls,
           SendIssue(c) \/ ClearQuestion(c) \/ OfficerWrites(c) \/ SameActionId(c) \/ CutOff(c)
    PROVE  /\ Moves(c) /\ call'[c] = Idle
           /\ SendIssue(c) => call[c].op = "file"
           /\ ClearQuestion(c) => call[c].op = "reply" /\ call[c].step = "clear"
           /\ OfficerWrites(c) => call[c].op \in Desk /\ call[c].step = "write"
<1>1. Done(c) /\ call[c].step # "idle"
  BY DEF SendIssue, ClearQuestion, OfficerWrites, SameActionId, CutOff, Throw, At
<1>2. Shape(call[c])
  BY ShapeIs
<1>3. SendIssue(c) => call[c].op = "file"
  BY <1>2, OpIs, IdleIs DEF SendIssue, At, Recording
<1>4. ClearQuestion(c) => call[c].op = "reply" /\ call[c].step = "clear"
  BY <1>2, OpIs, IdleIs DEF ClearQuestion, At, Recording
<1>5. OfficerWrites(c) => call[c].op \in Desk /\ call[c].step = "write"
  BY <1>2, OpIs, IdleIs DEF OfficerWrites, At, Recording
<1> QED
  BY <1>1, <1>3, <1>4, <1>5, EndedMoves

LEMMA MarkDecisionDoes ==
    ASSUME TypeOK, NEW c \in Calls, MarkDecision(c)
    PROVE  /\ Moves(c) /\ call[c].step = "mark" /\ call[c].op = "decide" /\ call[c].of \in Resolutions
           /\ \E v \in {"accepted", "rejected"} :
                 /\ decision' = [decision EXCEPT ![call[c].of] = v]
                 /\ Turned(c, IF v = "accepted" THEN "RESOLUTION_ACCEPTED" ELSE "RESOLUTION_REJECTED",
                           "record", call[c].seen)
<1>0. Shape(call[c]) /\ call[c].step = "mark"
  BY ShapeIs DEF MarkDecision, At
<1>1. call[c].op = "decide" /\ call[c].of \in Resolutions /\ call[c].saw \subseteq {"accepted", "rejected"}
  BY <1>0, OpIs, IdleIs DEF Recording
<1>2. PICK v \in call[c].saw :
         /\ decision' = [decision EXCEPT ![call[c].of] = v]
         /\ Record(c, IF v = "accepted" THEN "RESOLUTION_ACCEPTED" ELSE "RESOLUTION_REJECTED")
  BY DEF MarkDecision
<1> DEFINE code == IF v = "accepted" THEN "RESOLUTION_ACCEPTED" ELSE "RESOLUTION_REJECTED"
<1>3. Others(c) /\ Turned(c, code, "record", call[c].seen) /\ Whole(call'[c])
  BY <1>2, RecordTurns DEF Whole
<1>4. Shape(call'[c])
  BY <1>1, <1>3 DEF Turned, Whole, Shape, Recording
<1> QED
  BY <1>0, <1>1, <1>2, <1>3, <1>4 DEF Moves, Turned

LEMMA OpenRefundDoes ==
    ASSUME TypeOK, NEW c \in Calls, OpenRefund(c)
    PROVE  /\ Moves(c) /\ call[c].step = "refund" /\ call[c].op = "decide" /\ call[c].of \in Resolutions
           /\ call[c].code = "RESOLUTION_ACCEPTED"
           /\ Turned(c, "REFUND_INITIATED", "record", call[c].seen)
<1>0. Shape(call[c]) /\ call[c].step = "refund"
  BY ShapeIs DEF OpenRefund, At
<1>1. /\ call[c].op = "decide" /\ call[c].of \in Resolutions /\ call[c].saw \subseteq {"accepted", "rejected"}
      /\ call[c].code = "RESOLUTION_ACCEPTED"
  BY <1>0, OpIs, IdleIs DEF Recording
<1>2. Others(c) /\ Turned(c, "REFUND_INITIATED", "record", call[c].seen) /\ Whole(call'[c])
  BY RecordTurns DEF OpenRefund, Whole
<1>3. Shape(call'[c])
  BY <1>1, <1>2 DEF Turned, Whole, Shape, Recording
<1> QED
  BY <1>0, <1>1, <1>2, <1>3 DEF Moves, Turned

LEMMA CreateEscalationDoes ==
    ASSUME TypeOK, NEW c \in Calls, CreateEscalation(c)
    PROVE  /\ Moves(c) /\ call[c].step = "row" /\ call[c].op = "escalate" /\ call[c].of \in 1 .. 2
           /\ Turned(c, call[c].code, "level", call[c].seen)
<1>0. Shape(call[c]) /\ call[c].step = "row"
  BY ShapeIs DEF CreateEscalation, At
<1>1. call[c].op = "escalate" /\ call[c].of \in 1 .. 2
  BY <1>0, OpIs, IdleIs DEF Recording
<1>2. Others(c) /\ Turned(c, call[c].code, "level", call[c].seen) /\ Whole(call'[c])
  BY StepTurns DEF CreateEscalation, Whole
<1>3. Shape(call'[c])
  BY <1>1, <1>2 DEF Turned, Whole, Shape
<1> QED
  BY <1>0, <1>1, <1>2, <1>3 DEF Moves, Turned

LEMMA SetLevelDoes ==
    ASSUME TypeOK, NEW c \in Calls, SetLevel(c)
    PROVE  /\ Moves(c) /\ call[c].step = "level" /\ call[c].op = "escalate" /\ call[c].of \in 1 .. 2
           /\ Turned(c, "ESCALATED", "record", call[c].seen)
<1>0. Shape(call[c]) /\ call[c].step = "level"
  BY ShapeIs DEF SetLevel, At
<1>1. call[c].op = "escalate" /\ call[c].of \in 1 .. 2
  BY <1>0, OpIs, IdleIs DEF Recording
<1>2. Others(c) /\ Turned(c, "ESCALATED", "record", call[c].seen) /\ Whole(call'[c])
  BY RecordTurns DEF SetLevel, Whole
<1>3. Shape(call'[c])
  BY <1>1, <1>2 DEF Turned, Whole, Shape, Recording
<1> QED
  BY <1>0, <1>1, <1>2, <1>3 DEF Moves, Turned

LEMMA StoreMessageDoes ==
    ASSUME TypeOK, NEW c \in Calls, StoreMessage(c)
    PROVE  /\ Moves(c) /\ call[c].step = "store" /\ call[c].op = "inbound" /\ call[c].of \in Events
           /\ \/ call'[c] = Idle /\ Throw(c)
              \/ /\ Turned(c, call[c].code, "apply", call[c].seen)
                 /\ messages' = messages \cup {call[c].of}
                 /\ UNCHANGED <<status, stamped, level, question, trail, decision, refunds, escalations,
                                begun, faults, history>>
<1>0. Shape(call[c]) /\ call[c].step = "store"
  BY ShapeIs DEF StoreMessage, At
<1>1. call[c].op = "inbound" /\ call[c].of \in Events
  BY <1>0, OpIs, IdleIs DEF Recording
<1>2. CASE Throw(c)
  BY <1>0, <1>1, <1>2, EndedMoves DEF Throw
<1>3. CASE Step(c, "apply")
  <2>1. Others(c) /\ Turned(c, call[c].code, "apply", call[c].seen) /\ Whole(call'[c])
    BY <1>3, StepTurns DEF Whole
  <2>2. Shape(call'[c])
    BY <1>1, <2>1 DEF Turned, Whole, Shape
  <2>3. Moves(c)
    BY <1>1, <2>1, <2>2 DEF Moves, Turned
  <2>4. CASE Throw(c)
    BY <2>4, <1>2
  <2>5. CASE ~Throw(c)
    BY <1>0, <1>1, <2>1, <2>3, <2>5 DEF StoreMessage
  <2> QED
    BY <2>4, <2>5
<1> QED
  BY <1>2, <1>3 DEF StoreMessage

LEMMA ApplyEventDoes ==
    ASSUME TypeOK, NEW c \in Calls, ApplyEvent(c)
    PROVE  /\ Moves(c) /\ call[c].step = "apply" /\ call[c].op = "inbound" /\ call[c].of \in Events
           /\ Turned(c, Kind[call[c].of], "record", call[c].seen)
<1>0. Shape(call[c]) /\ call[c].step = "apply"
  BY ShapeIs DEF ApplyEvent, At
<1>1. call[c].op = "inbound" /\ call[c].of \in Events
  BY <1>0, OpIs, IdleIs DEF Recording
<1>2. Others(c) /\ Turned(c, Kind[call[c].of], "record", call[c].seen) /\ Whole(call'[c])
  BY RecordTurns DEF ApplyEvent, Whole
<1>3. Shape(call'[c])
  BY <1>1, <1>2 DEF Turned, Whole, Shape, Recording
<1> QED
  BY <1>0, <1>1, <1>2, <1>3 DEF Moves, Turned

\* A handler begins, and crosses those that are at work on its topics.
Starts(c) ==
    /\ Others(c) /\ Shape(call'[c]) /\ call[c] = Idle
    /\ crossed \subseteq crossed'
    /\ \A d \in Calls : Topics(call'[c]) \cap Topics(call[d]) \subseteq crossed'
    /\ begun' \in 0 .. MaxCalls /\ UNCHANGED <<case, faults, open, cut>>

\* What the five handlers that find a complaint have read when they begin.
StartsAs(c) ==
    \/ call'[c].op = "reply" /\ call'[c].step = "record" /\ call'[c].saw = question /\ question # {}
    \/ /\ call'[c].op = "escalate" /\ call'[c].step = "row" /\ call'[c].of = level + 1
       /\ level < 2 /\ status # "NONE"
    \/ call'[c].op = "decide" /\ call'[c].step = "mark" /\ decision[call'[c].of] = "open"
    \/ /\ call'[c].op = "inbound" /\ call'[c].step = "store" /\ status # "NONE"
       /\ call'[c].of \notin messages
    \/ /\ call'[c].op \in Officers /\ call'[c].step = "write" /\ call'[c].seen = status
       /\ call'[c].saw = Owed(call'[c].op) /\ ~Refused(call'[c].op) /\ status # "NONE"

LEMMA BeginDoes ==
    ASSUME TypeOK, NEW c \in Calls, NEW q, Shape(q), Begin(c, q)
    PROVE  Starts(c) /\ call'[c] = q
<1>1. Others(c) /\ call'[c] = q
  BY PutDoes DEF Begin
<1>2. call[c] = Idle
  <2>1. call[c].step = "idle" /\ Shape(call[c])
    BY ShapeIs DEF Begin, At
  <2> QED
    BY <2>1, OpIs DEF Recording, Desk
<1>3. begun' \in 0 .. MaxCalls
  BY ComplaintsAssumption DEF Begin, TypeOK
<1>4. ASSUME NEW d \in Calls PROVE Topics(q) \cap Topics(call[d]) \subseteq crossed'
  BY DEF Begin
<1> QED
  BY <1>1, <1>2, <1>3, <1>4 DEF Begin, Starts

\* A handler's record, and the locals it has.
Holds(q, op, of, code, step, seen, saw) ==
    /\ Whole(q) /\ q.op = op /\ q.of = of /\ q.code = code
    /\ q.step = step /\ q.seen = seen /\ q.saw = saw

LEMMA NewHolds ==
    ASSUME NEW op, NEW of, NEW step, NEW code, NEW seen, NEW saw
    PROVE  /\ Holds(New(op, of, step), op, of, "none", step, "NONE", {})
           /\ Holds([New(op, of, step) EXCEPT !.code = code], op, of, code, step, "NONE", {})
           /\ Holds([New(op, of, step) EXCEPT !.saw = saw], op, of, "none", step, "NONE", saw)
           /\ Holds([New(op, of, step) EXCEPT !.code = code, !.saw = saw],
                    op, of, code, step, "NONE", saw)
           /\ Holds([New(op, of, step) EXCEPT !.seen = seen, !.saw = saw],
                    op, of, "none", step, seen, saw)
<1> DEFINE i == Idle
           r == [i EXCEPT !.op = op]
           t == [r EXCEPT !.of = of]
           u == [t EXCEPT !.step = step]
<1>1. Whole(i) /\ i.code = "none" /\ i.seen = "NONE" /\ i.saw = {}
  BY DEF Idle, Whole
<1>2. New(op, of, step) = u
  BY DEF New
<1> HIDE DEF i
<1>3. Holds(r, op, i.of, "none", i.step, "NONE", {})
  BY <1>1 DEF Whole, Holds
<1> HIDE DEF r
<1>4. Holds(t, op, of, "none", i.step, "NONE", {})
  BY <1>3 DEF Whole, Holds
<1> HIDE DEF t
<1>5. Holds(u, op, of, "none", step, "NONE", {})
  BY <1>4 DEF Whole, Holds
<1> HIDE DEF u
<1>6. Holds([u EXCEPT !.code = code], op, of, code, step, "NONE", {})
  BY <1>5 DEF Whole, Holds
<1>7. Holds([u EXCEPT !.saw = saw], op, of, "none", step, "NONE", saw)
  BY <1>5 DEF Whole, Holds
<1>8. Holds([u EXCEPT !.code = code, !.saw = saw], op, of, code, step, "NONE", saw)
  <2> DEFINE w == [u EXCEPT !.code = code]
  <2>1. Holds(w, op, of, code, step, "NONE", {})
    BY <1>6
  <2>2. [u EXCEPT !.code = code, !.saw = saw] = [w EXCEPT !.saw = saw]
    OBVIOUS
  <2> HIDE DEF w
  <2>3. Holds([w EXCEPT !.saw = saw], op, of, code, step, "NONE", saw)
    BY <2>1 DEF Whole, Holds
  <2> QED
    BY <2>2, <2>3
<1>9. Holds([u EXCEPT !.seen = seen, !.saw = saw], op, of, "none", step, seen, saw)
  <2> DEFINE w == [u EXCEPT !.seen = seen]
  <2>1. Holds(w, op, of, "none", step, seen, {})
    BY <1>5 DEF Whole, Holds
  <2>2. [u EXCEPT !.seen = seen, !.saw = saw] = [w EXCEPT !.saw = saw]
    OBVIOUS
  <2> HIDE DEF w
  <2>3. Holds([w EXCEPT !.saw = saw], op, of, "none", step, seen, saw)
    BY <2>1 DEF Whole, Holds
  <2> QED
    BY <2>2, <2>3
<1> QED
  BY <1>2, <1>5, <1>6, <1>7, <1>8, <1>9

LEMMA OwedIs ==
    ASSUME NEW op \in Desk
    PROVE  /\ Owed(op) \subseteq Stamps
           /\ op \in {"assign", "contact"} => Owed(op) \subseteq {"assigned", "contacted"}
           /\ op = "conclude" => /\ "resolved" \in Owed(op)
                                 /\ Owed(op) \subseteq {"assigned", "contacted", "resolved"}
           /\ op = "appeal" => Owed(op) = {"appealed"}
           /\ op = "rule" => Owed(op) = {"ruled"}
           /\ \A s \in {"assigned", "contacted"} : s \in Owed(op) => stamped[s] = 0
<1>1. CASE op = "assign"
  BY <1>1 DEF Owed, Missing, Stamps
<1>2. CASE op = "contact"
  BY <1>2 DEF Owed, Missing, Stamps
<1>3. CASE op = "conclude"
  BY <1>3 DEF Owed, Missing, Stamps
<1>4. CASE op = "appeal"
  BY <1>4 DEF Owed, Missing, Stamps
<1>5. CASE op = "rule"
  BY <1>5 DEF Owed, Missing, Stamps
<1> QED
  BY <1>1, <1>2, <1>3, <1>4, <1>5 DEF Desk

LEMMA BegunDoes ==
    ASSUME TypeOK, NEW c \in Calls,
           \/ ProvideInformation(c) \/ EscalateComplaint(c)
           \/ \E r \in Resolutions : \E v \in {"accepted", "rejected"} : DecideResolution(c, r, v)
           \/ \E e \in Events : Deliver(c, e)
           \/ \E op \in Officers : OfficerReads(c, op)
    PROVE  Starts(c) /\ StartsAs(c)
<1>1. CASE ProvideInformation(c)
  <2> DEFINE q == [New("reply", "none", "record") EXCEPT !.code = "INFO_PROVIDED", !.saw = question]
  <2>1. Holds(q, "reply", "none", "INFO_PROVIDED", "record", "NONE", question)
    BY NewHolds
  <2>2. Begin(c, q) /\ question # {}
    BY <1>1 DEF ProvideInformation
  <2> HIDE DEF q
  <2>3. Shape(q)
    BY <2>1 DEF Holds, Whole, Shape, Recording
  <2> QED
    BY <2>1, <2>2, <2>3, BeginDoes DEF Holds, StartsAs
<1>2. CASE EscalateComplaint(c)
  <2> DEFINE q == New("escalate", level + 1, "row")
  <2>1. Holds(q, "escalate", level + 1, "none", "row", "NONE", {})
    BY NewHolds
  <2>2. Begin(c, q) /\ level < 2 /\ status # "NONE" /\ level + 1 \in 1 .. 2
    BY <1>2 DEF EscalateComplaint, TypeOK
  <2> HIDE DEF q
  <2>3. Shape(q)
    BY <2>1, <2>2 DEF Holds, Whole, Shape
  <2> QED
    BY <2>1, <2>2, <2>3, BeginDoes DEF Holds, StartsAs
<1>3. ASSUME NEW r \in Resolutions, NEW v \in {"accepted", "rejected"}, DecideResolution(c, r, v)
      PROVE  Starts(c) /\ StartsAs(c)
  <2> DEFINE q == [New("decide", r, "mark") EXCEPT !.saw = {v}]
  <2>1. Holds(q, "decide", r, "none", "mark", "NONE", {v})
    BY NewHolds
  <2>2. Begin(c, q) /\ decision[r] = "open"
    BY <1>3 DEF DecideResolution
  <2> HIDE DEF q
  <2>3. Shape(q)
    BY <2>1 DEF Holds, Whole, Shape
  <2> QED
    BY <2>1, <2>2, <2>3, BeginDoes DEF Holds, StartsAs
<1>4. ASSUME NEW e \in Events, Deliver(c, e)
      PROVE  Starts(c) /\ StartsAs(c)
  <2> DEFINE q == New("inbound", e, "store")
  <2>1. Holds(q, "inbound", e, "none", "store", "NONE", {})
    BY NewHolds
  <2>2. Begin(c, q) /\ status # "NONE" /\ e \notin messages
    BY <1>4 DEF Deliver
  <2> HIDE DEF q
  <2>3. Shape(q)
    BY <2>1 DEF Holds, Whole, Shape
  <2> QED
    BY <2>1, <2>2, <2>3, BeginDoes DEF Holds, StartsAs
<1>5. ASSUME NEW op \in Officers, OfficerReads(c, op)
      PROVE  Starts(c) /\ StartsAs(c)
  <2> DEFINE q == [New(op, "none", "write") EXCEPT !.seen = status, !.saw = Owed(op)]
  <2>1. Holds(q, op, "none", "none", "write", status, Owed(op))
    BY NewHolds
  <2>2. Begin(c, q) /\ status # "NONE" /\ ~Refused(op)
    BY <1>5 DEF OfficerReads
  <2>3. op \in Desk /\ Owed(op) \subseteq Stamps
    BY ComplaintsAssumption, OwedIs
  <2> HIDE DEF q
  <2>4. Shape(q)
    BY <2>1, <2>3 DEF Holds, Whole, Shape
  <2> QED
    BY <2>1, <2>2, <2>4, BeginDoes DEF Holds, StartsAs
<1> QED
  BY <1>1, <1>2, <1>3, <1>4, <1>5

LEMMA CreateComplaintDoes ==
    ASSUME TypeOK, FiledFirst, NEW c \in Calls, CreateComplaint(c)
    PROVE  /\ Others(c) /\ Shape(call'[c]) /\ call'[c].op = "file" /\ call'[c].step = "record"
           /\ status = "NONE" /\ status' = "OPEN" /\ begun' \in 0 .. MaxCalls
           /\ \A d \in Calls : call[d] = Idle
<1> DEFINE q == [New("file", "none", "record") EXCEPT !.code = "CREATED"]
<1>1. Holds(q, "file", "none", "CREATED", "record", "NONE", {})
  BY NewHolds
<1>2. Put(c, q) /\ begun' \in 0 .. MaxCalls /\ status = "NONE" /\ status' = "OPEN"
  BY ComplaintsAssumption DEF CreateComplaint, TypeOK
<1> HIDE DEF q
<1>3. Shape(q)
  BY <1>1 DEF Holds, Whole, Shape, Recording
<1> QED
  BY <1>1, <1>2, <1>3, PutDoes DEF Holds, FiledFirst

-------------------------------------------------------------------------------
(* Types.                                                                  *)

\* What a handler records is its own action, or the seller's.
LEMMA EntryIs ==
    ASSUME TypeOK, NEW c \in Calls, call[c].step \in Recording
    PROVE  /\ call[c].op = "inbound" =>
                 Entry(c) \in Events /\ Entry(c) = Act[call[c].of] /\ Kind[Entry(c)] = call[c].code
           /\ call[c].op # "inbound" =>
                 Entry(c) = <<call[c].code, call[c].of>> /\ Entry(c) \in OwnActions /\ Entry(c) \notin Events
           /\ call[c].op \in {"file", "reply", "decide", "escalate", "inbound"}
<1>0. Shape(call[c]) /\ call[c].op \in {"file", "reply", "decide", "escalate", "inbound"}
  <2>1. Shape(call[c])
    BY ShapeIs
  <2> QED
    BY <2>1, OpIs, IdleIs DEF Recording
<1>1. CASE call[c].op = "inbound"
  <2>1. call[c].of \in Events /\ call[c].code = Kind[call[c].of]
    BY <1>0, <1>1, OpIs DEF Recording
  <2> QED
    BY <1>1, <2>1, ComplaintsAssumption DEF Entry
<1>2. CASE call[c].op # "inbound"
  <2>1. Entry(c) = <<call[c].code, call[c].of>>
    BY <1>2 DEF Entry
  <2>2. Entry(c) \in OwnActions
    <3>1. CASE call[c].op = "file"
      <4>1. Entry(c) = <<"CREATED", "none">>
        BY <1>0, <2>1, <3>1, OpIs
      <4> QED
        BY <4>1 DEF OwnActions
    <3>2. CASE call[c].op = "reply"
      <4>1. Entry(c) = <<"INFO_PROVIDED", "none">>
        BY <1>0, <2>1, <3>2, OpIs
      <4> QED
        BY <4>1 DEF OwnActions
    <3>3. CASE call[c].op = "decide"
      <4>1. call[c].of \in Resolutions
            /\ call[c].code \in {"RESOLUTION_ACCEPTED", "RESOLUTION_REJECTED", "REFUND_INITIATED"}
        BY <1>0, <3>3, OpIs DEF Recording
      <4> QED
        BY <2>1, <4>1 DEF OwnActions
    <3>4. CASE call[c].op = "escalate"
      <4>1. call[c].of \in 1 .. 2 /\ call[c].code = "ESCALATED"
        BY <1>0, <3>4, OpIs DEF Recording
      <4> QED
        BY <2>1, <4>1 DEF OwnActions
    <3> QED
      BY <1>0, <1>2, <3>1, <3>2, <3>3, <3>4
  <2> QED
    BY <1>0, <1>2, <2>1, <2>2, ComplaintsAssumption
<1> QED
  BY <1>0, <1>1, <1>2

LEMMA CallsTyped ==
    ASSUME NEW c \in Calls, Others(c), Shape(call'[c])
    PROVE  DOMAIN call' = Calls /\ \A d \in Calls : Shape(call'[d])
  BY DEF Others

LEMMA StampTyped ==
    ASSUME TypeOK, NEW names, Stamp(names)
    PROVE  /\ stamped' \in [Stamps -> Nat]
           /\ \A s \in Stamps : stamped'[s] = IF s \in names THEN stamped[s] + 1 ELSE stamped[s]
  BY DEF TypeOK, Stamp

\* The steps that leave most of the case alone, and those that do not.
LEMMA TypeStep ==
    ASSUME IInv, Next
    PROVE  TypeOK'
<1> USE DEF IInv
<1>1. ASSUME NEW c \in Calls, Others(c), Shape(call'[c]),
             begun' \in 0 .. MaxCalls, faults' \in 0 .. MaxFaults,
             UNCHANGED case, open' \subseteq Events
      PROVE  TypeOK'
  BY <1>1, CallsTyped DEF TypeOK, case
<1>2. ASSUME NEW c \in Calls, SkipAction(c) PROVE TypeOK'
  BY <1>1, <1>2, RecordedDoes DEF SkipAction, Moves, TypeOK
<1>3. ASSUME NEW c \in Calls, ReadCase(c) PROVE TypeOK'
  BY <1>1, <1>3, ReadCaseDoes DEF ReadCase, Moves, TypeOK, history
<1>4. ASSUME NEW c \in Calls, CreateAction(c) PROVE TypeOK'
  <2>1. Others(c) /\ Shape(call'[c]) /\ Entry(c) \in Events \cup OwnActions
    BY <1>4, CreateActionDoes, EntryIs DEF Moves, Recording
  <2> QED
    BY <1>4, <2>1, CallsTyped DEF CreateAction, TypeOK
<1>5. ASSUME NEW c \in Calls, SameActionId(c) PROVE TypeOK'
  BY <1>1, <1>5, LastStepDoes DEF SameActionId, Throw, Moves, TypeOK
<1>6. ASSUME NEW c \in Calls, Advance(c) PROVE TypeOK'
  <2>1. Others(c) /\ Shape(call'[c])
    BY <1>6, RecordedDoes DEF Moves
  <2>2. status' \in {"NONE", "ESCALATED", "OPEN", "PROCESSING", "RESOLVED", "CLOSED"}
        /\ stamped' \in [Stamps -> Nat]
    <3>1. CASE Advances(call[c].code, call[c].seen)
      <4>1. status' = STATUS_AFTER[call[c].code]
        BY <1>6, <3>1 DEF Advance
      <4>2. status' \in {"OPEN", "PROCESSING", "RESOLVED", "CLOSED"}
        BY <3>1, <4>1 DEF STATUS_AFTER, Advances
      <4> QED
        BY <1>6, <3>1, <4>2, StampTyped DEF Advance
    <3>2. CASE ~Advances(call[c].code, call[c].seen)
      BY <1>6, <3>2 DEF Advance, TypeOK
    <3> QED
      BY <3>1, <3>2
  <2> QED
    BY <1>6, <2>1, <2>2, CallsTyped DEF Advance, TypeOK, history
<1>7. ASSUME NEW c \in Calls, SendIssue(c) PROVE TypeOK'
  BY <1>7, LastStepDoes, CallsTyped DEF SendIssue, Moves, TypeOK, history
<1>8. ASSUME NEW c \in Calls, ClearQuestion(c) PROVE TypeOK'
  BY <1>8, LastStepDoes, CallsTyped DEF ClearQuestion, Moves, TypeOK, history
<1>9. ASSUME NEW c \in Calls, MarkDecision(c) PROVE TypeOK'
  <2>1. PICK v \in {"accepted", "rejected"} : decision' = [decision EXCEPT ![call[c].of] = v]
    BY <1>9, MarkDecisionDoes
  <2>2. Others(c) /\ Shape(call'[c])
    BY <1>9, MarkDecisionDoes DEF Moves
  <2> QED
    BY <1>9, <2>1, <2>2, CallsTyped DEF MarkDecision, TypeOK, history
<1>10. ASSUME NEW c \in Calls, OpenRefund(c) PROVE TypeOK'
  <2>1. Others(c) /\ Shape(call'[c]) /\ call[c].of \in Resolutions
    BY <1>10, OpenRefundDoes DEF Moves
  <2>2. refunds' \in [Resolutions -> Nat]
    BY <1>10, <2>1 DEF OpenRefund, TypeOK
  <2> QED
    BY <1>10, <2>1, <2>2, CallsTyped DEF OpenRefund, TypeOK, history
<1>11. ASSUME NEW c \in Calls, CreateEscalation(c) PROVE TypeOK'
  <2>1. Others(c) /\ Shape(call'[c]) /\ call[c].of \in 1 .. 2
    BY <1>11, CreateEscalationDoes DEF Moves
  <2>2. escalations' \in [1 .. 2 -> Nat]
    BY <1>11, <2>1 DEF CreateEscalation, TypeOK
  <2> QED
    BY <1>11, <2>1, <2>2, CallsTyped DEF CreateEscalation, TypeOK, history
<1>12. ASSUME NEW c \in Calls, SetLevel(c) PROVE TypeOK'
  BY <1>12, SetLevelDoes, CallsTyped DEF SetLevel, Moves, TypeOK, history
<1>13. ASSUME NEW c \in Calls, StoreMessage(c) PROVE TypeOK'
  <2>1. Others(c) /\ Shape(call'[c]) /\ call[c].of \in Events
    BY <1>13, StoreMessageDoes DEF Moves
  <2>2. CASE Throw(c)
    BY <1>1, <2>1, <2>2 DEF Throw, TypeOK
  <2>3. CASE ~Throw(c)
    BY <1>13, <2>1, <2>3, StoreMessageDoes, CallsTyped DEF TypeOK, history
  <2> QED
    BY <2>2, <2>3
<1>14. ASSUME NEW c \in Calls, ApplyEvent(c) PROVE TypeOK'
  <2>1. Others(c) /\ Shape(call'[c]) /\ call[c].of \in Events
    BY <1>14, ApplyEventDoes DEF Moves
  <2>2. question' \subseteq Events /\ open' \subseteq Events
    BY <1>14, <2>1 DEF ApplyEvent, TypeOK
  <2>3. decision' \in [Resolutions -> {"none", "open", "accepted", "rejected"}]
    BY <1>14 DEF ApplyEvent, TypeOK
  <2> QED
    BY <1>14, <2>1, <2>2, <2>3, CallsTyped DEF ApplyEvent, TypeOK
<1>15. ASSUME NEW c \in Calls, OfficerWrites(c) PROVE TypeOK'
  <2>1. Others(c) /\ Shape(call'[c])
    BY <1>15, LastStepDoes DEF Moves
  <2>2. status' \in {"NONE", "ESCALATED", "OPEN", "PROCESSING", "RESOLVED", "CLOSED"}
    <3>1. status \in {"NONE", "ESCALATED", "OPEN", "PROCESSING", "RESOLVED", "CLOSED"}
      BY DEF TypeOK
    <3>2. status' = StatusWritten(call[c].op, call[c].seen)
      BY <1>15 DEF OfficerWrites
    <3> QED
      BY <3>1, <3>2, Zenon DEF StatusWritten
  <2>3. stamped' \in [Stamps -> Nat]
    BY <1>15, StampTyped DEF OfficerWrites
  <2> QED
    BY <1>15, <2>1, <2>2, <2>3, CallsTyped DEF OfficerWrites, TypeOK, history
<1>16. ASSUME NEW c \in Calls, CutOff(c) PROVE TypeOK'
  <2>1. faults' \in 0 .. MaxFaults
    BY <1>16, ComplaintsAssumption DEF CutOff, TypeOK
  <2> QED
    BY <1>1, <1>16, <2>1, LastStepDoes DEF CutOff, Moves, TypeOK
<1>17. ASSUME NEW c \in Calls, CreateComplaint(c) PROVE TypeOK'
  BY <1>17, CreateComplaintDoes, CallsTyped DEF CreateComplaint, TypeOK, history
<1>18. ASSUME NEW c \in Calls, Starts(c) PROVE TypeOK'
  BY <1>1, <1>18 DEF Starts, TypeOK
<1> QED
  BY <1>2, <1>3, <1>4, <1>5, <1>6, <1>7, <1>8, <1>9, <1>10, <1>11, <1>12, <1>13, <1>14, <1>15,
     <1>16, <1>17, <1>18, BegunDoes DEF Next, Continue

-------------------------------------------------------------------------------
(* Handlers one at a time, the complaint first, the trail and the log.     *)

\* An action goes on with a handler, begins one, or files the complaint.
Goes(c) == Continue(c) \/ CutOff(c)

LEMMA StepIs ==
    ASSUME TypeOK, Next
    PROVE  \E c \in Calls : \/ Goes(c) \/ CreateComplaint(c)
                            \/ Starts(c) /\ StartsAs(c)
  BY BegunDoes DEF Next, Goes

LEMMA GoesMoves ==
    ASSUME TypeOK, NEW c \in Calls, Goes(c)
    PROVE  Moves(c) /\ crossed' = crossed /\ cut \subseteq cut'
<1>1. CASE SkipAction(c)
  BY <1>1, RecordedDoes DEF SkipAction
<1>2. CASE ReadCase(c)
  BY <1>2, ReadCaseDoes DEF ReadCase, history
<1>3. CASE CreateAction(c)
  BY <1>3, CreateActionDoes DEF CreateAction
<1>4. CASE SameActionId(c)
  BY <1>4, LastStepDoes DEF SameActionId, Throw
<1>5. CASE Advance(c)
  BY <1>5, RecordedDoes DEF Advance, history
<1>6. CASE SendIssue(c)
  BY <1>6, LastStepDoes DEF SendIssue, history
<1>7. CASE ClearQuestion(c)
  BY <1>7, LastStepDoes DEF ClearQuestion, history
<1>8. CASE MarkDecision(c)
  BY <1>8, MarkDecisionDoes DEF MarkDecision, history
<1>9. CASE OpenRefund(c)
  BY <1>9, OpenRefundDoes DEF OpenRefund, history
<1>10. CASE CreateEscalation(c)
  BY <1>10, CreateEscalationDoes DEF CreateEscalation, history
<1>11. CASE SetLevel(c)
  BY <1>11, SetLevelDoes DEF SetLevel, history
<1>12. CASE StoreMessage(c)
  BY <1>12, StoreMessageDoes DEF Throw, history
<1>13. CASE ApplyEvent(c)
  BY <1>13, ApplyEventDoes DEF ApplyEvent
<1>14. CASE OfficerWrites(c)
  BY <1>14, LastStepDoes DEF OfficerWrites, history
<1>15. CASE CutOff(c)
  BY <1>15, LastStepDoes DEF CutOff
<1> QED
  BY <1>1, <1>2, <1>3, <1>4, <1>5, <1>6, <1>7, <1>8, <1>9, <1>10, <1>11, <1>12, <1>13, <1>14, <1>15
     DEF Goes, Continue

LEMMA OneAtATimeStep ==
    ASSUME IInv, Next
    PROVE  OneAtATime'
<1> USE DEF IInv
<1>1. PICK c \in Calls : Goes(c) \/ CreateComplaint(c) \/ (Starts(c) /\ StartsAs(c))
  BY StepIs
<1>2. \A d \in Calls \ {c} : Topics(call'[d]) = Topics(call[d])
  <2>1. Others(c)
    BY <1>1, GoesMoves, CreateComplaintDoes DEF Moves, Starts
  <2> QED
    BY <2>1, SameTopics DEF Others, Same
<1>3. CASE Goes(c)
  <2>1. Moves(c) /\ crossed' = crossed
    BY <1>3, GoesMoves
  <2>2. Topics(call'[c]) \subseteq Topics(call[c])
    BY <2>1, IdleIs, SameTopics DEF Moves
  <2> QED
    BY <1>2, <2>1, <2>2 DEF OneAtATime
<1>4. CASE CreateComplaint(c)
  <2>1. \A d \in Calls : Topics(call[d]) = {}
    BY <1>4, CreateComplaintDoes, IdleIs
  <2> QED
    BY <1>2, <2>1 DEF OneAtATime
<1>5. CASE Starts(c)
  <2>1. crossed \subseteq crossed' /\ \A d \in Calls : Topics(call'[c]) \cap Topics(call[d]) \subseteq crossed'
    BY <1>5 DEF Starts
  <2> QED
    BY <1>2, <2>1 DEF OneAtATime
<1> QED
  BY <1>1, <1>3, <1>4, <1>5

LEMMA FiledStep ==
    ASSUME IInv, Next
    PROVE  FiledFirst'
<1> USE DEF IInv
<1>1. PICK c \in Calls : Goes(c) \/ CreateComplaint(c) \/ (Starts(c) /\ StartsAs(c))
  BY StepIs
<1>2. status' # "NONE"
  <2>1. CASE Goes(c)
    <3>1. status # "NONE"
      BY <2>1, GoesMoves, IdleIs DEF Moves, FiledFirst
    <3>2. CASE Advance(c)
      <4>1. CASE Advances(call[c].code, call[c].seen)
        <5>1. status' = STATUS_AFTER[call[c].code]
          BY <3>2, <4>1 DEF Advance
        <5> QED
          BY <4>1, <5>1 DEF STATUS_AFTER, Advances
      <4> QED
        BY <3>1, <3>2, <4>1 DEF Advance
    <3>3. CASE OfficerWrites(c)
      <4>1. status' = StatusWritten(call[c].op, call[c].seen)
        BY <3>3 DEF OfficerWrites
      <4> QED
        BY <3>1, <4>1, Zenon DEF StatusWritten
    <3>4. CASE ~Advance(c) /\ ~OfficerWrites(c)
      <4>1. status' = status
        BY <2>1, <3>4, StoreMessageDoes
           DEF Goes, Continue, case, SkipAction, ReadCase, CreateAction, SameActionId, Throw, SendIssue,
               ClearQuestion, MarkDecision, OpenRefund, CreateEscalation, SetLevel, ApplyEvent, CutOff
      <4> QED
        BY <3>1, <4>1
    <3> QED
      BY <3>2, <3>3, <3>4
  <2>2. CASE CreateComplaint(c)
    BY <2>2, CreateComplaintDoes
  <2>3. CASE Starts(c) /\ StartsAs(c)
    <3>1. Shape(call'[c]) /\ status' = status
      BY <2>3 DEF Starts, case
    <3>2. call'[c].op = "decide" => call'[c].of \in Resolutions
      BY <3>1, OpIs
    <3> QED
      BY <2>3, <3>1, <3>2 DEF StartsAs, FiledFirst
  <2> QED
    BY <1>1, <2>1, <2>2, <2>3
<1> QED
  BY <1>2 DEF FiledFirst

\* Who else is at a step, and with what, is not changed by the action.
LEMMA OthersKeep ==
    ASSUME NEW c \in Calls, Others(c), NEW d \in Calls, d # c
    PROVE  /\ call'[d].op = call[d].op /\ call'[d].of = call[d].of /\ call'[d].code = call[d].code
           /\ call'[d].step = call[d].step /\ call'[d].seen = call[d].seen /\ call'[d].saw = call[d].saw
  BY DEF Others, Same

LEMMA GoesTrail ==
    ASSUME TypeOK, NEW c \in Calls, Goes(c), ~CreateAction(c)
    PROVE  trail' = trail /\ call'[c].step # "advance"
<1>1. CASE SkipAction(c)
  BY <1>1, RecordedDoes, IdleIs DEF SkipAction, case, Resumes, Turned
<1>2. CASE ReadCase(c)
  BY <1>2, ReadCaseDoes DEF ReadCase, case, Turned
<1>3. CASE SameActionId(c)
  BY <1>3, LastStepDoes, IdleIs DEF SameActionId, Throw, case
<1>4. CASE Advance(c)
  BY <1>4, RecordedDoes, IdleIs DEF Advance, Resumes, Turned
<1>5. CASE SendIssue(c)
  BY <1>5, LastStepDoes, IdleIs DEF SendIssue
<1>6. CASE ClearQuestion(c)
  BY <1>6, LastStepDoes, IdleIs DEF ClearQuestion
<1>7. CASE MarkDecision(c)
  BY <1>7, MarkDecisionDoes DEF MarkDecision, Turned
<1>8. CASE OpenRefund(c)
  BY <1>8, OpenRefundDoes DEF OpenRefund, Turned
<1>9. CASE CreateEscalation(c)
  BY <1>9, CreateEscalationDoes DEF CreateEscalation, Turned
<1>10. CASE SetLevel(c)
  BY <1>10, SetLevelDoes DEF SetLevel, Turned
<1>11. CASE StoreMessage(c)
  BY <1>11, StoreMessageDoes, IdleIs DEF Throw, case, Turned
<1>12. CASE ApplyEvent(c)
  BY <1>12, ApplyEventDoes DEF ApplyEvent, Turned
<1>13. CASE OfficerWrites(c)
  BY <1>13, LastStepDoes, IdleIs DEF OfficerWrites
<1>14. CASE CutOff(c)
  BY <1>14, LastStepDoes, IdleIs DEF CutOff, case
<1> QED
  BY <1>1, <1>2, <1>3, <1>4, <1>5, <1>6, <1>7, <1>8, <1>9, <1>10, <1>11, <1>12, <1>13, <1>14
     DEF Goes, Continue

LEMMA RecordedStep ==
    ASSUME IInv, Next
    PROVE  RecordedInv'
<1> USE DEF IInv
<1>1. PICK c \in Calls : Goes(c) \/ CreateComplaint(c) \/ (Starts(c) /\ StartsAs(c))
  BY StepIs
<1>2. trail \subseteq trail' /\ (~CreateAction(c) => call'[c].step # "advance") /\ Others(c)
  <2>1. CASE Goes(c) /\ ~CreateAction(c)
    BY <2>1, GoesTrail, GoesMoves DEF Moves
  <2>2. CASE CreateAction(c)
    BY <2>2, CreateActionDoes DEF CreateAction, Moves
  <2>3. CASE CreateComplaint(c)
    BY <2>3, CreateComplaintDoes DEF CreateComplaint
  <2>4. CASE Starts(c) /\ StartsAs(c)
    BY <2>4, ComplaintsAssumption DEF Starts, StartsAs, case, Desk
  <2> QED
    BY <1>1, <2>1, <2>2, <2>3, <2>4
<1>3. ASSUME NEW d \in Calls, call'[d].step = "advance" PROVE Entry(d)' \in trail'
  <2>1. CASE d = c
    <3>1. CreateAction(c)
      BY <1>2, <1>3, <2>1
    <3>2. /\ call'[c].op = call[c].op /\ call'[c].of = call[c].of /\ call'[c].code = call[c].code
          /\ trail' = trail \cup {Entry(c)}
      BY <3>1, CreateActionDoes DEF CreateAction, Turned
    <3> QED
      BY <2>1, <3>2 DEF Entry
  <2>2. CASE d # c
    <3>1. /\ call'[d].op = call[d].op /\ call'[d].of = call[d].of /\ call'[d].code = call[d].code
          /\ call'[d].step = call[d].step
      BY <1>2, <2>2, OthersKeep
    <3>2. Entry(d) \in trail
      BY <1>3, <3>1 DEF RecordedInv, At
    <3> QED
      BY <1>2, <3>1, <3>2 DEF Entry
  <2> QED
    BY <2>1, <2>2
<1> QED
  BY <1>3 DEF RecordedInv, At

LEMMA AppliedStep ==
    ASSUME IInv, Next
    PROVE  AppliedInv'
<1> USE DEF IInv
<1>1. PICK c \in Calls : Goes(c) \/ CreateComplaint(c) \/ (Starts(c) /\ StartsAs(c))
  BY StepIs
<1>2. Others(c)
  BY <1>1, GoesMoves, CreateComplaintDoes DEF Moves, Starts
\* A message is added by its own handler, and nothing is taken away.
<1>3. ASSUME NEW e \in messages' \cap Events
      PROVE  \/ Act[e] \in trail \/ e \in cut
             \/ \E d \in Calls : call[d].op = "inbound" /\ call[d].of = e
  <2>1. CASE e \in messages
    BY <2>1 DEF AppliedInv
  <2>2. CASE e \notin messages
    <3>1. CASE StoreMessage(c)
      BY <1>3, <2>2, <3>1, StoreMessageDoes DEF Throw, case
    <3>2. CASE SendIssue(c)
      BY <1>3, <2>2, <3>2, ComplaintsAssumption DEF SendIssue
    <3>3. CASE ~StoreMessage(c) /\ ~SendIssue(c)
      <4>1. messages' = messages
        BY <1>1, <3>3
           DEF Goes, Continue, case, SkipAction, ReadCase, CreateAction, SameActionId, Throw, Advance,
               ClearQuestion, MarkDecision, OpenRefund, CreateEscalation, SetLevel, ApplyEvent, CutOff,
               OfficerWrites, CreateComplaint, Starts
      <4> QED
        BY <1>3, <2>2, <4>1
    <3> QED
      BY <3>1, <3>2, <3>3
  <2> QED
    BY <2>1, <2>2
<1>4. trail \subseteq trail' /\ cut \subseteq cut'
  <2>1. CASE Goes(c)
    BY <2>1, GoesTrail, GoesMoves DEF CreateAction
  <2>2. CASE CreateComplaint(c)
    BY <2>2 DEF CreateComplaint, history
  <2>3. CASE Starts(c)
    BY <2>3 DEF Starts, case
  <2> QED
    BY <1>1, <2>1, <2>2, <2>3
\* The handler of a message ends when its action is on the trail, or is cut short.
<1>5. ASSUME call[c].op = "inbound", call'[c].op # "inbound" \/ call'[c].of # call[c].of
      PROVE  Act[call[c].of] \in trail \/ call[c].of \in cut'
  <2>1. Goes(c) /\ Shape(call[c]) /\ call[c].of \in Topics(call[c])
    <3>1. Shape(call[c])
      BY ShapeIs
    <3> QED
      BY <1>1, <1>5, <3>1, TopicsOf, CreateComplaintDoes, IdleIs DEF Starts
  <2>2. CASE SkipAction(c)
    BY <1>5, <2>2 DEF SkipAction, Own, Entry
  <2>3. CASE Advance(c)
    BY <1>5, <2>3 DEF Advance, RecordedInv, Entry
  <2>4. CASE SameActionId(c) \/ CutOff(c)
    BY <2>1, <2>4 DEF SameActionId, CutOff, Throw
  <2>5. CASE StoreMessage(c)
    BY <1>5, <2>1, <2>5, StoreMessageDoes DEF Throw, Turned
  <2>6. CASE ReadCase(c) \/ CreateAction(c) \/ ApplyEvent(c)
    BY <1>5, <2>6, ReadCaseDoes, CreateActionDoes, ApplyEventDoes DEF Turned
  <2>7. CASE \/ SendIssue(c) \/ ClearQuestion(c) \/ OfficerWrites(c) \/ MarkDecision(c)
             \/ OpenRefund(c) \/ CreateEscalation(c) \/ SetLevel(c)
    BY <1>5, <2>7, LastStepDoes, MarkDecisionDoes, OpenRefundDoes, CreateEscalationDoes, SetLevelDoes
       DEF Desk
  <2> QED
    BY <2>1, <2>2, <2>3, <2>4, <2>5, <2>6, <2>7 DEF Goes, Continue
<1>6. ASSUME NEW e \in messages' \cap Events
      PROVE  \/ Act[e] \in trail' \/ e \in cut'
             \/ \E d \in Calls : call'[d].op = "inbound" /\ call'[d].of = e
  <2>1. CASE Act[e] \in trail \/ e \in cut
    BY <1>4, <2>1
  <2>2. ASSUME NEW d \in Calls, call[d].op = "inbound", call[d].of = e
        PROVE  \/ Act[e] \in trail' \/ e \in cut'
               \/ \E x \in Calls : call'[x].op = "inbound" /\ call'[x].of = e
    <3>1. CASE d = c
      BY <1>4, <1>5, <2>2, <3>1
    <3>2. CASE d # c
      BY <1>2, <2>2, <3>2, OthersKeep
    <3> QED
      BY <3>1, <3>2
  <2> QED
    BY <1>3, <2>1, <2>2
<1> QED
  BY <1>6 DEF AppliedInv

-------------------------------------------------------------------------------
(* A resolution that was decided once.                                     *)

Deciding(c, r) == call[c].op = "decide" /\ call[c].of = r

\* With one decision of it, the resolution is what that decision makes it.
LEMMA OneDecision ==
    ASSUME IInv, NEW r \in Money \ crossed, NEW c \in Calls, NEW d \in Calls,
           Deciding(c, r), Deciding(d, r)
    PROVE  c = d
<1>1. r \in Topics(call[c]) /\ r \in Topics(call[d])
  BY ShapeIs, TopicsOf DEF Deciding, IInv
<1> QED
  BY <1>1 DEF OneAtATime, IInv

LEMMA DecisionKeep ==
    ASSUME IInv, NEW r \in Money \ crossed, NEW c \in Calls, Others(c),
           ~Deciding(c, r), ~Deciding(c, r)', cut \subseteq cut', refunds'[r] = refunds[r],
           decision'[r] = decision[r] \/ (decision[r] = "none" /\ decision'[r] = "open")
    PROVE  Decided(r)'
<1>1. Decided(r)
  BY DEF IInv, DecisionInv
<1>2. ASSUME NEW d \in Calls, Deciding(d, r)'
      PROVE  /\ d # c /\ Deciding(d, r) /\ call'[d].code = call[d].code /\ call'[d].step = call[d].step
             /\ decision[r] # "none"
  <2>1. d # c /\ Deciding(d, r) /\ call'[d].code = call[d].code /\ call'[d].step = call[d].step
    BY <1>2, OthersKeep DEF Deciding
  <2> QED
    BY <1>1, <2>1 DEF Decided, Deciding
<1>3. ASSUME NEW d \in Calls, Deciding(d, r) PROVE Deciding(d, r)'
  BY <1>3, OthersKeep DEF Deciding
<1> QED
  BY <1>1, <1>2, <1>3 DEF Decided, Deciding

\* What remains to be shown of the one handler that decides.
LEMMA DecisionMove ==
    ASSUME IInv, NEW r \in Money \ crossed, NEW c \in Calls, Others(c), Deciding(c, r),
           refunds'[r] = 0 \/ (refunds'[r] = 1 /\ decision'[r] = "accepted"),
           decision'[r] = "accepted" => refunds'[r] = 1 \/ r \in cut' \/ Deciding(c, r)',
           Deciding(c, r)' =>
              /\ call'[c].step = "mark" => decision'[r] = "open"
              /\ call'[c].step # "mark" =>
                    decision'[r] = (IF call'[c].code = "RESOLUTION_REJECTED" THEN "rejected" ELSE "accepted")
              /\ call'[c].step # "mark" /\ call'[c].code = "REFUND_INITIATED" => refunds'[r] = 1
              /\ call'[c].step = "refund" => refunds'[r] = 0
              /\ call'[c].step \in Recording /\ call'[c].code = "RESOLUTION_ACCEPTED" => refunds'[r] = 0
    PROVE  Decided(r)'
<1>1. ASSUME NEW d \in Calls, Deciding(d, r)' PROVE d = c
  <2>1. CASE d # c
    <3>1. Deciding(d, r)
      BY <1>1, <2>1, OthersKeep DEF Deciding
    <3> QED
      BY <3>1, OneDecision
  <2> QED
    BY <2>1
<1> QED
  BY <1>1 DEF Decided, Deciding

LEMMA DecisionStep ==
    ASSUME IInv, Next
    PROVE  DecisionInv'
<1>1. TypeOK /\ FiledFirst
  BY DEF IInv
<1>2. PICK c \in Calls : Goes(c) \/ CreateComplaint(c) \/ (Starts(c) /\ StartsAs(c))
  BY <1>1, StepIs
<1> SUFFICES ASSUME NEW r \in Money, r \notin crossed' PROVE Decided(r)'
  BY DEF DecisionInv
<1>3. Others(c) /\ Shape(call[c]) /\ Shape(call'[c]) /\ r \in Resolutions
  BY <1>1, <1>2, GoesMoves, CreateComplaintDoes, ShapeIs, ComplaintsAssumption DEF Moves, Starts
<1>4. r \in Money \ crossed
  BY <1>1, <1>2, GoesMoves DEF CreateComplaint, history, Starts
<1>5. Decided(r)
  BY <1>4 DEF IInv, DecisionInv
<1>6. /\ decision \in [Resolutions -> {"none", "open", "accepted", "rejected"}]
      /\ refunds \in [Resolutions -> Nat]
  BY <1>1 DEF TypeOK
<1>7. CASE CreateComplaint(c)
  <2>1. ~Deciding(c, r) /\ ~Deciding(c, r)' /\ cut' = cut /\ refunds' = refunds /\ decision' = decision
    BY <1>1, <1>7, CreateComplaintDoes, IdleIs DEF Deciding, CreateComplaint, history
  <2> QED
    BY <1>3, <1>4, <2>1, DecisionKeep
<1>8. CASE Starts(c) /\ StartsAs(c)
  <2>1. ~Deciding(c, r) /\ cut' = cut /\ refunds' = refunds /\ decision' = decision
    BY <1>8, IdleIs DEF Deciding, Starts, case
  <2>2. CASE Deciding(c, r)'
    <3>1. call'[c].step = "mark" /\ decision[r] = "open"
      BY <1>8, <2>2, ComplaintsAssumption DEF StartsAs, Deciding, Desk
    <3>2. ASSUME NEW d \in Calls, d # c PROVE ~Deciding(d, r) /\ ~Deciding(d, r)'
      <4>1. r \in Topics(call'[c]) /\ Shape(call[d])
        BY <1>1, <1>3, <2>2, ShapeIs, TopicsOf DEF Deciding
      <4>2. r \notin Topics(call[d])
        BY <1>8, <4>1 DEF Starts
      <4>3. ~Deciding(d, r)
        BY <4>1, <4>2, TopicsOf DEF Deciding
      <4> QED
        BY <1>3, <3>2, <4>3, OthersKeep DEF Deciding
    <3>3. refunds[r] = 0
      BY <1>5, <3>1 DEF Decided
    <3> QED
      BY <2>1, <3>1, <3>2, <3>3 DEF Decided, Deciding, Recording
  <2>3. CASE ~Deciding(c, r)'
    BY <1>3, <1>4, <2>1, <2>3, DecisionKeep
  <2> QED
    BY <2>2, <2>3
<1>9. CASE Goes(c) /\ ~Deciding(c, r)
  <2>1. ~Deciding(c, r)' /\ cut \subseteq cut'
    BY <1>1, <1>9, GoesMoves, IdleIs DEF Moves, Deciding
  <2>2. CASE MarkDecision(c)
    BY <1>1, <1>3, <1>4, <1>6, <1>9, <2>1, <2>2, MarkDecisionDoes, DecisionKeep DEF MarkDecision, Deciding
  <2>3. CASE OpenRefund(c)
    BY <1>1, <1>3, <1>4, <1>6, <1>9, <2>1, <2>3, OpenRefundDoes, DecisionKeep DEF OpenRefund, Deciding
  <2>4. CASE ApplyEvent(c)
    <3>1. decision'[r] = decision[r] \/ (decision[r] = "none" /\ decision'[r] = "open")
      BY <1>3, <2>4 DEF ApplyEvent
    <3> QED
      BY <1>3, <1>4, <1>9, <2>1, <2>4, <3>1, DecisionKeep DEF ApplyEvent
  <2>5. CASE ~MarkDecision(c) /\ ~OpenRefund(c) /\ ~ApplyEvent(c)
    <3>1. decision' = decision /\ refunds' = refunds
      BY <1>1, <1>9, <2>5, StoreMessageDoes
         DEF Goes, Continue, case, SkipAction, ReadCase, CreateAction, SameActionId, Throw, Advance,
             SendIssue, ClearQuestion, CreateEscalation, SetLevel, CutOff, OfficerWrites
    <3> QED
      BY <1>3, <1>4, <1>9, <2>1, <3>1, DecisionKeep
  <2> QED
    BY <2>2, <2>3, <2>4, <2>5
<1>10. CASE Goes(c) /\ Deciding(c, r)
  <2>1. r \in Topics(call[c]) /\ call[c].op = "decide" /\ call[c].of = r /\ call[c].of \in Money
    BY <1>3, <1>10, TopicsOf DEF Deciding
  <2>2. /\ call[c].step = "mark" => decision[r] = "open"
        /\ call[c].step # "mark" =>
              decision[r] = (IF call[c].code = "RESOLUTION_REJECTED" THEN "rejected" ELSE "accepted")
        /\ call[c].step # "mark" /\ call[c].code = "REFUND_INITIATED" => refunds[r] = 1
        /\ call[c].step = "refund" => refunds[r] = 0
        /\ call[c].step \in Recording /\ call[c].code = "RESOLUTION_ACCEPTED" => refunds[r] = 0
        /\ refunds[r] = 0 \/ (refunds[r] = 1 /\ decision[r] = "accepted")
    BY <1>5, <2>1 DEF Decided
  <2>3. CASE SkipAction(c) \/ Advance(c)
    <3>1. decision' = decision /\ refunds' = refunds /\ call[c].step \in {"record", "advance"} /\ Resumes(c)
      BY <1>1, <2>3, RecordedDoes DEF SkipAction, Advance, case
    <3>2. /\ call[c].step \in Recording /\ call[c].step # "mark"
          /\ call[c].code \in {"RESOLUTION_ACCEPTED", "RESOLUTION_REJECTED", "REFUND_INITIATED"}
      BY <1>3, <2>1, <3>1, OpIs DEF Recording
    <3>3. CASE call'[c] = Idle
      <4>1. call[c].code # "RESOLUTION_ACCEPTED"
        BY <2>1, <3>1, <3>3, IdleIs DEF Resumes, Turned, Pays
      <4>2. ~Deciding(c, r)'
        BY <3>3, IdleIs DEF Deciding
      <4> QED
        BY <1>3, <1>4, <1>10, <2>2, <3>1, <3>2, <4>1, <4>2, DecisionMove
    <3>4. CASE Turned(c, call[c].code, "refund", call[c].seen) /\ Pays(c)
      <4>1. call'[c].step \notin Recording /\ Deciding(c, r)'
        BY <2>1, <3>4 DEF Turned, Recording, Deciding
      <4> QED
        BY <1>3, <1>4, <1>10, <2>2, <3>1, <3>2, <3>4, <4>1, DecisionMove DEF Turned, Pays
    <3> QED
      BY <2>1, <3>1, <3>3, <3>4 DEF Resumes
  <2>4. CASE ReadCase(c) \/ CreateAction(c)
    <3>1. /\ decision' = decision /\ refunds' = refunds /\ call[c].step \in {"record", "create"}
          /\ call'[c].step \in {"create", "advance"} /\ call'[c].code = call[c].code /\ Deciding(c, r)'
      BY <1>1, <2>1, <2>4, ReadCaseDoes, CreateActionDoes
         DEF ReadCase, CreateAction, case, Turned, Deciding
    <3> QED
      BY <1>3, <1>4, <1>10, <2>2, <3>1, DecisionMove DEF Recording
  <2>5. CASE SameActionId(c) \/ CutOff(c)
    <3>1. decision' = decision /\ refunds' = refunds /\ r \in cut' /\ ~Deciding(c, r)'
      BY <1>1, <2>1, <2>5, LastStepDoes, IdleIs DEF SameActionId, CutOff, Throw, case, Deciding
    <3> QED
      BY <1>3, <1>4, <1>10, <2>2, <3>1, DecisionMove
  <2>6. CASE MarkDecision(c)
    <3>1. PICK v \in {"accepted", "rejected"} :
             /\ decision' = [decision EXCEPT ![call[c].of] = v]
             /\ Turned(c, IF v = "accepted" THEN "RESOLUTION_ACCEPTED" ELSE "RESOLUTION_REJECTED",
                       "record", call[c].seen)
      BY <1>1, <2>6, MarkDecisionDoes
    <3>2. call[c].step = "mark" /\ refunds' = refunds
      BY <1>1, <2>6, MarkDecisionDoes DEF MarkDecision
    <3>3. refunds'[r] = 0 /\ decision'[r] = v /\ Deciding(c, r)'
      BY <1>3, <1>6, <2>1, <2>2, <3>1, <3>2 DEF Turned, Deciding
    <3>4. /\ call'[c].step = "record"
          /\ call'[c].code = IF v = "accepted" THEN "RESOLUTION_ACCEPTED" ELSE "RESOLUTION_REJECTED"
      BY <3>1 DEF Turned
    <3> QED
      BY <1>3, <1>4, <1>10, <3>3, <3>4, DecisionMove
  <2>7. CASE OpenRefund(c)
    <3>1. /\ call[c].step = "refund" /\ call[c].code = "RESOLUTION_ACCEPTED"
          /\ Turned(c, "REFUND_INITIATED", "record", call[c].seen)
          /\ decision' = decision /\ refunds' = [refunds EXCEPT ![call[c].of] = @ + 1]
      BY <1>1, <2>7, OpenRefundDoes DEF OpenRefund
    <3>2. refunds'[r] = 1 /\ decision'[r] = "accepted" /\ Deciding(c, r)'
      BY <1>3, <1>6, <2>1, <2>2, <3>1 DEF Turned, Deciding
    <3> QED
      BY <1>3, <1>4, <1>10, <3>1, <3>2, DecisionMove DEF Turned
  <2>8. CASE \/ SendIssue(c) \/ ClearQuestion(c) \/ OfficerWrites(c) \/ CreateEscalation(c)
             \/ SetLevel(c) \/ StoreMessage(c) \/ ApplyEvent(c)
    BY <1>1, <2>1, <2>8, LastStepDoes, CreateEscalationDoes, SetLevelDoes, StoreMessageDoes, ApplyEventDoes
       DEF Desk
  <2> QED
    BY <1>10, <2>3, <2>4, <2>5, <2>6, <2>7, <2>8 DEF Goes, Continue
<1> QED
  BY <1>2, <1>7, <1>8, <1>9, <1>10

-------------------------------------------------------------------------------
(* The question that is shown.                                             *)

Replying(c) == call[c].op = "reply"

LEMMA QuestionKeep ==
    ASSUME IInv, NEW c \in Calls, Others(c), QuestionInv, "question" \notin crossed \cup cut,
           ~Replying(c), ~Replying(c)', question' = question, open' = open
    PROVE  QuestionInv'
<1>1. \A d \in Calls : d # c => /\ call'[d].op = call[d].op /\ call'[d].step = call[d].step
                                /\ call'[d].saw = call[d].saw
  BY OthersKeep
<1>2. \A d \in Calls : Replying(d)' =>
         /\ Replying(d) /\ call'[d].step = call[d].step /\ call'[d].saw = call[d].saw
  BY <1>1 DEF Replying
<1>3. \A d \in Calls : Replying(d) => Replying(d)' /\ call'[d].step = call[d].step
  BY <1>1 DEF Replying
<1> QED
  BY <1>2, <1>3 DEF QuestionInv, Replying

LEMMA QuestionStep ==
    ASSUME IInv, Next
    PROVE  QuestionInv'
<1>1. TypeOK /\ FiledFirst /\ OneAtATime /\ QuestionInv
  BY DEF IInv
<1>2. PICK c \in Calls : Goes(c) \/ CreateComplaint(c) \/ (Starts(c) /\ StartsAs(c))
  BY <1>1, StepIs
<1> SUFFICES ASSUME "question" \notin crossed' \cup cut' PROVE QuestionInv'
  BY DEF QuestionInv
<1>3. Others(c) /\ Shape(call[c]) /\ Shape(call'[c])
  BY <1>1, <1>2, GoesMoves, CreateComplaintDoes, ShapeIs DEF Moves, Starts
<1>4. "question" \notin crossed \cup cut
  BY <1>1, <1>2, GoesMoves DEF CreateComplaint, history, Starts
<1>5. /\ \A d \in Calls : Replying(d) =>
            IF call[d].step \in {"record", "create"} THEN call[d].saw = question ELSE open = {}
      /\ question = open \/ \E d \in Calls : Replying(d) /\ call[d].step \in {"advance", "clear"}
  BY <1>1, <1>4 DEF QuestionInv, Replying
<1>6. CASE CreateComplaint(c)
  <2>1. ~Replying(c) /\ ~Replying(c)' /\ question' = question /\ open' = open
    BY <1>1, <1>6, CreateComplaintDoes, IdleIs DEF Replying, CreateComplaint, history
  <2> QED
    BY <1>1, <1>3, <1>4, <2>1, QuestionKeep
<1>7. CASE Starts(c) /\ StartsAs(c)
  <2>1. ~Replying(c) /\ question' = question /\ open' = open
    BY <1>7, IdleIs DEF Replying, Starts, case
  <2>2. CASE Replying(c)'
    <3>1. call'[c].step = "record" /\ call'[c].saw = question
      BY <1>7, <2>2, ComplaintsAssumption DEF StartsAs, Replying, Desk
    <3>2. ASSUME NEW d \in Calls, d # c PROVE ~Replying(d) /\ ~Replying(d)'
      <4>1. "question" \in Topics(call'[c]) /\ Shape(call[d])
        BY <1>1, <1>3, <2>2, ShapeIs, TopicsOf DEF Replying
      <4>2. "question" \notin Topics(call[d])
        BY <1>7, <4>1 DEF Starts
      <4>3. ~Replying(d)
        BY <4>1, <4>2, TopicsOf DEF Replying
      <4> QED
        BY <1>3, <3>2, <4>3, OthersKeep DEF Replying
    <3>3. question = open
      BY <1>5, <2>1, <3>2
    <3> QED
      BY <2>1, <3>1, <3>2, <3>3 DEF QuestionInv, Replying
  <2>3. CASE ~Replying(c)'
    BY <1>1, <1>3, <1>4, <2>1, <2>3, QuestionKeep
  <2> QED
    BY <2>2, <2>3
<1>8. CASE Goes(c) /\ ~Replying(c)
  <2>1. ~Replying(c)'
    BY <1>1, <1>8, GoesMoves, IdleIs DEF Moves, Replying
  <2>2. CASE ApplyEvent(c) /\ Kind[call[c].of] = "INFO_REQUESTED"
    <3>1. question' = {call[c].of} /\ open' = question' /\ "question" \in Topics(call[c])
      BY <1>1, <1>3, <2>2, ApplyEventDoes, TopicsOf DEF ApplyEvent
    <3>2. ASSUME NEW d \in Calls PROVE ~Replying(d)'
      <4>1. CASE d # c /\ Replying(d)
        <5>1. "question" \in Topics(call[d])
          BY <1>1, <4>1, ShapeIs, TopicsOf DEF Replying
        <5> QED
          BY <1>1, <1>4, <3>1, <4>1, <5>1 DEF OneAtATime
      <4> QED
        BY <1>3, <2>1, <4>1, OthersKeep DEF Replying
    <3> QED
      BY <3>1, <3>2 DEF QuestionInv, Replying
  <2>3. CASE ApplyEvent(c) /\ Kind[call[c].of] # "INFO_REQUESTED"
    BY <1>1, <1>3, <1>4, <1>8, <2>1, <2>3, QuestionKeep DEF ApplyEvent
  <2>4. CASE CreateAction(c)
    <3>1. call[c].code # "INFO_PROVIDED"
      <4>1. call[c].step = "create"
        BY <1>1, <2>4, CreateActionDoes
      <4>2. CASE call[c].op = "inbound"
        BY <1>3, <4>1, <4>2, OpIs, ComplaintsAssumption
      <4>3. CASE call[c].op \in {"file", "decide", "escalate"}
        BY <1>3, <4>1, <4>3, OpIs
      <4> QED
        BY <1>3, <1>8, <4>1, <4>2, <4>3, OpIs, IdleIs DEF Replying
    <3> QED
      BY <1>1, <1>3, <1>4, <1>8, <2>1, <2>4, <3>1, QuestionKeep DEF CreateAction
  <2>5. CASE ~ApplyEvent(c) /\ ~CreateAction(c)
    <3>1. ~ClearQuestion(c)
      BY <1>1, <1>8, LastStepDoes DEF Replying
    <3>2. question' = question /\ open' = open
      BY <1>1, <1>8, <2>5, <3>1, StoreMessageDoes
         DEF Goes, Continue, case, history, SkipAction, ReadCase, SameActionId, Throw, Advance, SendIssue,
             MarkDecision, OpenRefund, CreateEscalation, SetLevel, CutOff, OfficerWrites
    <3> QED
      BY <1>1, <1>3, <1>4, <1>8, <2>1, <3>2, QuestionKeep
  <2> QED
    BY <2>2, <2>3, <2>4, <2>5
<1>9. CASE Goes(c) /\ Replying(c)
  <2>1. "question" \in Topics(call[c]) /\ call[c].op = "reply" /\ call[c].code = "INFO_PROVIDED"
    BY <1>3, <1>9, TopicsOf, OpIs DEF Replying
  <2>2. ASSUME NEW d \in Calls, d # c PROVE ~Replying(d) /\ ~Replying(d)'
    <3>1. ~Replying(d)
      <4>1. CASE Replying(d)
        <5>1. "question" \in Topics(call[d])
          BY <1>1, <4>1, ShapeIs, TopicsOf DEF Replying
        <5> QED
          BY <1>1, <1>4, <2>1, <2>2, <5>1 DEF OneAtATime
      <4> QED
        BY <4>1
    <3> QED
      BY <1>3, <2>2, <3>1, OthersKeep DEF Replying
  <2>3. CASE SkipAction(c) \/ SameActionId(c) \/ CutOff(c)
    <3>1. "question" \in cut'
      BY <2>1, <2>3 DEF SkipAction, SameActionId, CutOff, Throw, Own
    <3> QED
      BY <3>1
  <2>4. CASE ReadCase(c)
    <3>1. /\ question' = question /\ open' = open /\ call[c].step = "record"
          /\ call'[c].step = "create" /\ call'[c].saw = call[c].saw /\ Replying(c)'
      BY <1>1, <1>9, <2>4, ReadCaseDoes DEF ReadCase, case, history, Turned, Replying
    <3> QED
      BY <1>5, <2>1, <2>2, <3>1 DEF QuestionInv, Replying
  <2>5. CASE CreateAction(c)
    <3>1. /\ question' = question /\ open' = open \ call[c].saw /\ call[c].step = "create"
          /\ call'[c].step = "advance" /\ Replying(c)'
      BY <1>1, <1>9, <2>1, <2>5, CreateActionDoes DEF CreateAction, Turned, Replying
    <3>2. call[c].saw = question /\ question = open
      BY <1>5, <1>9, <2>2, <3>1
    <3>3. open' = {}
      BY <3>1, <3>2
    <3> QED
      BY <2>2, <3>1, <3>3 DEF QuestionInv, Replying
  <2>6. CASE Advance(c)
    <3>1. /\ question' = question /\ open' = open /\ call[c].step = "advance"
          /\ call'[c].step = "clear" /\ Replying(c)'
      <4>1. Turned(c, call[c].code, "clear", call[c].seen)
        BY <1>1, <2>1, <2>6, RecordedDoes DEF Resumes, Pays
      <4>2. call[c].step = "advance"
        BY <2>6 DEF Advance, At
      <4> QED
        BY <1>9, <2>6, <4>1, <4>2 DEF Advance, history, Turned, Replying
    <3> QED
      BY <1>5, <1>9, <2>2, <3>1 DEF QuestionInv, Replying
  <2>7. CASE ClearQuestion(c)
    <3>1. question' = {} /\ open' = open /\ call[c].step = "clear" /\ ~Replying(c)'
      BY <1>1, <2>7, LastStepDoes, IdleIs DEF ClearQuestion, history, Replying
    <3>2. open = {}
      BY <1>5, <1>9, <3>1
    <3> QED
      BY <2>2, <3>1, <3>2 DEF QuestionInv, Replying
  <2>8. CASE \/ SendIssue(c) \/ OfficerWrites(c) \/ MarkDecision(c) \/ OpenRefund(c)
             \/ CreateEscalation(c) \/ SetLevel(c) \/ StoreMessage(c) \/ ApplyEvent(c)
    BY <1>1, <2>1, <2>8, LastStepDoes, CreateEscalationDoes, SetLevelDoes, StoreMessageDoes, ApplyEventDoes,
       MarkDecisionDoes, OpenRefundDoes DEF Desk
  <2> QED
    BY <1>9, <2>3, <2>4, <2>5, <2>6, <2>7, <2>8 DEF Goes, Continue
<1> QED
  BY <1>2, <1>6, <1>7, <1>8, <1>9

-------------------------------------------------------------------------------
(* The level, its rows and the trail.                                      *)

Escalating(c) == call[c].op = "escalate"

LEMMA LevelKeep ==
    ASSUME IInv, NEW c \in Calls, Others(c), "level" \notin crossed \cup cut,
           ~Escalating(c), ~Escalating(c)', level' = level, escalations' = escalations,
           \A l \in 1 .. 2 : <<"ESCALATED", l>> \in trail' <=> <<"ESCALATED", l>> \in trail
    PROVE  LevelInv'
<1>1. \A d \in Calls : d # c => /\ call'[d].op = call[d].op /\ call'[d].of = call[d].of
                                /\ call'[d].step = call[d].step
  BY OthersKeep
<1>2. \A d \in Calls : /\ Escalating(d)' <=> Escalating(d)
                       /\ Escalating(d) => call'[d].of = call[d].of /\ call'[d].step = call[d].step
  BY <1>1 DEF Escalating
<1>3. \A n : (Escalated(n)' <=> Escalated(n)) /\ (Traced(n)' <=> Traced(n))
  BY DEF Escalated, Traced
<1>4. /\ (\A d \in Calls : ~Escalating(d)) => Escalated(level) /\ Traced(level)
      /\ \A d \in Calls : Escalating(d) =>
            /\ level = IF call[d].step \in {"row", "level"} THEN call[d].of - 1 ELSE call[d].of
            /\ Escalated(IF call[d].step = "row" THEN call[d].of - 1 ELSE call[d].of)
            /\ Traced(IF call[d].step = "advance" THEN call[d].of ELSE call[d].of - 1)
  BY DEF IInv, LevelInv, Escalating
<1>5. (\A d \in Calls : ~Escalating(d)') => Escalated(level)' /\ Traced(level)'
  BY <1>2, <1>3, <1>4 DEF Escalated, Traced
<1>6. ASSUME NEW d \in Calls, Escalating(d)'
      PROVE  /\ level' = IF call'[d].step \in {"row", "level"} THEN call'[d].of - 1 ELSE call'[d].of
             /\ Escalated(IF call[d].step = "row" THEN call[d].of - 1 ELSE call[d].of)'
             /\ Traced(IF call[d].step = "advance" THEN call[d].of ELSE call[d].of - 1)'
  <2>1. call'[d].of = call[d].of /\ call'[d].step = call[d].step /\ Escalating(d)
    BY <1>2, <1>6
  <2> QED
    BY <1>4, <2>1 DEF Escalated, Traced
<1> QED
  BY <1>5, <1>6 DEF LevelInv, Escalating

\* How far an escalation to a level has come.
Reached(lv, es, tr, l, step) ==
    /\ lv = IF step \in {"row", "level"} THEN l - 1 ELSE l
    /\ \A k \in 1 .. 2 : es[k] = (IF k <= (IF step = "row" THEN l - 1 ELSE l) THEN 1 ELSE 0)
    /\ \A k \in 1 .. 2 : <<"ESCALATED", k>> \in tr <=> k <= (IF step = "advance" THEN l ELSE l - 1)

LEMMA LevelReached ==
    ASSUME IInv, "level" \notin crossed \cup cut
    PROVE  /\ (\A c \in Calls : ~Escalating(c)) => Reached(level, escalations, trail, level, "advance")
           /\ \A c \in Calls : Escalating(c) =>
                 Reached(level, escalations, trail, call[c].of, call[c].step)
  BY DEF IInv, LevelInv, Escalating, Reached, Escalated, Traced

\* What remains to be shown of the one handler that escalates.
LEMMA LevelMove ==
    ASSUME NEW c \in Calls, Others(c), \A d \in Calls : d # c => ~Escalating(d),
           IF Escalating(c)' THEN Reached(level', escalations', trail', call'[c].of, call'[c].step)
           ELSE Reached(level', escalations', trail', level', "advance")
    PROVE  LevelInv'
<1>1. \A d \in Calls : d # c => ~Escalating(d)'
  BY OthersKeep DEF Escalating
<1>2. CASE Escalating(c)'
  BY <1>1, <1>2 DEF LevelInv, Escalating, Reached, Escalated, Traced
<1>3. CASE ~Escalating(c)'
  BY <1>1, <1>3 DEF LevelInv, Escalating, Reached, Escalated, Traced
<1> QED
  BY <1>2, <1>3

LEMMA LevelStep ==
    ASSUME IInv, Next
    PROVE  LevelInv'
<1>1. TypeOK /\ FiledFirst /\ OneAtATime /\ LevelInv
  BY DEF IInv
<1>2. PICK c \in Calls : Goes(c) \/ CreateComplaint(c) \/ (Starts(c) /\ StartsAs(c))
  BY <1>1, StepIs
<1> SUFFICES ASSUME "level" \notin crossed' \cup cut' PROVE LevelInv'
  BY DEF LevelInv
<1>3. Others(c) /\ Shape(call[c]) /\ Shape(call'[c])
  BY <1>1, <1>2, GoesMoves, CreateComplaintDoes, ShapeIs DEF Moves, Starts
<1>4. "level" \notin crossed \cup cut
  BY <1>1, <1>2, GoesMoves DEF CreateComplaint, history, Starts
<1>5. level \in 0 .. 2 /\ escalations \in [1 .. 2 -> Nat]
  BY <1>1 DEF TypeOK
<1>6. CASE CreateComplaint(c)
  <2>1. ~Escalating(c) /\ ~Escalating(c)' /\ UNCHANGED <<level, escalations, trail>>
    BY <1>1, <1>6, CreateComplaintDoes, IdleIs DEF Escalating, CreateComplaint
  <2> QED
    BY <1>3, <1>4, <2>1, LevelKeep
<1>7. CASE Starts(c) /\ StartsAs(c)
  <2>1. ~Escalating(c) /\ UNCHANGED <<level, escalations, trail>>
    BY <1>7, IdleIs DEF Escalating, Starts, case
  <2>2. CASE Escalating(c)'
    <3>1. call'[c].step = "row" /\ call'[c].of = level + 1
      BY <1>7, <2>2, ComplaintsAssumption DEF StartsAs, Escalating, Desk
    <3>2. ASSUME NEW d \in Calls, d # c PROVE ~Escalating(d)
      <4>1. "level" \in Topics(call'[c]) /\ Shape(call[d])
        BY <1>1, <1>3, <2>2, ShapeIs, TopicsOf DEF Escalating
      <4>2. "level" \notin Topics(call[d])
        BY <1>7, <4>1 DEF Starts
      <4> QED
        BY <4>1, <4>2, TopicsOf DEF Escalating
    <3>3. Reached(level, escalations, trail, level, "advance")
      BY <1>4, <2>1, <3>2, LevelReached
    <3>4. Reached(level', escalations', trail', call'[c].of, call'[c].step)
      BY <1>5, <2>1, <3>1, <3>3 DEF Reached
    <3> QED
      BY <1>3, <2>2, <3>2, <3>4, LevelMove
  <2>3. CASE ~Escalating(c)'
    BY <1>3, <1>4, <2>1, <2>3, LevelKeep
  <2> QED
    BY <2>2, <2>3
<1>8. CASE Goes(c) /\ ~Escalating(c)
  <2>1. ~Escalating(c)'
    BY <1>1, <1>8, GoesMoves, IdleIs DEF Moves, Escalating
  <2>2. CASE CreateAction(c)
    <3>1. /\ trail' = trail \cup {Entry(c)} /\ UNCHANGED <<level, escalations>>
          /\ call[c].step \in Recording
      BY <1>1, <2>2, CreateActionDoes DEF CreateAction, Recording
    <3>2. ASSUME NEW l \in 1 .. 2 PROVE Entry(c) # <<"ESCALATED", l>>
      <4>1. <<"ESCALATED", l>> \in OwnActions
        BY DEF OwnActions
      <4>2. CASE call[c].op = "inbound"
        BY <1>1, <3>1, <4>1, <4>2, EntryIs, ComplaintsAssumption
      <4>3. CASE call[c].op # "inbound"
        <5>1. Entry(c) = <<call[c].code, call[c].of>> /\ call[c].op \in {"file", "reply", "decide"}
          BY <1>1, <1>8, <3>1, <4>3, EntryIs DEF Escalating
        <5>2. call[c].code # "ESCALATED"
          BY <1>3, <3>1, <5>1, OpIs DEF Recording
        <5> QED
          BY <5>1, <5>2
      <4> QED
        BY <4>2, <4>3
    <3>3. \A l \in 1 .. 2 : <<"ESCALATED", l>> \in trail' <=> <<"ESCALATED", l>> \in trail
      BY <3>1, <3>2
    <3> QED
      BY <1>3, <1>4, <1>8, <2>1, <3>1, <3>3, LevelKeep
  <2>3. CASE ~CreateAction(c)
    <3>1. ~CreateEscalation(c) /\ ~SetLevel(c)
      BY <1>1, <1>8, CreateEscalationDoes, SetLevelDoes DEF Escalating
    <3>2. UNCHANGED <<level, escalations, trail>>
      BY <1>1, <1>8, <2>3, <3>1, StoreMessageDoes
         DEF Goes, Continue, case, SkipAction, ReadCase, SameActionId, Throw, Advance, SendIssue,
             ClearQuestion, MarkDecision, OpenRefund, CutOff, OfficerWrites, ApplyEvent
    <3> QED
      BY <1>3, <1>4, <1>8, <2>1, <3>2, LevelKeep
  <2> QED
    BY <2>2, <2>3
<1>9. CASE Goes(c) /\ Escalating(c)
  <2>1. "level" \in Topics(call[c]) /\ call[c].op = "escalate" /\ call[c].of \in 1 .. 2
    BY <1>3, <1>9, TopicsOf, OpIs DEF Escalating
  <2>2. ASSUME NEW d \in Calls, d # c PROVE ~Escalating(d)
    <3>1. CASE Escalating(d)
      <4>1. "level" \in Topics(call[d])
        BY <1>1, <3>1, ShapeIs, TopicsOf DEF Escalating
      <4> QED
        BY <1>1, <1>4, <2>1, <2>2, <4>1 DEF OneAtATime
    <3> QED
      BY <3>1
  <2>3. Reached(level, escalations, trail, call[c].of, call[c].step)
    BY <1>4, <1>9, LevelReached
  <2>4. CASE SkipAction(c) \/ SameActionId(c) \/ CutOff(c)
    <3>1. "level" \in cut'
      BY <2>1, <2>4 DEF SkipAction, SameActionId, CutOff, Throw, Own
    <3> QED
      BY <3>1
  <2>5. CASE ReadCase(c)
    <3>1. /\ UNCHANGED <<level, escalations, trail>> /\ call[c].step = "record"
          /\ call'[c].step = "create" /\ call'[c].of = call[c].of /\ Escalating(c)'
      BY <1>1, <1>9, <2>5, ReadCaseDoes DEF ReadCase, case, Turned, Escalating
    <3>2. Reached(level', escalations', trail', call'[c].of, call'[c].step)
      BY <2>3, <3>1 DEF Reached
    <3> QED
      BY <1>3, <2>2, <3>1, <3>2, LevelMove
  <2>6. CASE CreateAction(c)
    <3>1. /\ UNCHANGED <<level, escalations>> /\ call[c].step = "create" /\ trail' = trail \cup {Entry(c)}
          /\ call'[c].step = "advance" /\ call'[c].of = call[c].of /\ Escalating(c)'
      BY <1>1, <1>9, <2>6, CreateActionDoes DEF CreateAction, Turned, Escalating
    <3>2. Entry(c) = <<"ESCALATED", call[c].of>>
      <4>1. call[c].code = "ESCALATED"
        BY <1>3, <2>1, <3>1, OpIs
      <4> QED
        BY <2>1, <4>1 DEF Entry
    <3>3. \A k \in 1 .. 2 : <<"ESCALATED", k>> \in trail' <=> k <= call[c].of
      BY <2>1, <2>3, <3>1, <3>2 DEF Reached
    <3>4. Reached(level', escalations', trail', call'[c].of, call'[c].step)
      BY <2>3, <3>1, <3>3 DEF Reached
    <3> QED
      BY <1>3, <2>2, <3>1, <3>4, LevelMove
  <2>7. CASE Advance(c)
    <3>1. /\ UNCHANGED <<level, escalations, trail>> /\ call[c].step = "advance" /\ ~Escalating(c)'
      <4>1. call'[c] = Idle
        BY <1>1, <2>1, <2>7, RecordedDoes DEF Resumes, Pays
      <4> QED
        BY <2>7, <4>1, IdleIs DEF Advance, At, Escalating
    <3>2. Reached(level', escalations', trail', level', "advance")
      BY <2>3, <3>1 DEF Reached
    <3> QED
      BY <1>3, <2>2, <3>1, <3>2, LevelMove
  <2>8. CASE CreateEscalation(c)
    <3>1. /\ UNCHANGED <<level, trail>> /\ call[c].step = "row"
          /\ escalations' = [escalations EXCEPT ![call[c].of] = @ + 1]
          /\ call'[c].step = "level" /\ call'[c].of = call[c].of /\ Escalating(c)'
      BY <1>1, <1>9, <2>8, CreateEscalationDoes DEF CreateEscalation, Turned, Escalating
    <3>2. \A k \in 1 .. 2 : escalations'[k] = IF k = call[c].of THEN escalations[k] + 1 ELSE escalations[k]
      BY <1>5, <3>1
    <3>3. \A k \in 1 .. 2 : escalations'[k] = (IF k <= call[c].of THEN 1 ELSE 0)
      BY <2>1, <2>3, <3>1, <3>2 DEF Reached
    <3>4. Reached(level', escalations', trail', call'[c].of, call'[c].step)
      BY <2>3, <3>1, <3>3 DEF Reached
    <3> QED
      BY <1>3, <2>2, <3>1, <3>4, LevelMove
  <2>9. CASE SetLevel(c)
    <3>1. /\ UNCHANGED <<escalations, trail>> /\ call[c].step = "level" /\ level' = call[c].of
          /\ call'[c].step = "record" /\ call'[c].of = call[c].of /\ Escalating(c)'
      BY <1>1, <1>9, <2>9, SetLevelDoes DEF SetLevel, Turned, Escalating
    <3>2. Reached(level', escalations', trail', call'[c].of, call'[c].step)
      BY <2>3, <3>1 DEF Reached
    <3> QED
      BY <1>3, <2>2, <3>1, <3>2, LevelMove
  <2>10. CASE \/ SendIssue(c) \/ ClearQuestion(c) \/ OfficerWrites(c) \/ MarkDecision(c) \/ OpenRefund(c)
              \/ StoreMessage(c) \/ ApplyEvent(c)
    BY <1>1, <2>1, <2>10, LastStepDoes, StoreMessageDoes, ApplyEventDoes, MarkDecisionDoes, OpenRefundDoes
       DEF Desk
  <2> QED
    BY <1>9, <2>4, <2>5, <2>6, <2>7, <2>8, <2>9, <2>10 DEF Goes, Continue
<1> QED
  BY <1>2, <1>6, <1>7, <1>8, <1>9

-------------------------------------------------------------------------------
(* The officers' stamps.                                                   *)

\* Stamps are counted up, by the officer that has them in hand, and that a case
\* is resolved also by the action that resolves it.
LEMMA StampsGrow ==
    ASSUME TypeOK, FiledFirst, NEW c \in Calls,
           Goes(c) \/ CreateComplaint(c) \/ (Starts(c) /\ StartsAs(c))
    PROVE  /\ stamped \in [Stamps -> Nat]
           /\ \A s \in Stamps : stamped'[s] >= stamped[s]
           /\ \A s \in Stamps \ {"resolved"} :
                 stamped'[s] = IF OfficerWrites(c) /\ s \in call[c].saw THEN stamped[s] + 1 ELSE stamped[s]
           /\ ~OfficerWrites(c) /\ status' = "ESCALATED" => status = "ESCALATED"
<1>0. stamped \in [Stamps -> Nat]
  BY DEF TypeOK
<1>1. CASE OfficerWrites(c)
  BY <1>0, <1>1, StampTyped DEF OfficerWrites
<1>2. CASE Advance(c)
  <2>1. CASE Advances(call[c].code, call[c].seen)
    <3>1. status' = STATUS_AFTER[call[c].code]
          /\ stamped' = [s \in DOMAIN stamped |->
                            IF s \in (IF status' = "RESOLVED" THEN {"resolved"} ELSE {})
                            THEN stamped[s] + 1 ELSE stamped[s]]
      BY <1>2, <2>1 DEF Advance, Stamp
    <3>2. status' # "ESCALATED"
      BY <2>1, <3>1 DEF STATUS_AFTER, Advances
    <3>3. ~OfficerWrites(c)
      BY <1>2 DEF Advance, OfficerWrites, At
    <3> QED
      BY <1>0, <3>1, <3>2, <3>3
  <2>2. CASE ~Advances(call[c].code, call[c].seen)
    BY <1>0, <1>2, <2>2 DEF Advance, OfficerWrites, At
  <2> QED
    BY <2>1, <2>2
<1>3. CASE Goes(c) /\ ~OfficerWrites(c) /\ ~Advance(c)
  <2>1. stamped' = stamped /\ status' = status
    BY <1>3, StoreMessageDoes
       DEF Goes, Continue, case, SkipAction, ReadCase, SameActionId, Throw, CreateAction, SendIssue,
           ClearQuestion, MarkDecision, OpenRefund, CutOff, ApplyEvent, CreateEscalation, SetLevel
  <2> QED
    BY <1>0, <1>3, <2>1
<1>4. CASE CreateComplaint(c)
  <2>1. stamped' = stamped /\ status' = "OPEN" /\ ~OfficerWrites(c)
    BY <1>4 DEF CreateComplaint, OfficerWrites, At
  <2> QED
    BY <1>0, <2>1
<1>5. CASE Starts(c) /\ StartsAs(c)
  <2>1. stamped' = stamped /\ status' = status /\ ~OfficerWrites(c)
    BY <1>5, IdleIs DEF Starts, case, OfficerWrites, At
  <2> QED
    BY <1>0, <2>1
<1> QED
  BY <1>1, <1>2, <1>3, <1>4, <1>5

\* Once for each of the two topics: its officers, and the stamps they set.
LEMMA StampsOf ==
    ASSUME IInv, NEW c \in Calls, Goes(c) \/ CreateComplaint(c) \/ (Starts(c) /\ StartsAs(c)),
           NEW topic, NEW ops, NEW s \in Stamps \ {"resolved"}, topic \notin crossed',
           \A q : Shape(q) /\ q.op \in ops => topic \in Topics(q), "none" \notin ops, "file" \notin ops,
           OfficerWrites(c) /\ s \in call[c].saw => call[c].op \in ops,
           Starts(c) /\ call'[c].op \in ops /\ s \in call'[c].saw => stamped[s] = 0,
           stamped[s] <= 1,
           \A d \in Calls : call[d].op \in ops /\ s \in call[d].saw => stamped[s] = 0
    PROVE  /\ stamped'[s] <= 1
           /\ \A d \in Calls : call'[d].op \in ops /\ s \in call'[d].saw => stamped'[s] = 0
<1>1. TypeOK /\ FiledFirst /\ OneAtATime
  BY DEF IInv
<1>2. Others(c) /\ crossed \subseteq crossed' /\ Shape(call'[c])
  BY <1>1, GoesMoves, CreateComplaintDoes DEF Moves, Starts, CreateComplaint, history
<1>3. stamped[s] \in Nat
        /\ stamped'[s] = IF OfficerWrites(c) /\ s \in call[c].saw THEN stamped[s] + 1 ELSE stamped[s]
  BY <1>1, StampsGrow
<1>4. CASE OfficerWrites(c) /\ s \in call[c].saw
  <2>1. call[c].op \in ops /\ stamped[s] = 0 /\ call'[c] = Idle /\ crossed' = crossed
    BY <1>1, <1>4, LastStepDoes DEF OfficerWrites, history
  <2>2. ASSUME NEW d \in Calls, call'[d].op \in ops PROVE FALSE
    <3>1. d # c /\ call[d].op \in ops
      BY <1>2, <2>1, <2>2, IdleIs, OthersKeep
    <3>2. topic \in Topics(call[c]) /\ topic \in Topics(call[d])
      BY <1>1, <2>1, <3>1, ShapeIs
    <3> QED
      BY <1>1, <2>1, <3>1, <3>2 DEF OneAtATime
  <2> QED
    BY <1>3, <1>4, <2>1, <2>2
<1>5. CASE ~(OfficerWrites(c) /\ s \in call[c].saw)
  <2>1. stamped'[s] = stamped[s]
    BY <1>3, <1>5
  <2>2. ASSUME NEW d \in Calls, call'[d].op \in ops, s \in call'[d].saw PROVE stamped[s] = 0
    <3>1. CASE d # c
      BY <1>2, <2>2, <3>1, OthersKeep
    <3>2. CASE d = c /\ Goes(c)
      BY <1>1, <2>2, <3>2, GoesMoves, IdleIs DEF Moves
    <3>3. CASE d = c /\ ~Goes(c)
      BY <1>1, <2>2, <3>3, CreateComplaintDoes
    <3> QED
      BY <3>1, <3>2, <3>3
  <2> QED
    BY <2>1, <2>2
<1> QED
  BY <1>4, <1>5

LEMMA StampStep ==
    ASSUME IInv, Next
    PROVE  StampInv'
<1>1. TypeOK /\ FiledFirst /\ OneAtATime /\ StampInv
  BY DEF IInv
<1>2. PICK c \in Calls : Goes(c) \/ CreateComplaint(c) \/ (Starts(c) /\ StartsAs(c))
  BY <1>1, StepIs
<1>3. Others(c) /\ crossed \subseteq crossed' /\ Shape(call[c]) /\ Shape(call'[c])
  BY <1>1, <1>2, GoesMoves, CreateComplaintDoes, ShapeIs DEF Moves, Starts, CreateComplaint, history
<1>4. /\ stamped \in [Stamps -> Nat]
      /\ \A s \in Stamps : stamped'[s] >= stamped[s]
      /\ \A s \in Stamps \ {"resolved"} :
            stamped'[s] = IF OfficerWrites(c) /\ s \in call[c].saw THEN stamped[s] + 1 ELSE stamped[s]
      /\ ~OfficerWrites(c) /\ status' = "ESCALATED" => status = "ESCALATED"
  BY <1>1, <1>2, StampsGrow
\* What the officers have in hand.
<1>5. \A d \in Calls :
          /\ call'[d].op \in {"assign", "contact"} => call'[d].saw \subseteq {"assigned", "contacted"}
          /\ call'[d].op = "conclude" =>
                "resolved" \in call'[d].saw /\ call'[d].saw \subseteq {"assigned", "contacted", "resolved"}
          /\ call'[d].op = "appeal" => call'[d].saw = {"appealed"}
          /\ call'[d].op = "rule" => call'[d].saw = {"ruled"} /\ stamped["appealed"] > 0
  <2>1. ASSUME NEW d \in Calls, call'[d].op = call[d].op, call'[d].saw = call[d].saw
        PROVE  /\ call'[d].op \in {"assign", "contact"} => call'[d].saw \subseteq {"assigned", "contacted"}
               /\ call'[d].op = "conclude" =>
                     "resolved" \in call'[d].saw /\ call'[d].saw \subseteq {"assigned", "contacted", "resolved"}
               /\ call'[d].op = "appeal" => call'[d].saw = {"appealed"}
               /\ call'[d].op = "rule" => call'[d].saw = {"ruled"} /\ stamped["appealed"] > 0
    BY <1>1, <2>1 DEF StampInv
  <2>2. \A d \in Calls : d # c => call'[d].op = call[d].op /\ call'[d].saw = call[d].saw
    BY <1>3, OthersKeep
  <2>3. CASE Goes(c)
    <3>1. call'[c] = Idle \/ (call'[c].op = call[c].op /\ call'[c].saw = call[c].saw)
      BY <1>1, <2>3, GoesMoves DEF Moves
    <3> QED
      BY <2>1, <2>2, <3>1, IdleIs
  <2>4. CASE CreateComplaint(c)
    <3>1. call'[c].op = "file"
      BY <1>1, <2>4, CreateComplaintDoes
    <3> QED
      BY <2>1, <2>2, <3>1
  <2>5. CASE Starts(c) /\ StartsAs(c)
    <3>1. CASE call'[c].op \in Desk
      <4>1. call'[c].saw = Owed(call'[c].op) /\ ~Refused(call'[c].op)
        BY <2>5, <3>1 DEF StartsAs, Desk
      <4>2. call'[c].op = "rule" => stamped["appealed"] > 0
        BY <1>4, <4>1 DEF Refused, Stamps
      <4> QED
        BY <2>1, <2>2, <3>1, <4>1, <4>2, OwedIs
    <3>2. CASE call'[c].op \notin Desk
      BY <2>1, <2>2, <3>2 DEF Desk
    <3> QED
      BY <3>1, <3>2
  <2> QED
    BY <1>2, <2>3, <2>4, <2>5
<1>6. OfficerWrites(c) => call[c].op \in Desk
  BY <1>1, LastStepDoes
<1>7. ASSUME Starts(c), call'[c].op \in Desk
      PROVE  call'[c].saw = Owed(call'[c].op) /\ ~Refused(call'[c].op)
  <2>1. StartsAs(c)
    BY <1>1, <1>2, <1>7, GoesMoves, CreateComplaintDoes, IdleIs DEF Starts, Moves, Desk
  <2> QED
    BY <1>7, <2>1 DEF StartsAs, Desk
<1>8. ASSUME NEW s \in {"assigned", "contacted"}, "clocks" \notin crossed'
      PROVE  /\ stamped'[s] <= 1
             /\ \A d \in Calls : call'[d].op \in {"assign", "contact", "conclude"} /\ s \in call'[d].saw =>
                   stamped'[s] = 0
  <2> DEFINE ops == {"assign", "contact", "conclude"}
  <2>1. \A q : Shape(q) /\ q.op \in ops => "clocks" \in Topics(q)
    BY TopicsOf
  <2>2. OfficerWrites(c) /\ s \in call[c].saw => call[c].op \in ops
    BY <1>1, <1>6 DEF StampInv, Desk
  <2>3. Starts(c) /\ call'[c].op \in ops /\ s \in call'[c].saw => stamped[s] = 0
    BY <1>7, OwedIs DEF Desk
  <2>4. stamped[s] <= 1 /\ \A d \in Calls : call[d].op \in ops /\ s \in call[d].saw => stamped[s] = 0
    BY <1>1, <1>3, <1>8 DEF StampInv
  <2>5. s \in Stamps \ {"resolved"} /\ "none" \notin ops /\ "file" \notin ops
    BY DEF Stamps
  <2> HIDE DEF ops
  <2>6. stamped'[s] <= 1 /\ \A d \in Calls : call'[d].op \in ops /\ s \in call'[d].saw => stamped'[s] = 0
    BY <1>2, <1>8, <2>1, <2>2, <2>3, <2>4, <2>5, StampsOf
  <2> QED
    BY <2>6 DEF ops
<1>9. ASSUME NEW s \in {"appealed", "ruled"}, "appeal" \notin crossed'
      PROVE  /\ stamped'[s] <= 1
             /\ \A d \in Calls : call'[d].op \in {"appeal", "rule"} /\ s \in call'[d].saw => stamped'[s] = 0
  <2> DEFINE ops == {"appeal", "rule"}
  <2>1. \A q : Shape(q) /\ q.op \in ops => "appeal" \in Topics(q)
    BY TopicsOf
  <2>2. OfficerWrites(c) /\ s \in call[c].saw => call[c].op \in ops
    BY <1>1, <1>6 DEF StampInv, Desk
  <2>3. Starts(c) /\ call'[c].op \in ops /\ s \in call'[c].saw => stamped[s] = 0
    <3>1. ASSUME Starts(c), call'[c].op \in ops, s \in call'[c].saw PROVE stamped[s] = 0
      <4>1. call'[c].saw = Owed(call'[c].op) /\ ~Refused(call'[c].op)
        BY <1>7, <3>1 DEF Desk
      <4>2. call'[c].op = "appeal" => s = "appealed" /\ ~(stamped["appealed"] > 0)
        BY <3>1, <4>1, OwedIs DEF Refused, Desk
      <4>3. call'[c].op = "rule" => s = "ruled" /\ ~(stamped["ruled"] > 0)
        BY <3>1, <4>1, OwedIs DEF Refused, Desk
      <4> QED
        BY <1>4, <3>1, <4>2, <4>3 DEF Stamps
    <3> QED
      BY <3>1
  <2>4. stamped[s] <= 1 /\ \A d \in Calls : call[d].op \in ops /\ s \in call[d].saw => stamped[s] = 0
    BY <1>1, <1>3, <1>9 DEF StampInv
  <2>5. s \in Stamps \ {"resolved"} /\ "none" \notin ops /\ "file" \notin ops
    BY DEF Stamps
  <2> HIDE DEF ops
  <2>6. stamped'[s] <= 1 /\ \A d \in Calls : call'[d].op \in ops /\ s \in call'[d].saw => stamped'[s] = 0
    BY <1>2, <1>9, <2>1, <2>2, <2>3, <2>4, <2>5, StampsOf
  <2> QED
    BY <2>6 DEF ops
<1>10. status' = "ESCALATED" => stamped'["appealed"] > 0
  <2>1. CASE OfficerWrites(c)
    <3>1. status' = StatusWritten(call[c].op, call[c].seen)
      BY <2>1 DEF OfficerWrites
    <3>2. CASE call[c].op = "appeal"
      <4>1. "appealed" \in call[c].saw
        BY <1>1, <3>2 DEF StampInv
      <4> QED
        BY <1>4, <2>1, <4>1 DEF Stamps
    <3>3. CASE call[c].op # "appeal"
      <4>1. status' = "ESCALATED" => status = "ESCALATED"
        BY <3>1, <3>3, Zenon DEF StatusWritten
      <4> QED
        BY <1>1, <1>4, <4>1 DEF StampInv, Stamps
    <3> QED
      BY <3>2, <3>3
  <2>2. CASE ~OfficerWrites(c)
    BY <1>1, <1>4, <2>2 DEF StampInv, Stamps
  <2> QED
    BY <2>1, <2>2
<1>11. \A d \in Calls : call'[d].op = "rule" => stamped'["appealed"] > 0
  BY <1>4, <1>5 DEF Stamps
<1> QED
  BY <1>5, <1>8, <1>9, <1>10, <1>11 DEF StampInv

-------------------------------------------------------------------------------
(* The status and the trail.                                               *)

LEMMA RankIs ==
    /\ DOMAIN RANK = {"OPEN", "PROCESSING", "RESOLVED", "CLOSED"}
    /\ RANK["OPEN"] = 0 /\ RANK["PROCESSING"] = 1 /\ RANK["RESOLVED"] = 2 /\ RANK["CLOSED"] = 3
  BY DEF RANK

LEMMA AfterIs ==
    ASSUME NEW code \in DOMAIN STATUS_AFTER
    PROVE  /\ STATUS_AFTER[code] \in {"OPEN", "PROCESSING", "RESOLVED", "CLOSED"}
           /\ STATUS_AFTER[code] = "CLOSED" => code = "CLOSED"
  BY DEF STATUS_AFTER

\* Every handler is at work on the status: one that crossed no other is alone.
LEMMA Alone ==
    ASSUME IInv, NEW c \in Calls, "status" \notin crossed',
           Goes(c) \/ CreateComplaint(c) \/ (Starts(c) /\ StartsAs(c))
    PROVE  /\ "status" \notin crossed
           /\ \A d \in Calls : d # c =>
                 /\ call[d] = Idle /\ call'[d].op = "none" /\ call'[d].step = "idle"
<1>1. TypeOK /\ FiledFirst /\ OneAtATime
  BY DEF IInv
<1>2. crossed \subseteq crossed' /\ Others(c)
  BY <1>1, GoesMoves, CreateComplaintDoes DEF Moves, Starts, CreateComplaint, history
<1>3. ASSUME NEW d \in Calls, d # c PROVE call[d] = Idle
  <2>1. Shape(call[d]) /\ Shape(call[c])
    BY <1>1, ShapeIs
  <2>2. CASE Goes(c)
    <3>1. "status" \in Topics(call[c])
      BY <1>1, <2>1, <2>2, GoesMoves, TopicsOf, IdleIs DEF Moves
    <3>2. "status" \notin Topics(call[d])
      BY <1>1, <1>2, <1>3, <3>1 DEF OneAtATime
    <3> QED
      BY <2>1, <3>2, TopicsOf
  <2>3. CASE CreateComplaint(c)
    BY <1>1, <2>3, CreateComplaintDoes
  <2>4. CASE Starts(c) /\ StartsAs(c)
    <3>1. "status" \in Topics(call'[c])
      <4>1. call'[c].op # "none"
        BY <2>4, ComplaintsAssumption DEF StartsAs, Desk
      <4> QED
        BY <2>4, <4>1, TopicsOf, IdleIs DEF Starts
    <3>2. "status" \notin Topics(call[d])
      BY <2>4, <3>1 DEF Starts
    <3> QED
      BY <2>1, <3>2, TopicsOf
  <2> QED
    BY <2>2, <2>3, <2>4
<1>4. ASSUME NEW d \in Calls, d # c PROVE call'[d].op = "none" /\ call'[d].step = "idle"
  BY <1>2, <1>3, <1>4, OthersKeep, IdleIs
<1> QED
  BY <1>2, <1>3, <1>4

LEMMA ResolvedStep ==
    ASSUME IInv, Next
    PROVE  ResolvedInv'
<1>1. TypeOK /\ FiledFirst /\ StampInv
  BY DEF IInv
<1>2. PICK c \in Calls : Goes(c) \/ CreateComplaint(c) \/ (Starts(c) /\ StartsAs(c))
  BY <1>1, StepIs
<1> SUFFICES ASSUME "status" \notin crossed' PROVE ResolvedInv'
  BY DEF ResolvedInv
<1>3. "status" \notin crossed /\ \A d \in Calls : d # c => call'[d].op = "none" /\ call'[d].step = "idle"
  BY <1>2, Alone
<1>4. /\ stamped["resolved"] <= 1 /\ stamped["resolved"] \in Nat
      /\ status \in {"OPEN", "PROCESSING"} => stamped["resolved"] = 0
      /\ call[c].op = "conclude" => stamped["resolved"] = 0
      /\ call[c].step \in {"create", "advance", "write"} => call[c].seen = status
  BY <1>1, <1>3 DEF IInv, ResolvedInv, TypeOK, Stamps
<1> SUFFICES /\ stamped'["resolved"] <= 1
             /\ status' \in {"OPEN", "PROCESSING"} => stamped'["resolved"] = 0
             /\ call'[c].op = "conclude" => stamped'["resolved"] = 0
             /\ call'[c].step \in {"create", "advance", "write"} => call'[c].seen = status'
  BY <1>3 DEF ResolvedInv
<1>5. CASE CreateComplaint(c)
  <2>1. stamped' = stamped /\ stamped["resolved"] = 0 /\ call'[c].op = "file" /\ call'[c].step = "record"
    BY <1>1, <1>5, CreateComplaintDoes DEF CreateComplaint, FiledFirst
  <2> QED
    BY <2>1
<1>6. CASE Starts(c) /\ StartsAs(c)
  <2>1. stamped' = stamped /\ status' = status
    BY <1>6 DEF Starts, case
  <2>2. call'[c].op = "conclude" => stamped["resolved"] = 0
    BY <1>4, <1>6 DEF StartsAs, Refused
  <2>3. call'[c].step \in {"create", "advance", "write"} => call'[c].seen = status
    BY <1>6 DEF StartsAs
  <2> QED
    BY <1>4, <2>1, <2>2, <2>3
<1>7. CASE Advance(c)
  <2>1. call[c].seen = status /\ Resumes(c) /\ call[c].op \in {"file", "reply", "decide", "escalate", "inbound"}
    <3>1. call[c].step = "advance"
      BY <1>7 DEF Advance, At
    <3> QED
      BY <1>1, <1>4, <1>7, <3>1, RecordedDoes, EntryIs DEF Recording
  <2>2. call'[c].step \notin {"create", "advance", "write"} /\ call'[c].op # "conclude"
    BY <2>1, IdleIs DEF Resumes, Turned, Pays
  <2>3. CASE Advances(call[c].code, call[c].seen)
    <3>1. /\ status' = STATUS_AFTER[call[c].code]
          /\ stamped' = [s \in DOMAIN stamped |->
                            IF s \in (IF status' = "RESOLVED" THEN {"resolved"} ELSE {})
                            THEN stamped[s] + 1 ELSE stamped[s]]
      BY <1>7, <2>3 DEF Advance, Stamp
    <3>2. /\ status \in {"OPEN", "PROCESSING", "RESOLVED", "CLOSED"}
          /\ status' \in {"OPEN", "PROCESSING", "RESOLVED", "CLOSED"}
          /\ RANK[status'] > RANK[status]
      BY <2>1, <2>3, <3>1, RankIs, AfterIs DEF Advances
    <3>3. stamped'["resolved"] = IF status' = "RESOLVED" THEN stamped["resolved"] + 1 ELSE stamped["resolved"]
      BY <1>1, <3>1 DEF TypeOK, Stamps
    <3>4. status' \in {"OPEN", "PROCESSING", "RESOLVED"} => status \in {"OPEN", "PROCESSING"}
      BY <3>2, RankIs
    <3> QED
      BY <1>4, <2>2, <3>2, <3>3, <3>4
  <2>4. CASE ~Advances(call[c].code, call[c].seen)
    BY <1>4, <1>7, <2>2, <2>4 DEF Advance
  <2> QED
    BY <2>3, <2>4
<1>8. CASE OfficerWrites(c)
  <2>1. call'[c] = Idle /\ call[c].op \in Desk /\ call[c].seen = status
    BY <1>1, <1>4, <1>8, LastStepDoes DEF OfficerWrites
  <2>2. /\ status' = StatusWritten(call[c].op, status)
        /\ stamped'["resolved"] = IF "resolved" \in call[c].saw THEN stamped["resolved"] + 1
                                  ELSE stamped["resolved"]
    BY <1>1, <1>8, <2>1, StampTyped DEF OfficerWrites, Stamps
  <2>3. "resolved" \in call[c].saw <=> call[c].op = "conclude"
    BY <1>1, <2>1 DEF StampInv, Desk
  <2>4. status' \in {"OPEN", "PROCESSING"} => status \in {"OPEN", "PROCESSING"} /\ call[c].op # "conclude"
    BY <2>2, Zenon DEF StatusWritten
  <2> QED
    BY <1>4, <2>1, <2>2, <2>3, <2>4, IdleIs
<1>9. CASE Goes(c) /\ ~Advance(c) /\ ~OfficerWrites(c)
  <2>1. stamped' = stamped /\ status' = status
    BY <1>1, <1>9, StoreMessageDoes
       DEF Goes, Continue, case, SkipAction, ReadCase, SameActionId, Throw, CreateAction, SendIssue,
           ClearQuestion, MarkDecision, OpenRefund, CutOff, ApplyEvent, CreateEscalation, SetLevel
  <2>2. call'[c].op = "conclude" => call[c].op = "conclude"
    BY <1>1, <1>9, GoesMoves, IdleIs DEF Moves
  <2>3. CASE ReadCase(c)
    BY <1>1, <1>4, <2>1, <2>2, <2>3, ReadCaseDoes DEF Turned
  <2>4. CASE CreateAction(c)
    BY <1>1, <1>4, <2>1, <2>2, <2>4, CreateActionDoes DEF Turned
  <2>5. CASE ~ReadCase(c) /\ ~CreateAction(c)
    <3>1. call'[c].step \notin {"create", "advance", "write"}
      <4>1. CASE SkipAction(c)
        BY <1>1, <4>1, RecordedDoes, IdleIs DEF Resumes, Turned
      <4>2. CASE SendIssue(c) \/ ClearQuestion(c) \/ SameActionId(c) \/ CutOff(c)
        BY <1>1, <4>2, LastStepDoes, IdleIs
      <4>3. CASE MarkDecision(c)
        BY <1>1, <4>3, MarkDecisionDoes DEF Turned
      <4>4. CASE OpenRefund(c)
        BY <1>1, <4>4, OpenRefundDoes DEF Turned
      <4>5. CASE CreateEscalation(c)
        BY <1>1, <4>5, CreateEscalationDoes DEF Turned
      <4>6. CASE SetLevel(c)
        BY <1>1, <4>6, SetLevelDoes DEF Turned
      <4>7. CASE StoreMessage(c)
        BY <1>1, <4>7, StoreMessageDoes, IdleIs DEF Turned
      <4>8. CASE ApplyEvent(c)
        BY <1>1, <4>8, ApplyEventDoes DEF Turned
      <4> QED
        BY <1>9, <2>5, <4>1, <4>2, <4>3, <4>4, <4>5, <4>6, <4>7, <4>8 DEF Goes, Continue
    <3> QED
      BY <1>4, <2>1, <2>2, <3>1
  <2> QED
    BY <2>3, <2>4, <2>5
<1> QED
  BY <1>2, <1>5, <1>6, <1>7, <1>8, <1>9

LEMMA FollowsOn ==
    ASSUME IInv, NEW a, Follows(a), status # "NONE", stamped'["appealed"] >= stamped["appealed"],
           status' \in {"NONE", "ESCALATED", "OPEN", "PROCESSING", "RESOLVED", "CLOSED"},
           stamped'["appealed"] \in Nat,
           \/ status' = status \/ stamped'["appealed"] > 0 \/ status' = "RESOLVED"
           \/ status' \in DOMAIN RANK /\ (status \in DOMAIN RANK => RANK[status'] >= RANK[status])
    PROVE  Follows(a)'
<1> DEFINE code == IF a \in Events THEN Kind[a] ELSE a[1]
<1>1. /\ stamped["appealed"] \in Nat
      /\ status \in {"ESCALATED", "OPEN", "PROCESSING", "RESOLVED", "CLOSED"}
      /\ status = "ESCALATED" => stamped["appealed"] > 0
  BY DEF IInv, TypeOK, StampInv, Stamps
<1> SUFFICES ASSUME code \in DOMAIN STATUS_AFTER, ~(stamped'["appealed"] > 0)
             PROVE  \/ status' = "RESOLVED" /\ code = "CLOSED"
                    \/ RANK[status'] >= RANK[STATUS_AFTER[code]]
  BY DEF Follows
<1>2. ~(stamped["appealed"] > 0) /\ status \in DOMAIN RANK
  BY <1>1, RankIs
<1>3. \/ status = "RESOLVED" /\ code = "CLOSED"
      \/ RANK[status] >= RANK[STATUS_AFTER[code]]
  BY <1>2 DEF Follows
<1> HIDE DEF code
<1>4. /\ STATUS_AFTER[code] \in {"OPEN", "PROCESSING", "RESOLVED", "CLOSED"}
      /\ STATUS_AFTER[code] = "CLOSED" => code = "CLOSED"
  BY AfterIs
<1>5. CASE status' = status
  BY <1>3, <1>5
<1>6. CASE status' = "RESOLVED"
  BY <1>4, <1>6, RankIs
<1>7. CASE status' \in DOMAIN RANK /\ RANK[status'] >= RANK[status]
  BY <1>1, <1>2, <1>3, <1>4, <1>7, RankIs
<1> QED
  BY <1>2, <1>5, <1>6, <1>7

LEMMA TrailStep ==
    ASSUME IInv, Next
    PROVE  TrailInv'
<1>1. TypeOK /\ FiledFirst /\ StampInv /\ ResolvedInv
  BY DEF IInv
<1>2. PICK c \in Calls : Goes(c) \/ CreateComplaint(c) \/ (Starts(c) /\ StartsAs(c))
  BY <1>1, StepIs
<1> SUFFICES ASSUME "status" \notin crossed' \cup cut' PROVE TrailInv'
  BY DEF TrailInv
<1>3. /\ "status" \notin crossed
      /\ \A d \in Calls : d # c => /\ call[d] = Idle
                                   /\ call'[d].op = "none" /\ call'[d].step = "idle"
  BY <1>2, Alone
<1>4. "status" \notin cut
  BY <1>1, <1>2, GoesMoves DEF CreateComplaint, history, Starts
<1>5. ASSUME NEW a \in trail PROVE Follows(a) \/ (call[c].step = "advance" /\ a = Entry(c))
  <2>1. Follows(a) \/ \E d \in Calls : At(d, "advance") /\ Entry(d) = a
    BY <1>3, <1>4, <1>5 DEF IInv, TrailInv
  <2> QED
    BY <1>3, <2>1, IdleIs DEF At
<1>6. stamped'["appealed"] >= stamped["appealed"] /\ stamped'["appealed"] \in Nat
      /\ status' \in {"NONE", "ESCALATED", "OPEN", "PROCESSING", "RESOLVED", "CLOSED"}
  <2>1. TypeOK'
    BY TypeStep
  <2> QED
    BY <1>1, <1>2, <2>1, StampsGrow DEF TypeOK, Stamps
<1>7. CASE CreateComplaint(c)
  BY <1>1, <1>7 DEF CreateComplaint, FiledFirst, TrailInv
<1>8. ASSUME Goes(c) \/ Starts(c), status # "NONE", call[c].step # "advance", trail' = trail,
             \/ status' = status \/ stamped'["appealed"] > 0 \/ status' = "RESOLVED"
             \/ status' \in DOMAIN RANK /\ (status \in DOMAIN RANK => RANK[status'] >= RANK[status])
      PROVE  TrailInv'
  <2>1. \A a \in trail' : Follows(a)'
    BY <1>5, <1>6, <1>8, FollowsOn
  <2> QED
    BY <2>1 DEF TrailInv
<1>9. CASE Starts(c) /\ StartsAs(c)
  <2>1. status' = status /\ trail' = trail /\ call[c].step # "advance"
    BY <1>9, IdleIs DEF Starts, case
  <2>2. status # "NONE" \/ trail = {}
    BY <1>1 DEF FiledFirst
  <2> QED
    BY <1>8, <1>9, <2>1, <2>2 DEF TrailInv
<1>10. CASE Goes(c)
  <2>1. status # "NONE" /\ "status" \in Topics(call[c])
    <3>1. call[c] # Idle /\ Shape(call[c])
      BY <1>1, <1>10, GoesMoves, ShapeIs, IdleIs DEF Moves
    <3> QED
      BY <1>1, <3>1, TopicsOf DEF FiledFirst
  <2>2. CASE CreateAction(c)
    <3>1. /\ trail' = trail \cup {Entry(c)} /\ status' = status /\ call[c].step = "create"
          /\ call'[c].step = "advance" /\ call'[c].op = call[c].op /\ call'[c].of = call[c].of
          /\ call'[c].code = call[c].code
      BY <1>1, <2>2, CreateActionDoes DEF CreateAction, Turned
    <3>2. Entry(c)' = Entry(c) /\ At(c, "advance")'
      BY <3>1 DEF Entry, At
    <3>3. \A a \in trail : Follows(a)'
      BY <1>5, <1>6, <2>1, <3>1, FollowsOn
    <3> QED
      BY <3>1, <3>2, <3>3 DEF TrailInv
  <2>3. CASE Advance(c)
    <3>1. call[c].step = "advance" /\ call[c].seen = status /\ trail' = trail
      BY <1>1, <1>3, <2>3 DEF Advance, At, ResolvedInv
    <3>2. PICK a : a = Entry(c)
      OBVIOUS
    <3>3. (IF a \in Events THEN Kind[a] ELSE a[1]) = call[c].code
      BY <1>1, <3>1, <3>2, EntryIs DEF Recording
    <3>4. CASE Advances(call[c].code, status)
      <4>1. /\ status' = STATUS_AFTER[call[c].code] /\ status' \in DOMAIN RANK
            /\ RANK[status'] >= RANK[status] /\ RANK[status'] >= RANK[STATUS_AFTER[call[c].code]]
        BY <2>3, <3>1, <3>4, RankIs, AfterIs DEF Advance, Advances
      <4>2. Follows(a)'
        BY <3>3, <4>1 DEF Follows
      <4>3. \A b \in trail : Follows(b) => Follows(b)'
        BY <1>6, <2>1, <4>1, FollowsOn
      <4>4. \A b \in trail' : Follows(b)'
        BY <1>5, <3>1, <3>2, <4>2, <4>3
      <4> QED
        BY <4>4 DEF TrailInv
    <3>5. CASE ~Advances(call[c].code, status)
      <4>1. status' = status /\ stamped' = stamped
        BY <2>3, <3>1, <3>5 DEF Advance
      <4>2. Follows(a)
        <5>1. status \in DOMAIN RANK \/ stamped["appealed"] > 0
          BY <1>1, <2>1, RankIs DEF TypeOK, StampInv
        <5>2. CASE call[c].code \in DOMAIN STATUS_AFTER /\ status \in DOMAIN RANK
          <6>1. RANK[status] >= RANK[STATUS_AFTER[call[c].code]]
            BY <3>5, <5>2, RankIs, AfterIs DEF Advances
          <6> QED
            BY <3>3, <6>1 DEF Follows
        <5> QED
          BY <3>3, <5>1, <5>2 DEF Follows
      <4>3. \A b \in trail : Follows(b) => Follows(b)'
        BY <1>6, <2>1, <4>1, FollowsOn
      <4>4. \A b \in trail' : Follows(b)'
        <5>1. Follows(a)'
          BY <1>6, <2>1, <4>1, <4>2, FollowsOn
        <5> QED
          BY <1>5, <3>1, <3>2, <4>3, <5>1
      <4> QED
        BY <4>4 DEF TrailInv
    <3> QED
      BY <3>4, <3>5
  <2>4. CASE OfficerWrites(c)
    <3>1. /\ call[c].op \in Desk /\ call[c].step = "write" /\ call[c].seen = status /\ trail' = trail
          /\ status' = StatusWritten(call[c].op, status)
      BY <1>1, <1>3, <2>4, LastStepDoes DEF OfficerWrites, ResolvedInv
    <3>2. CASE call[c].op = "assign"
      BY <1>8, <1>10, <2>1, <3>1, <3>2, RankIs DEF StatusWritten
    <3>3. CASE call[c].op = "contact"
      BY <1>8, <1>10, <2>1, <3>1, <3>3 DEF StatusWritten
    <3>4. CASE call[c].op = "conclude"
      BY <1>8, <1>10, <2>1, <3>1, <3>4 DEF StatusWritten
    <3>5. CASE call[c].op \in {"appeal", "rule"}
      <4>1. stamped'["appealed"] > 0
        <5>1. stamped["appealed"] \in Nat
          BY <1>1 DEF TypeOK, Stamps
        <5>2. stamped'["appealed"] =
                 IF "appealed" \in call[c].saw THEN stamped["appealed"] + 1 ELSE stamped["appealed"]
          BY <1>1, <2>4, StampTyped DEF OfficerWrites, Stamps
        <5>3. "appealed" \in call[c].saw \/ stamped["appealed"] > 0
          BY <1>1, <3>5 DEF StampInv
        <5> QED
          BY <5>1, <5>2, <5>3
      <4> QED
        BY <1>8, <1>10, <2>1, <3>1, <4>1
    <3> QED
      BY <3>1, <3>2, <3>3, <3>4, <3>5 DEF Desk
  <2>5. CASE ~CreateAction(c) /\ ~Advance(c) /\ ~OfficerWrites(c)
    <3>1. status' = status /\ trail' = trail
      BY <1>1, <1>10, <2>5, StoreMessageDoes
         DEF Goes, Continue, case, SkipAction, ReadCase, SameActionId, Throw, SendIssue, ClearQuestion,
             MarkDecision, OpenRefund, CutOff, ApplyEvent, CreateEscalation, SetLevel
    <3>2. CASE call[c].step = "advance"
      <4>1. CutOff(c)
        BY <1>1, <1>10, <2>5, <3>2, RecordedDoes, ReadCaseDoes, LastStepDoes, MarkDecisionDoes,
           OpenRefundDoes, CreateEscalationDoes, SetLevelDoes, StoreMessageDoes, ApplyEventDoes
           DEF Goes, Continue, SkipAction, SameActionId, SendIssue, At
      <4>2. "status" \in cut'
        BY <2>1, <4>1 DEF CutOff
      <4> QED
        BY <4>2
    <3>3. CASE call[c].step # "advance"
      BY <1>8, <1>10, <2>1, <3>1, <3>3
    <3> QED
      BY <3>2, <3>3
  <2> QED
    BY <2>2, <2>3, <2>4, <2>5
<1> QED
  BY <1>2, <1>7, <1>9, <1>10

-------------------------------------------------------------------------------
(* The invariant, and what follows from it.                                *)

LEMMA InitIInv == Init => IInv
<1> SUFFICES ASSUME Init PROVE IInv
  OBVIOUS
<1>1. \A c \in Calls : call[c] = Idle
  BY DEF Init
<1>2. TypeOK
  BY <1>1, IdleIs, ComplaintsAssumption DEF Init, TypeOK, Stamps
<1>3. OneAtATime
  BY <1>1, IdleIs DEF OneAtATime
<1>4. FiledFirst
  BY <1>1 DEF Init, FiledFirst
<1>5. DecisionInv
  <2>1. \A r \in Money : decision[r] = "none" /\ refunds[r] = 0
    BY ComplaintsAssumption DEF Init
  <2> QED
    BY <1>1, <2>1, IdleIs DEF DecisionInv, Decided
<1>6. QuestionInv
  BY <1>1, IdleIs DEF Init, QuestionInv
<1>7. LevelInv
  <2>1. Escalated(level) /\ Traced(level)
    BY DEF Init, Escalated, Traced
  <2> QED
    BY <1>1, <2>1, IdleIs DEF LevelInv
<1>8. StampInv
  BY <1>1, IdleIs DEF Init, StampInv
<1>9. ResolvedInv
  BY <1>1, IdleIs DEF Init, ResolvedInv
<1>10. TrailInv /\ RecordedInv /\ AppliedInv
  BY <1>1, IdleIs DEF Init, TrailInv, RecordedInv, AppliedInv, At
<1> QED
  BY <1>2, <1>3, <1>4, <1>5, <1>6, <1>7, <1>8, <1>9, <1>10 DEF IInv

LEMMA StutterIInv ==
    ASSUME IInv, UNCHANGED vars
    PROVE  IInv'
<1>1. /\ UNCHANGED <<status, stamped, level, question, trail, messages, decision, refunds, escalations>>
      /\ UNCHANGED <<call, begun, faults, open, crossed, cut>>
  BY DEF vars, case, history
<1>2. TypeOK'
  BY <1>1 DEF IInv, TypeOK
<1>3. OneAtATime' /\ FiledFirst'
  BY <1>1 DEF IInv, OneAtATime, FiledFirst
<1>4. DecisionInv'
  BY <1>1 DEF IInv, DecisionInv, Decided
<1>5. QuestionInv'
  BY <1>1 DEF IInv, QuestionInv
<1>6. LevelInv'
  BY <1>1 DEF IInv, LevelInv, Escalated, Traced
<1>7. StampInv' /\ ResolvedInv'
  BY <1>1 DEF IInv, StampInv, ResolvedInv
<1>8. TrailInv' /\ RecordedInv' /\ AppliedInv'
  BY <1>1 DEF IInv, TrailInv, RecordedInv, AppliedInv, Follows, At, Entry
<1> QED
  BY <1>2, <1>3, <1>4, <1>5, <1>6, <1>7, <1>8 DEF IInv

\* The parts of the invariant hold in every reachable state: one handler at a time
\* on a topic that nobody crossed, and what it has done so far.
THEOREM InvariantHolds == Spec => []IInv
<1>1. ASSUME IInv, [Next]_vars PROVE IInv'
  <2>1. CASE Next
    BY <1>1, <2>1, TypeStep, OneAtATimeStep, FiledStep, DecisionStep, QuestionStep, LevelStep, StampStep,
       ResolvedStep, TrailStep, RecordedStep, AppliedStep DEF IInv
  <2>2. CASE UNCHANGED vars
    BY <1>1, <2>2, StutterIInv
  <2> QED
    BY <1>1, <2>1, <2>2
<1> QED
  BY <1>1, InitIInv, PTL DEF Spec

\* Every variable keeps its type, and every handler has the locals of its step.
THEOREM TypeCorrect == Spec => []TypeOK
<1>1. IInv => TypeOK
  BY DEF IInv
<1> QED
  BY <1>1, InvariantHolds, PTL

\* An accepted resolution that pays has its refund, once, and a rejected one none,
\* unless two decisions of it crossed, or the one was cut short before the refund.
THEOREM AcceptedRefunded == Spec => []AcceptedIsRefunded
<1>1. ASSUME IInv PROVE AcceptedIsRefunded
  <2> SUFFICES ASSUME NEW r \in Money
               PROVE  /\ refunds[r] > (IF decision[r] = "accepted" THEN 1 ELSE 0) => r \in crossed
                      /\ decision[r] = "accepted" => refunds[r] > 0 \/ Excused(r)
    BY DEF AcceptedIsRefunded
  <2>1. CASE r \in crossed
    BY <2>1 DEF Excused
  <2>2. CASE r \notin crossed
    <3>1. /\ refunds[r] = 0 \/ (refunds[r] = 1 /\ decision[r] = "accepted")
          /\ decision[r] = "accepted" =>
                \/ refunds[r] = 1 \/ r \in cut
                \/ \E c \in Calls : call[c].op = "decide" /\ call[c].of = r
      BY <1>1, <2>2 DEF IInv, DecisionInv, Decided
    <3>2. \A c \in Calls : call[c].op = "decide" /\ call[c].of = r => r \in Topics(call[c])
      BY <1>1, ShapeIs, TopicsOf DEF IInv
    <3> QED
      BY <3>1, <3>2 DEF Excused, UnderWay
  <2> QED
    BY <2>1, <2>2
<1> QED
  BY <1>1, InvariantHolds, PTL

\* A message in the log has its action on the trail, or a handler that still owes it,
\* or lost it when it was cut short.
THEOREM EventsApplied == Spec => []EventsAreApplied
<1>1. ASSUME IInv PROVE EventsAreApplied
  <2>1. \A c \in Calls : call[c].op = "inbound" => call[c].of \in Topics(call[c])
    BY <1>1, ShapeIs, TopicsOf DEF IInv
  <2> QED
    BY <1>1, <2>1 DEF IInv, AppliedInv, EventsAreApplied, Excused, UnderWay
<1> QED
  BY <1>1, InvariantHolds, PTL

\* The question on the customer's screen is the one the seller is waiting for.
THEOREM QuestionShown == Spec => []ShownIsOpen
<1>1. ASSUME IInv PROVE ShownIsOpen
  <2>1. CASE \E c \in Calls : call[c].op = "reply"
    <3>1. UnderWay("question")
      BY <1>1, <2>1, ShapeIs, TopicsOf DEF IInv, UnderWay
    <3> QED
      BY <3>1 DEF ShownIsOpen, Excused
  <2>2. CASE ~\E c \in Calls : call[c].op = "reply"
    BY <1>1, <2>2 DEF IInv, QuestionInv, ShownIsOpen, Excused
  <2> QED
    BY <2>1, <2>2
<1> QED
  BY <1>1, InvariantHolds, PTL

\* The level of a case has its rows and its actions, and no level was skipped.
THEOREM LevelsAgree == Spec => []EscalationsMatchLevel
<1>1. ASSUME IInv PROVE EscalationsMatchLevel
  <2>1. CASE \E c \in Calls : call[c].op = "escalate"
    <3>1. UnderWay("level")
      BY <1>1, <2>1, ShapeIs, TopicsOf DEF IInv, UnderWay
    <3> QED
      BY <3>1 DEF EscalationsMatchLevel, Excused
  <2>2. CASE ~\E c \in Calls : call[c].op = "escalate"
    BY <1>1, <2>2 DEF IInv, LevelInv, Escalated, Traced, EscalationsMatchLevel, Excused
  <2> QED
    BY <2>1, <2>2
<1> QED
  BY <1>1, InvariantHolds, PTL

\* A clock is stamped once as long as no two officers work from the same reading.
THEOREM ClocksStampedOnce == Spec => []StampedOnce
<1>1. IInv => StampedOnce
  BY DEF IInv, StampInv, ResolvedInv, StampedOnce
<1> QED
  BY <1>1, InvariantHolds, PTL

\* The status of a case is the one its trail implies, once no handler is at work.
THEOREM StatusIsTrail == Spec => []StatusFollowsTrail
<1>1. ASSUME IInv PROVE StatusFollowsTrail
  <2>1. CASE \E c \in Calls : At(c, "advance")
    <3>1. PICK c \in Calls : call[c].step = "advance"
      BY <2>1 DEF At
    <3>2. "status" \in Topics(call[c])
      BY <1>1, <3>1, ShapeIs, TopicsOf, IdleIs DEF IInv
    <3> QED
      BY <3>2 DEF StatusFollowsTrail, Excused, UnderWay
  <2>2. CASE ~\E c \in Calls : At(c, "advance")
    BY <1>1, <2>2 DEF IInv, TrailInv, StatusFollowsTrail, Excused
  <2> QED
    BY <2>1, <2>2
<1> QED
  BY <1>1, InvariantHolds, PTL
===============================================================================

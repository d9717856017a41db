----------------------------- MODULE OutboxProofs -----------------------------
(***************************************************************************)
(* Proofs about Outbox, for any number of rows, users and instances: a     *)
(* claim is exclusive while its row is young, the daily cap is exceeded by *)
(* no more than races, faults and stolen rows explain, and with one        *)
(* instance only faults duplicate a mail and the outbox implements Mailbox.*)
(***************************************************************************)
EXTENDS Outbox, SequenceTheorems, FiniteSetTheorems, TLAPS

HoldingOf(q) == IF q.pc = "claim" THEN q.mine ELSE q.todo

LEMMA WorkerIs ==
    ASSUME TypeOK, NEW w \in Workers
    PROVE  /\ worker[w] \in WorkerRecord /\ Holding(w) = HoldingOf(worker[w])
           /\ worker[w].todo \in Seq(Notifications) /\ worker[w].mine \in Seq(Notifications)
           /\ Holding(w) \in Seq(Notifications)
           /\ Len(Holding(w)) \in Nat /\ DOMAIN Holding(w) = 1 .. Len(Holding(w))
           /\ \A i \in DOMAIN Holding(w) : Holding(w)[i] \in Notifications
<1>1. worker[w] \in WorkerRecord
  BY DEF TypeOK
<1>2. worker[w].todo \in Seq(Notifications) /\ worker[w].mine \in Seq(Notifications)
  BY <1>1 DEF WorkerRecord
<1>3. Holding(w) \in Seq(Notifications)
  BY <1>2 DEF Holding
<1> QED
  BY <1>1, <1>2, <1>3, LenProperties, ElementOfSeq DEF Holding, HoldingOf

\* A worker past the claim is at the head of what it holds.
LEMMA CurrentIs ==
    ASSUME TypeOK, NEW w \in Workers, WorkerInv(worker[w]),
           worker[w].pc \notin {"idle", "fetch", "claim"}
    PROVE  /\ Holding(w) = worker[w].todo /\ worker[w].todo # <<>>
           /\ Current(w) \in Notifications /\ Current(w) = Holding(w)[1]
           /\ 1 \in DOMAIN Holding(w) /\ Len(worker[w].todo) > 0
<1>1. worker[w].todo # <<>> /\ Holding(w) = worker[w].todo
  BY DEF WorkerInv, Holding
<1>2. Len(worker[w].todo) \in Nat /\ Len(worker[w].todo) > 0 /\ worker[w].todo \in Seq(Notifications)
  BY <1>1, WorkerIs, EmptySeq
<1>3. Current(w) \in Notifications /\ Current(w) = worker[w].todo[1]
  BY <1>1, <1>2, HeadTailProperties DEF Current
<1> QED
  BY <1>1, <1>2, <1>3, WorkerIs

LEMMA RestingIs ==
    /\ Resting \in WorkerRecord /\ Resting.pc = "idle" /\ Resting.todo = <<>> /\ Resting.mine = <<>>
    /\ WorkerInv(Resting) /\ HoldingOf(Resting) = <<>>
  BY EmptySeq DEF Resting, WorkerRecord, Steps, WorkerInv, HoldingOf

LEMMA InitIInv == Init => IInv
<1> SUFFICES ASSUME Init PROVE IInv
  OBVIOUS
<1>1. created \in Seq(Notifications) /\ DOMAIN created = {}
  BY EmptySeq, LenProperties DEF Init
<1>2. \A w \in Workers : worker[w] = Resting
  BY DEF Init
<1>3. TypeOK
  <2>1. /\ day \in 1 .. MaxDay /\ faults \in 0 .. MaxFaults /\ 0 \in 0 .. day
    BY OutboxAssumption DEF Init
  <2>2. IsInjective(created) /\ ToSet(created) = {}
    BY <1>1 DEF IsInjective, ToSet
  <2> QED
    BY <1>1, <2>1, <2>2, RestingIs DEF Init, TypeOK, RowStatus
<1>4. \A w \in Workers : WorkerInv(worker[w])
  BY <1>2, RestingIs
<1>5. HeldInv
  <2>1. \A w \in Workers : DOMAIN Holding(w) = {}
    BY <1>2, <1>3, RestingIs, WorkerIs, EmptySeq
  <2> QED
    BY <2>1 DEF HeldInv
<1>6. DeliveredInv /\ SentWasDelivered
  BY DEF Init, DeliveredInv, SentWasDelivered
<1>8. RecordInv
  BY <1>2, RestingIs DEF RecordInv
<1> QED
  BY <1>3, <1>4, <1>5, <1>6, <1>8 DEF IInv

-------------------------------------------------------------------------------
(* What a step does to each part of the invariant.                         *)

\* One worker moves and goes on holding a tail of what it held; the rows that
\* are held stay claimed.
LEMMA HeldKeep ==
    ASSUME TypeOK, HeldInv, TypeOK', NEW w \in Workers, NEW k \in Nat,
           \A v \in Workers \ {w} : worker'[v] = worker[v],
           aged \subseteq aged',
           \A i \in DOMAIN Holding(w)' :
               i + k \in DOMAIN Holding(w) /\ Holding(w)'[i] = Holding(w)[i + k],
           \A v \in Workers : \A i \in DOMAIN Holding(v)' :
               Exclusive(Holding(v)[i])' /\ status[Holding(v)'[i]] = "sending"
                   => status'[Holding(v)'[i]] = "sending"
    PROVE  HeldInv'
<1>1. \A v \in Workers \ {w} : Holding(v)' = Holding(v)
  BY DEF Holding
<1>2. \A n : Exclusive(n)' => Exclusive(n)
  BY DEF Exclusive, Alone
<1>3. \A v \in Workers : DOMAIN Holding(v) \subseteq Nat /\ DOMAIN Holding(v)' \subseteq Nat
  <2> TAKE v \in Workers
  <2>1. Holding(v)' \in Seq(Notifications)
    BY DEF TypeOK, WorkerRecord, Holding
  <2> QED
    BY <2>1, WorkerIs, LenProperties
\* Each held row was held, at a place of its own.
<1>4. ASSUME NEW v \in Workers, NEW i \in DOMAIN Holding(v)'
      PROVE  LET j == IF v = w THEN i + k ELSE i IN
             j \in DOMAIN Holding(v) /\ Holding(v)'[i] = Holding(v)[j]
  BY <1>1, <1>4
<1> SUFFICES ASSUME NEW v \in Workers, NEW i \in DOMAIN Holding(v)', Exclusive(Holding(v)[i])'
             PROVE  /\ status'[Holding(v)'[i]] = "sending"
                    /\ \A u \in Workers : \A j \in DOMAIN Holding(u)' :
                           Holding(u)'[j] = Holding(v)'[i] => u = v /\ j = i
  BY DEF HeldInv
<1>5. Exclusive(Holding(v)'[i])
  BY <1>2
<1>6. status'[Holding(v)'[i]] = "sending"
  BY <1>4, <1>5 DEF HeldInv
<1>7. ASSUME NEW u \in Workers, NEW j \in DOMAIN Holding(u)', Holding(u)'[j] = Holding(v)'[i]
      PROVE  u = v /\ j = i
  <2> DEFINE a == IF v = w THEN i + k ELSE i
             b == IF u = w THEN j + k ELSE j
  <2>1. a \in DOMAIN Holding(v) /\ Holding(v)'[i] = Holding(v)[a]
        /\ b \in DOMAIN Holding(u) /\ Holding(u)'[j] = Holding(u)[b]
    BY <1>4, <1>7
  <2>2. u = v /\ a = b
    <3> HIDE DEF a, b
    <3>1. Exclusive(Holding(v)[a]) /\ Holding(u)[b] = Holding(v)[a]
      BY <1>5, <1>7, <2>1
    <3> QED
      BY <2>1, <3>1 DEF HeldInv
  <2> QED
    BY <1>3, <2>2
<1> QED
  BY <1>6, <1>7

\* With one instance: no mail is lost from the record, and one that leaves a
\* worker unrecorded costs a fault.
LEMMA DeliveredKeep ==
    ASSUME TypeOK, DeliveredInv, delivered' = delivered, faults' \in {faults, faults + 1},
           \A n \in Notifications : Alone /\ status[n] = "sent" => status'[n] = "sent",
           \A n \in Notifications : Alone /\ Recording(n) =>
               Recording(n)' \/ status'[n] = "sent" \/ faults' = faults + 1
    PROVE  DeliveredInv'
<1>1. faults \in Nat /\ delivered \in [Notifications -> Nat]
  BY OutboxAssumption DEF TypeOK
<1> SUFFICES ASSUME Alone, NEW n \in Notifications
             PROVE  \/ delivered[n] <= faults'
                    \/ delivered[n] = faults' + 1 /\ (status'[n] = "sent" \/ Recording(n)')
  BY DEF DeliveredInv, Alone
<1>2. CASE delivered[n] <= faults
  BY <1>1, <1>2
<1>3. CASE delivered[n] = faults + 1 /\ (status[n] = "sent" \/ Recording(n))
  <2>1. status'[n] = "sent" \/ Recording(n)' \/ faults' = faults + 1
    BY <1>3
  <2>2. CASE faults' = faults + 1
    BY <1>1, <1>3, <2>2
  <2>3. CASE faults' = faults
    BY <1>1, <1>3, <2>1, <2>3
  <2> QED
    BY <2>2, <2>3
<1> QED
  BY <1>2, <1>3 DEF DeliveredInv

LEMMA Countable ==
    ASSUME NEW S \in SUBSET Notifications, NEW T \in SUBSET S
    PROVE  IsFiniteSet(S) /\ Cardinality(S) \in Nat /\ Cardinality(T) \in Nat
           /\ Cardinality(T) <= Cardinality(S)
<1>1. IsFiniteSet(S)
  BY OutboxAssumption, FS_Subset
<1> QED
  BY <1>1, FS_Subset, FS_CardinalityType

LEMMA LocalStep ==
    ASSUME TypeOK, \A v \in Workers : WorkerInv(worker[v]),
           NEW w \in Workers, NEW q \in WorkerRecord, Local(w, q), WorkerInv(q)
    PROVE  /\ worker' \in [Workers -> WorkerRecord] /\ worker'[w] = q
           /\ \A v \in Workers \ {w} : worker'[v] = worker[v] /\ Holding(v)' = Holding(v)
           /\ Holding(w)' = HoldingOf(q)
           /\ \A v \in Workers : WorkerInv(worker[v])'
<1>1. worker' = [worker EXCEPT ![w] = q] /\ worker \in [Workers -> WorkerRecord]
  BY DEF TypeOK, Local
<1>2. worker' \in [Workers -> WorkerRecord] /\ worker'[w] = q /\ \A v \in Workers \ {w} : worker'[v] = worker[v]
  BY <1>1
<1>3. (\A v \in Workers \ {w} : Holding(v)' = Holding(v)) /\ Holding(w)' = HoldingOf(q)
  BY <1>2 DEF Holding, HoldingOf
<1>4. \A v \in Workers : WorkerInv(worker'[v])
  BY <1>2
<1>5. \A v \in Workers : WorkerInv(worker[v])'
  BY <1>4 DEF WorkerInv
<1> QED
  BY <1>2, <1>3, <1>5

\* A worker that moves without sending or recording leaves the mails alone.
LEMMA QuietStep ==
    ASSUME IInv, TypeOK', HeldInv', NEW w \in Workers,
           \A v \in Workers : WorkerInv(worker[v])',
           \A v \in Workers \ {w} : worker'[v] = worker[v],
           worker[w].pc # "record" \/ faults' = faults + 1,
           worker'[w].pc \notin {"send", "record"}, faults' \in {faults, faults + 1},
           UNCHANGED <<sentOn, day, delivered>>,
           \A n \in Notifications : Alone => (status'[n] = "sent" <=> status[n] = "sent"),
           \A n \in Notifications : status'[n] = "sent" => status[n] = "sent"
    PROVE  IInv'
<1>1. TypeOK /\ DeliveredInv /\ RecordInv /\ SentWasDelivered
  BY DEF IInv
<1>2. DeliveredInv'
  <2>1. \A n : Alone /\ Recording(n) => faults' = faults + 1
    BY DEF Alone, Recording
  <2> QED
    BY <1>1, <2>1, DeliveredKeep
<1>4. RecordInv'
  BY <1>1 DEF RecordInv, Current
<1>5. SentWasDelivered'
  BY <1>1 DEF SentWasDelivered
<1> QED
  BY <1>2, <1>4, <1>5 DEF IInv

-------------------------------------------------------------------------------
(* Rows that are queued, days that pass, users who opt out.                *)

LEMMA EnvironmentSafe ==
    ASSUME IInv,
           \/ \E n \in Notifications : Enqueue(n) \/ Age(n)
           \/ \E u \in Users : OptOut(u)
           \/ Midnight
    PROVE  IInv'
<1>0. TypeOK /\ UNCHANGED <<worker, delivered, faults>> /\ aged \subseteq aged'
  BY DEF IInv, Enqueue, Age, OptOut, Midnight, rows, clock
<1>1. /\ \A n \in Notifications : status[n] = "sending" => status'[n] = "sending"
      /\ \A n \in Notifications : status'[n] = "sent" <=> status[n] = "sent"
      /\ sentOn' = sentOn
  BY <1>0 DEF TypeOK, Enqueue, Fresh, Age, OptOut, Midnight, rows, clock
<1>2. TypeOK'
  <2>1. ASSUME NEW n \in Notifications, Enqueue(n) PROVE TypeOK'
    <3>1. /\ created' = Append(created, n) /\ status' = [status EXCEPT ![n] = "queued"]
          /\ n \notin ToSet(created) /\ created \in Seq(Notifications) /\ IsInjective(created)
          /\ UNCHANGED <<attempts, sentOn, aged, day, optedOut, mailed, stolen>>
      BY <1>0, <2>1 DEF Enqueue, Fresh, TypeOK, clock, tally
    <3>2. /\ created' \in Seq(Notifications) /\ Len(created') = Len(created) + 1
          /\ created'[Len(created) + 1] = n /\ \A i \in 1 .. Len(created) : created'[i] = created[i]
      BY <3>1, AppendProperties
    <3>3. /\ DOMAIN created = 1 .. Len(created) /\ Len(created) \in Nat
          /\ DOMAIN created' = 1 .. (Len(created) + 1)
      BY <3>1, <3>2, LenProperties
    <3>4. \A i \in DOMAIN created' : i \in DOMAIN created \/ i = Len(created) + 1
      BY <3>3
    <3>5. IsInjective(created')
      BY <3>1, <3>2, <3>3, <3>4 DEF IsInjective, ToSet
    <3>6. ToSet(created') = ToSet(created) \cup {n}
      BY <3>2, <3>3, <3>4 DEF ToSet
    <3>7. \A m \in Notifications : status'[m] = "absent" => m \notin ToSet(created')
      BY <1>0, <3>1, <3>6 DEF TypeOK
    <3>8. status' \in [Notifications -> RowStatus]
      BY <1>0, <3>1 DEF TypeOK, RowStatus
    <3> QED
      BY <1>0, <3>1, <3>2, <3>5, <3>7, <3>8 DEF TypeOK
  <2>2. ASSUME NEW n \in Notifications, Age(n) PROVE TypeOK'
    BY <1>0, <2>2 DEF TypeOK, Age, rows, tally
  <2>3. ASSUME NEW u \in Users, OptOut(u) PROVE TypeOK'
    BY <1>0, <2>3 DEF TypeOK, OptOut, rows, clock, tally
  <2>4. CASE Midnight
    <3>1. day \in 1 .. MaxDay /\ MaxDay \in Nat
      BY <1>0, OutboxAssumption DEF TypeOK
    <3>2. day' \in 1 .. MaxDay /\ 0 .. day \subseteq 0 .. day'
      BY <2>4, <3>1 DEF Midnight
    <3> QED
      BY <1>0, <2>4, <3>2 DEF TypeOK, Midnight, rows
  <2> QED
    BY <2>1, <2>2, <2>3, <2>4
<1>3. \A w \in Workers : WorkerInv(worker[w])'
  BY <1>0 DEF IInv, WorkerInv
<1>4. HeldInv'
  <2>1. \A w \in Workers : Holding(w)' = Holding(w)
    BY <1>0 DEF Holding
  <2>2. \A n : Exclusive(n)' => Exclusive(n)
    BY <1>0 DEF Exclusive, Alone
  <2>3. \A w \in Workers : \A i \in DOMAIN Holding(w) : Holding(w)[i] \in Notifications
    BY <1>0, WorkerIs
  <2> QED
    BY <1>1, <2>1, <2>2, <2>3 DEF IInv, HeldInv
<1>5. DeliveredInv' /\ RecordInv' /\ SentWasDelivered'
  <2>1. \A n : Recording(n)' <=> Recording(n)
    BY <1>0 DEF Recording, Current
  <2> QED
    BY <1>0, <1>1, <2>1, DeliveredKeep DEF IInv, RecordInv, Current, SentWasDelivered
<1> QED
  BY <1>2, <1>3, <1>4, <1>5 DEF IInv

-------------------------------------------------------------------------------
(* A drain: the stale claims, the candidates, the claim.                   *)

LEMMA ClaimSafe ==
    ASSUME IInv, NEW w \in Workers, Tick(w) \/ Fetch(w) \/ Claim(w) \/ Load(w)
    PROVE  IInv'
<1>0. /\ TypeOK /\ HeldInv /\ \A v \in Workers : WorkerInv(worker[v])
      /\ worker[w] \in WorkerRecord /\ WorkerInv(worker[w])
      /\ worker[w].todo \in Seq(Notifications) /\ worker[w].mine \in Seq(Notifications)
      /\ Holding(w) = HoldingOf(worker[w])
      /\ attempts \in [Notifications -> Nat]
  BY WorkerIs DEF IInv, TypeOK
<1>1. UNCHANGED <<created, attempts, sentOn, aged, day, optedOut, delivered, mailed, faults>>
  BY DEF Tick, Fetch, Claim, Load, rows, clock, tally
<1>2. worker[w].pc \in {"idle", "fetch", "claim"}
  BY DEF Tick, Fetch, Claim, Load
\* What a step leaves to show, once it is known what the worker holds.
<1>3. ASSUME NEW q \in WorkerRecord, Local(w, q), WorkerInv(q), q.pc \notin {"send", "record"},
             status' \in [Notifications -> RowStatus],
             \A n \in Notifications : /\ status'[n] = "absent" <=> status[n] = "absent"
                                      /\ status'[n] = "sent" <=> status[n] = "sent",
             stolen' \in Nat, TypeOK' => HeldInv'
      PROVE  IInv'
  <2>1. /\ worker' \in [Workers -> WorkerRecord] /\ worker'[w] = q
        /\ \A v \in Workers \ {w} : worker'[v] = worker[v]
        /\ \A v \in Workers : WorkerInv(worker[v])'
    BY <1>0, <1>3, LocalStep
  <2>2. TypeOK'
    BY <1>0, <1>1, <1>3, <2>1 DEF TypeOK
  <2> QED
    BY <1>1, <1>2, <1>3, <2>1, <2>2, QuietStep
\* Nothing is held, or what was held, and no claimed row is taken back.
<1>4. ASSUME NEW q \in WorkerRecord, Local(w, q), WorkerInv(q), TypeOK',
             HoldingOf(q) \in {<<>>, Holding(w)},
             \A n \in Notifications : status[n] = "sending" /\ status'[n] # "sending" =>
                 n \in aged /\ HoldingOf(q) = <<>>
      PROVE  HeldInv'
  <2>1. /\ Holding(w)' = HoldingOf(q) /\ \A v \in Workers \ {w} : worker'[v] = worker[v] /\ Holding(v)' = Holding(v)
    BY <1>0, <1>4, LocalStep
  <2>2. \A i \in DOMAIN Holding(w)' : i + 0 \in DOMAIN Holding(w) /\ Holding(w)'[i] = Holding(w)[i + 0]
    <3>1. CASE Holding(w)' = Holding(w)
      <4>1. \A i \in DOMAIN Holding(w) : i + 0 = i
        BY <1>0, WorkerIs
      <4> QED
        BY <3>1, <4>1
    <3>2. CASE Holding(w)' = <<>>
      <4>1. DOMAIN Holding(w)' = {}
        BY <3>2, EmptySeq
      <4> QED
        BY <4>1
    <3> QED
      BY <1>4, <2>1, <3>1, <3>2
  <2>3. ASSUME NEW v \in Workers, NEW i \in DOMAIN Holding(v)', Exclusive(Holding(v)[i])',
               status[Holding(v)'[i]] = "sending"
        PROVE  status'[Holding(v)'[i]] = "sending"
    <3>1. Holding(v)'[i] \in Notifications
      <4>1. CASE v = w
        BY <1>0, <2>2, <2>3, <4>1, WorkerIs
      <4>2. CASE v # w
        BY <1>0, <2>1, <2>3, <4>2, WorkerIs
      <4> QED
        BY <4>1, <4>2
    <3>2. HoldingOf(q) = <<>> => v # w
      <4>1. HoldingOf(q) = <<>> => DOMAIN Holding(w)' = {}
        BY <2>1, EmptySeq
      <4> QED
        BY <2>3, <4>1
    <3>3. Exclusive(Holding(v)[i])' => v = w \/ Holding(v)'[i] \notin aged
      BY <1>1 DEF Exclusive, Alone
    <3> QED
      BY <1>4, <2>3, <3>1, <3>2, <3>3
  <2>4. aged \subseteq aged' /\ 0 \in Nat
    BY <1>1
  <2> QED
    BY <1>0, <1>4, <2>1, <2>2, <2>3, <2>4, HeldKeep
<1>5. CASE Tick(w)
  <2> DEFINE q == [worker[w] EXCEPT !.pc = "fetch"]
  <2>1. /\ worker[w].pc = "idle" /\ Local(w, q)
        /\ status' = [n \in Notifications |-> IF n \in Stale THEN "queued" ELSE status[n]]
    BY <1>5 DEF Tick, Goto
  <2>2. q \in WorkerRecord /\ q.pc = "fetch" /\ WorkerInv(q) /\ HoldingOf(q) = <<>>
    BY <1>0, <2>1 DEF WorkerRecord, Steps, WorkerInv, HoldingOf
  <2> HIDE DEF q
  <2>3. /\ status' \in [Notifications -> RowStatus]
        /\ \A n \in Notifications : /\ status'[n] = "absent" <=> status[n] = "absent"
                                    /\ status'[n] = "sent" <=> status[n] = "sent"
                                    /\ status'[n] # status[n] => n \in aged
    BY <1>0, <2>1 DEF TypeOK, RowStatus, Stale
  <2>4. stolen' \in Nat
    <3>1. Cardinality(Stale \cap Claimed) \in Nat
      BY Countable DEF Stale
    <3> QED
      BY <1>0, <1>5, <3>1 DEF Tick, TypeOK
  <2> QED
    BY <1>3, <1>4, <2>1, <2>2, <2>3, <2>4
<1>6. CASE Fetch(w)
  <2>1. PICK p \in Candidates :
            Local(w, IF p = <<>> THEN Resting ELSE [worker[w] EXCEPT !.pc = "claim", !.todo = p])
    BY <1>6 DEF Fetch
  <2>2. p \in Seq(Notifications)
    <3>1. Cardinality(Oldest) \in Nat /\ Oldest \subseteq Notifications
      <4>1. Oldest \subseteq Notifications
        BY DEF Oldest
      <4> QED
        BY <4>1, Countable
    <3>2. p \in [1 .. Cardinality(Oldest) -> Notifications]
      BY <2>1, <3>1 DEF Candidates
    <3> QED
      BY <3>1, <3>2, SeqDef
  <2> DEFINE q == IF p = <<>> THEN Resting ELSE [worker[w] EXCEPT !.pc = "claim", !.todo = p]
  <2>3. worker[w].pc = "fetch" /\ Local(w, q) /\ UNCHANGED <<status, stolen>> /\ worker[w].mine = <<>>
    BY <1>0, <1>6, <2>1 DEF Fetch, rows, tally, WorkerInv
  <2>4. q \in WorkerRecord /\ q.pc \in {"idle", "claim"} /\ WorkerInv(q) /\ HoldingOf(q) = <<>>
    <3>1. CASE p = <<>>
      BY <3>1, RestingIs
    <3>2. CASE p # <<>>
      BY <1>0, <2>2, <2>3, <3>2 DEF WorkerRecord, Steps, WorkerInv, HoldingOf
    <3> QED
      BY <3>1, <3>2
  <2> HIDE DEF q
  <2> QED
    BY <1>0, <1>3, <1>4, <2>3, <2>4 DEF TypeOK
<1>7. CASE Load(w)
  <2> DEFINE q == IF worker[w].mine = <<>> THEN Resting
                  ELSE [pc |-> "row", todo |-> worker[w].mine, mine |-> <<>>,
                        tries |-> attempts, muted |-> optedOut]
  <2>1. worker[w].pc = "claim" /\ Local(w, q) /\ UNCHANGED <<status, stolen>>
    BY <1>7 DEF Load, rows, tally
  <2>2. /\ q \in WorkerRecord /\ q.pc \in {"idle", "row"} /\ WorkerInv(q)
        /\ HoldingOf(q) = worker[w].mine /\ Holding(w) = worker[w].mine
    <3>1. CASE worker[w].mine = <<>>
      BY <1>0, <2>1, <3>1, RestingIs DEF HoldingOf
    <3>2. CASE worker[w].mine # <<>>
      <4>1. optedOut \in SUBSET Users
        BY <1>0 DEF TypeOK
      <4>2. <<>> \in Seq(Notifications)
        BY EmptySeq
      <4> QED
        BY <1>0, <2>1, <3>2, <4>1, <4>2 DEF WorkerRecord, Steps, WorkerInv, HoldingOf
    <3> QED
      BY <3>1, <3>2
  <2> HIDE DEF q
  <2> QED
    BY <1>0, <1>3, <1>4, <2>1, <2>2 DEF TypeOK
<1>8. CASE Claim(w)
  <2> DEFINE n == Current(w)
             q == [worker[w] EXCEPT !.todo = Tail(@)]
             p == [worker[w] EXCEPT !.todo = Tail(@), !.mine = Append(@, n)]
  <2>1. worker[w].pc = "claim" /\ worker[w].todo # <<>>
    BY <1>8 DEF Claim
  <2>2. n \in Notifications /\ Tail(worker[w].todo) \in Seq(Notifications)
    BY <1>0, <2>1, HeadTailProperties DEF Current
  <2>3. CASE ~Claimable(n)
    <3>1. Local(w, q) /\ UNCHANGED <<status, stolen>>
      BY <1>8, <2>3 DEF Claim, tally
    <3>2. q \in WorkerRecord /\ q.pc = "claim" /\ WorkerInv(q) /\ HoldingOf(q) = Holding(w)
      BY <1>0, <2>1, <2>2 DEF WorkerRecord, Steps, WorkerInv, HoldingOf
    <3> HIDE DEF q
    <3> QED
      BY <1>0, <1>3, <1>4, <3>1, <3>2 DEF TypeOK
  <2>4. CASE Claimable(n)
    <3>1. /\ Local(w, p) /\ UNCHANGED stolen
          /\ status' = [status EXCEPT ![n] = "sending"] /\ status[n] = "queued"
      BY <1>8, <2>4 DEF Claim, Claimable, tally
    <3> DEFINE mine == Append(worker[w].mine, n)
    <3>2. mine \in Seq(Notifications)
      BY <1>0, <2>2, AppendProperties
    <3>3. p \in WorkerRecord /\ p.pc = "claim" /\ WorkerInv(p) /\ HoldingOf(p) = mine
      BY <1>0, <2>1, <2>2, <3>2 DEF WorkerRecord, Steps, WorkerInv, HoldingOf
    <3> HIDE DEF p
    <3>4. /\ status' \in [Notifications -> RowStatus] /\ status'[n] = "sending"
          /\ \A m \in Notifications : /\ status'[m] = "absent" <=> status[m] = "absent"
                                      /\ status'[m] = "sent" <=> status[m] = "sent"
                                      /\ status[m] = "sending" => status'[m] = "sending"
      BY <1>0, <2>2, <3>1 DEF TypeOK, RowStatus
    <3>5. /\ Holding(w) = worker[w].mine /\ Holding(w)' = mine
          /\ \A v \in Workers \ {w} : Holding(v)' = Holding(v)
      BY <1>0, <2>1, <3>1, <3>3, LocalStep DEF HoldingOf
    <3>6. /\ Len(mine) = Len(Holding(w)) + 1 /\ mine[Len(mine)] = n
          /\ \A i \in 1 .. Len(Holding(w)) : mine[i] = Holding(w)[i]
      BY <1>0, <2>2, <3>5, AppendProperties
    <3>7. /\ Len(Holding(w)) \in Nat /\ DOMAIN Holding(w) = 1 .. Len(Holding(w))
          /\ DOMAIN mine = 1 .. Len(mine)
      BY <1>0, <3>2, <3>5, WorkerIs, LenProperties
    <3>8. \A i \in DOMAIN mine : i \in DOMAIN Holding(w) \/ i = Len(mine)
      BY <3>6, <3>7
    <3>9. Len(mine) \in DOMAIN mine /\ Len(mine) \notin DOMAIN Holding(w)
      BY <3>6, <3>7
    \* A row in the queue is held by nobody.
    <3>10. ASSUME Exclusive(n), NEW v \in Workers, NEW i \in DOMAIN Holding(v)
           PROVE  Holding(v)[i] # n
      BY <1>0, <3>1, <3>10 DEF HeldInv
    <3> HIDE DEF mine, n
    <3>11. \A m : Exclusive(m)' <=> Exclusive(m)
      BY <1>1 DEF Exclusive
    <3>12. \A v \in Workers : \A i \in DOMAIN Holding(v)' :
               \/ i \in DOMAIN Holding(v) /\ Holding(v)'[i] = Holding(v)[i]
               \/ v = w /\ i = Len(mine) /\ Holding(v)'[i] = n
      BY <3>5, <3>6, <3>7, <3>8
    <3>13. HeldInv'
      <4> SUFFICES ASSUME NEW v \in Workers, NEW i \in DOMAIN Holding(v)', Exclusive(Holding(v)'[i])
                   PROVE  /\ status'[Holding(v)'[i]] = "sending"
                          /\ \A u \in Workers : \A j \in DOMAIN Holding(u)' :
                                 Holding(u)'[j] = Holding(v)'[i] => u = v /\ j = i
        BY <3>11 DEF HeldInv
      <4>1. CASE i \in DOMAIN Holding(v) /\ Holding(v)'[i] = Holding(v)[i]
        <5>1. status[Holding(v)[i]] = "sending" /\ Holding(v)[i] \in Notifications
          BY <1>0, <4>1, WorkerIs DEF HeldInv
        <5>2. Holding(v)[i] # n
          BY <3>1, <5>1
        <5>3. ASSUME NEW u \in Workers, NEW j \in DOMAIN Holding(u)', Holding(u)'[j] = Holding(v)'[i]
              PROVE  u = v /\ j = i
          <6>1. j \in DOMAIN Holding(u) /\ Holding(u)[j] = Holding(v)[i]
            BY <3>12, <4>1, <5>2, <5>3
          <6> QED
            BY <1>0, <4>1, <6>1 DEF HeldInv
        <5> QED
          BY <3>4, <4>1, <5>1, <5>3
      <4>2. CASE v = w /\ i = Len(mine) /\ Holding(v)'[i] = n
        <5>1. ASSUME NEW u \in Workers, NEW j \in DOMAIN Holding(u)', Holding(u)'[j] = n
              PROVE  u = v /\ j = i
          BY <3>10, <3>12, <4>2, <5>1
        <5> QED
          BY <3>4, <4>2, <5>1
      <4> QED
        BY <3>12, <4>1, <4>2
    <3> QED
      BY <1>0, <1>3, <3>1, <3>3, <3>4, <3>13 DEF TypeOK
  <2> QED
    BY <2>3, <2>4
<1> QED
  BY <1>5, <1>6, <1>7, <1>8

-------------------------------------------------------------------------------
(* The claimed rows, one at a time.                                        *)

\* The loop leaves the row at its head and holds the rest.
LEMMA NextRowStep ==
    ASSUME TypeOK, \A v \in Workers : WorkerInv(worker[v]), NEW w \in Workers,
           worker[w].pc \notin {"idle", "fetch", "claim"}, NextRow(w)
    PROVE  /\ worker' \in [Workers -> WorkerRecord] /\ worker'[w].pc \in {"idle", "row"}
           /\ \A v \in Workers \ {w} : worker'[v] = worker[v] /\ Holding(v)' = Holding(v)
           /\ \A v \in Workers : WorkerInv(worker[v])'
           /\ \A i \in DOMAIN Holding(w)' :
                  i \in Nat /\ i > 0 /\ i + 1 \in DOMAIN Holding(w) /\ Holding(w)'[i] = Holding(w)[i + 1]
           /\ \A i \in DOMAIN Holding(w) : i = 1 \/ \E j \in DOMAIN Holding(w)' : Holding(w)'[j] = Holding(w)[i]
<1> DEFINE rest == Tail(worker[w].todo)
           q == IF Len(worker[w].todo) = 1 THEN Resting
                ELSE [worker[w] EXCEPT !.pc = "row", !.todo = rest]
<1>1. /\ worker[w] \in WorkerRecord /\ worker[w].todo \in Seq(Notifications) /\ worker[w].todo # <<>>
      /\ Holding(w) = worker[w].todo /\ DOMAIN Holding(w) = 1 .. Len(Holding(w))
      /\ Len(worker[w].todo) \in Nat /\ Len(worker[w].todo) > 0
      /\ worker[w].mine = <<>>
  BY WorkerIs, CurrentIs DEF WorkerInv
<1>2. /\ rest \in Seq(Notifications) /\ Len(rest) = Len(worker[w].todo) - 1
      /\ \A i \in 1 .. Len(rest) : rest[i] = worker[w].todo[i + 1]
  BY <1>1, HeadTailProperties
<1>3. DOMAIN rest = 1 .. Len(rest)
  BY <1>2, LenProperties
<1>4. Local(w, q)
  BY DEF NextRow
<1>5. /\ q \in WorkerRecord /\ q.pc \in {"idle", "row"} /\ WorkerInv(q)
      /\ \/ HoldingOf(q) = <<>> /\ Len(worker[w].todo) = 1
         \/ HoldingOf(q) = rest
  <2>1. CASE Len(worker[w].todo) = 1
    BY <2>1, RestingIs
  <2>2. CASE Len(worker[w].todo) # 1
    <3> HIDE DEF rest
    <3>1. rest # <<>>
      <4>1. Len(rest) # 0
        BY <1>1, <1>2, <2>2
      <4> QED
        BY <4>1, EmptySeq
    <3> QED
      BY <1>1, <1>2, <2>2, <3>1 DEF WorkerRecord, Steps, WorkerInv, HoldingOf
  <2> QED
    BY <2>1, <2>2
<1> HIDE DEF q
<1>6. /\ worker' \in [Workers -> WorkerRecord] /\ worker'[w] = q
      /\ \A v \in Workers \ {w} : worker'[v] = worker[v] /\ Holding(v)' = Holding(v)
      /\ Holding(w)' = HoldingOf(q)
      /\ \A v \in Workers : WorkerInv(worker[v])'
  BY <1>4, <1>5, LocalStep
<1>7. ASSUME NEW i \in DOMAIN HoldingOf(q)
      PROVE  /\ i \in Nat /\ i > 0 /\ i + 1 \in DOMAIN Holding(w)
             /\ HoldingOf(q)[i] = Holding(w)[i + 1]
  <2>1. HoldingOf(q) = rest
    BY <1>5, <1>7, EmptySeq
  <2>2. i \in 1 .. Len(rest)
    BY <1>3, <1>7, <2>1
  <2> HIDE DEF rest
  <2> QED
    BY <1>1, <1>2, <2>1, <2>2
<1>8. ASSUME NEW i \in DOMAIN Holding(w), i # 1
      PROVE  \E j \in DOMAIN HoldingOf(q) : HoldingOf(q)[j] = Holding(w)[i]
  <2>1. HoldingOf(q) = rest /\ i - 1 \in 1 .. Len(rest) /\ (i - 1) + 1 = i
    <3> HIDE DEF rest
    <3> QED
      BY <1>1, <1>2, <1>5, <1>8
  <2> HIDE DEF rest
  <2> QED
    BY <1>1, <1>2, <1>3, <2>1
<1> QED
  BY <1>5, <1>6, <1>7, <1>8

\* Settling the row at the head disturbs no row that is still held.
LEMMA HeadSettled ==
    ASSUME IInv, TypeOK', NEW w \in Workers, worker[w].pc \notin {"idle", "fetch", "claim"},
           NextRow(w), aged' = aged,
           \A m \in Notifications \ {Current(w)} : status'[m] = status[m]
    PROVE  HeldInv'
<1>1. TypeOK /\ HeldInv /\ \A v \in Workers : WorkerInv(worker[v])
  BY DEF IInv
<1>2. /\ \A v \in Workers \ {w} : worker'[v] = worker[v] /\ Holding(v)' = Holding(v)
      /\ \A i \in DOMAIN Holding(w)' :
             i \in Nat /\ i > 0 /\ i + 1 \in DOMAIN Holding(w) /\ Holding(w)'[i] = Holding(w)[i + 1]
  BY <1>1, NextRowStep
<1>3. Current(w) = Holding(w)[1] /\ 1 \in DOMAIN Holding(w)
  BY <1>1, CurrentIs
<1>4. \A n : Exclusive(n)' => Exclusive(n)
  BY DEF Exclusive, Alone
<1>5. ASSUME NEW v \in Workers, NEW i \in DOMAIN Holding(v)', Exclusive(Holding(v)[i])'
      PROVE  Holding(v)'[i] \in Notifications \ {Current(w)}
  <2> DEFINE j == IF v = w THEN i + 1 ELSE i
  <2>1. j \in DOMAIN Holding(v) /\ Holding(v)'[i] = Holding(v)[j] /\ (v = w => j # 1)
    BY <1>2
  <2> HIDE DEF j
  <2>2. Holding(v)'[i] \in Notifications
    BY <1>1, <2>1, WorkerIs
  <2>3. Exclusive(Holding(v)'[i])
    BY <1>4, <1>5
  <2>4. Holding(v)'[i] # Current(w)
    <3>1. SUFFICES ASSUME Holding(v)[j] = Holding(w)[1] PROVE FALSE
      BY <1>3, <2>1
    <3>2. v = w /\ j = 1
      <4>1. Exclusive(Holding(w)[1])
        BY <2>1, <2>3, <3>1
      <4> QED
        BY <1>1, <1>3, <2>1, <3>1, <4>1 DEF HeldInv
    <3> QED
      BY <2>1, <3>2
  <2> QED
    BY <2>2, <2>4
<1>6. 1 \in Nat /\ aged \subseteq aged'
  OBVIOUS
<1> QED
  BY <1>1, <1>2, <1>5, <1>6, HeldKeep

\* With one instance the row at the head is still claimed.
LEMMA HeadIsClaimed ==
    ASSUME IInv, NEW w \in Workers, worker[w].pc \notin {"idle", "fetch", "claim"}, Alone
    PROVE  status[Current(w)] = "sending"
<1>1. TypeOK /\ HeldInv /\ WorkerInv(worker[w])
  BY DEF IInv
<1>2. Current(w) = Holding(w)[1] /\ 1 \in DOMAIN Holding(w)
  BY <1>1, CurrentIs
<1> QED
  BY <1>1, <1>2 DEF HeldInv, Exclusive

\* A row is settled, or put back, without a mail of its own.
LEMMA SettledSafe ==
    ASSUME IInv, NEW w \in Workers, Refuse(w) \/ SkipCapped(w) \/ Bounce(w)
    PROVE  IInv'
<1>1. TypeOK /\ \A v \in Workers : WorkerInv(worker[v])
  BY DEF IInv
<1>2. worker[w].pc \in {"row", "cap", "bounce"} /\ NextRow(w)
  BY DEF Refuse, SkipCapped, Bounce
<1>3. UNCHANGED <<created, sentOn, aged, day, optedOut, delivered, mailed, stolen, faults>>
  BY DEF Refuse, SkipCapped, Bounce, clock, tally
<1> DEFINE n == Current(w)
<1>4. n \in Notifications /\ worker[w] \in WorkerRecord
  BY <1>1, <1>2, CurrentIs, WorkerIs
<1>5. PICK x \in {"queued", "skipped", "failed"} : status' = [status EXCEPT ![n] = x]
  BY DEF Refuse, SkipCapped, Bounce, AfterFailure
<1>6. attempts' \in [Notifications -> Nat]
  <2>1. CASE Bounce(w)
    <3>1. attempts' = [attempts EXCEPT ![n] = worker[w].tries[n] + 1]
      BY <2>1 DEF Bounce
    <3>2. worker[w].tries \in [Notifications -> Nat]
      BY <1>4 DEF WorkerRecord
    <3>3. worker[w].tries[n] + 1 \in Nat
      BY <1>4, <3>2
    <3> HIDE DEF n
    <3> QED
      BY <1>1, <1>4, <3>1, <3>3 DEF TypeOK
  <2>2. CASE Refuse(w) \/ SkipCapped(w)
    BY <1>1, <2>2 DEF Refuse, SkipCapped, TypeOK
  <2> QED
    BY <2>1, <2>2
<1>7. /\ worker' \in [Workers -> WorkerRecord] /\ worker'[w].pc \in {"idle", "row"}
      /\ \A v \in Workers \ {w} : worker'[v] = worker[v]
      /\ \A v \in Workers : WorkerInv(worker[v])'
  BY <1>1, <1>2, NextRowStep
<1> HIDE DEF n
<1>9. /\ status' \in [Notifications -> RowStatus] /\ status'[n] = x
      /\ \A m \in Notifications \ {n} : status'[m] = status[m]
  BY <1>1, <1>4, <1>5 DEF TypeOK, RowStatus
<1>10. TypeOK'
  BY <1>1, <1>3, <1>4, <1>6, <1>7, <1>9 DEF TypeOK
<1>11. HeldInv'
  BY <1>2, <1>3, <1>9, <1>10, HeadSettled DEF n
<1>12. /\ \A m \in Notifications : status'[m] = "sent" => status[m] = "sent"
       /\ \A m \in Notifications : Alone => (status'[m] = "sent" <=> status[m] = "sent")
  <2>1. Alone => status[n] = "sending"
    BY <1>2, HeadIsClaimed DEF n
  <2> QED
    BY <1>9, <2>1
<1> QED
  BY <1>2, <1>3, <1>7, <1>10, <1>11, <1>12, QuietStep

\* A worker that only moves on holds what it held.
LEMMA GotoStep ==
    ASSUME IInv, NEW w \in Workers, worker[w].pc \notin {"idle", "fetch", "claim"},
           NEW pc \in {"cap", "send", "record", "bounce"}, Goto(w, pc),
           UNCHANGED <<rows, clock, optedOut>>, faults' \in 0 .. MaxFaults,
           delivered' \in [Notifications -> Nat], mailed' \in [Users -> Nat], stolen' = stolen
    PROVE  /\ TypeOK' /\ HeldInv' /\ worker'[w].pc = pc /\ Current(w)' = Current(w)
           /\ \A v \in Workers \ {w} : worker'[v] = worker[v]
           /\ \A v \in Workers : WorkerInv(worker[v])'
<1>1. TypeOK /\ HeldInv /\ \A v \in Workers : WorkerInv(worker[v])
  BY DEF IInv
<1> DEFINE q == [worker[w] EXCEPT !.pc = pc]
<1>2. worker[w] \in WorkerRecord /\ Holding(w) = worker[w].todo /\ WorkerInv(worker[w])
  BY <1>1, WorkerIs, CurrentIs
<1>3. /\ q \in WorkerRecord /\ q.pc = pc /\ q.todo = worker[w].todo /\ WorkerInv(q)
      /\ HoldingOf(q) = Holding(w)
  BY <1>2 DEF WorkerRecord, Steps, WorkerInv, HoldingOf
<1>4. Local(w, q)
  BY DEF Goto
<1> HIDE DEF q
<1>5. /\ worker' \in [Workers -> WorkerRecord] /\ worker'[w] = q
      /\ \A v \in Workers \ {w} : worker'[v] = worker[v] /\ Holding(v)' = Holding(v)
      /\ Holding(w)' = Holding(w)
      /\ \A v \in Workers : WorkerInv(worker[v])'
  BY <1>1, <1>3, <1>4, LocalStep
<1>6. TypeOK'
  BY <1>1, <1>5 DEF TypeOK, rows, clock
<1>7. \A i \in DOMAIN Holding(w) : i + 0 = i
  BY <1>1, WorkerIs
<1>8. aged \subseteq aged' /\ status' = status /\ 0 \in Nat
  BY DEF rows, clock
<1>9. HeldInv'
  BY <1>1, <1>5, <1>6, <1>7, <1>8, HeldKeep
<1> QED
  BY <1>3, <1>5, <1>6, <1>9 DEF Current

LEMMA CheckCapSafe ==
    ASSUME IInv, NEW w \in Workers, CheckCap(w)
    PROVE  IInv'
<1>1. /\ TypeOK /\ DeliveredInv /\ RecordInv /\ SentWasDelivered
      /\ delivered \in [Notifications -> Nat] /\ faults \in 0 .. MaxFaults /\ mailed \in [Users -> Nat]
  BY DEF IInv, TypeOK
<1> DEFINE n == Current(w)
           pc == IF Capped(n) /\ ~UnderCap(n) THEN "cap" ELSE "send"
<1>2. worker[w].pc = "row" /\ Goto(w, pc) /\ UNCHANGED <<rows, clock, optedOut, delivered, mailed, stolen, faults>>
  BY DEF CheckCap, tally
<1>3. pc \in {"cap", "send", "record", "bounce"}
  OBVIOUS
<1> HIDE DEF pc
<1>5. /\ TypeOK' /\ HeldInv' /\ worker'[w].pc = pc /\ Current(w)' = n
      /\ \A v \in Workers \ {w} : worker'[v] = worker[v]
      /\ \A v \in Workers : WorkerInv(worker[v])'
  BY <1>1, <1>2, <1>3, GotoStep
<1>6. CASE pc = "cap"
  BY <1>2, <1>5, <1>6, QuietStep DEF rows, clock
<1>7. CASE pc = "send"
  <2>1. DeliveredInv'
    <3>1. \A m : Alone => ~Recording(m)
      BY <1>2 DEF Alone, Recording
    <3> QED
      BY <1>1, <1>2, <3>1, DeliveredKeep DEF rows
  <2>3. RecordInv'
    BY <1>1, <1>2, <1>5, <1>7 DEF RecordInv, Current
  <2>4. SentWasDelivered'
    BY <1>1, <1>2 DEF SentWasDelivered, rows
  <2> QED
    BY <1>5, <2>1, <2>3, <2>4 DEF IInv
<1> QED
  BY <1>6, <1>7 DEF pc

LEMMA SendSafe ==
    ASSUME IInv, NEW w \in Workers, Send(w)
    PROVE  IInv'
<1>1. /\ TypeOK /\ DeliveredInv /\ RecordInv /\ SentWasDelivered /\ WorkerInv(worker[w])
      /\ delivered \in [Notifications -> Nat] /\ faults \in 0 .. MaxFaults /\ mailed \in [Users -> Nat]
  BY DEF IInv, TypeOK
<1>2. worker[w].pc = "send" /\ UNCHANGED <<rows, clock, optedOut, stolen, faults>>
  BY DEF Send
<1>3. Current(w) \in Notifications /\ faults \in Nat
  <2>1. Current(w) \in Notifications
    BY <1>1, <1>2, CurrentIs
  <2> QED
    BY <1>1, <2>1, OutboxAssumption
\* A constant: the row stays what it is in the next state.
<1>n. PICK n \in Notifications : n = Current(w)
  BY <1>3
<1>4. CASE UNCHANGED <<delivered, mailed>> /\ Goto(w, "bounce")
  <2>1. /\ TypeOK' /\ HeldInv' /\ worker'[w].pc = "bounce"
        /\ \A v \in Workers \ {w} : worker'[v] = worker[v]
        /\ \A v \in Workers : WorkerInv(worker[v])'
    BY <1>1, <1>2, <1>4, GotoStep
  <2> QED
    BY <1>2, <1>4, <2>1, QuietStep DEF rows, clock
<1>5. CASE /\ delivered' = [delivered EXCEPT ![n] = @ + 1] /\ Goto(w, "record")
           /\ mailed' = IF Capped(n) THEN [mailed EXCEPT ![Owner[n]] = @ + 1] ELSE mailed
  <2>1. /\ delivered' \in [Notifications -> Nat] /\ delivered'[n] = delivered[n] + 1
        /\ \A m \in Notifications \ {n} : delivered'[m] = delivered[m]
    BY <1>1, <1>n, <1>5
  <2>m. mailed' \in [Users -> Nat]
    <3>1. Owner[n] \in Users
      BY OutboxAssumption
    <3> QED
      BY <1>1, <1>5, <3>1
  <2>2. /\ TypeOK' /\ HeldInv' /\ worker'[w].pc = "record" /\ Current(w)' = n
        /\ \A v \in Workers \ {w} : worker'[v] = worker[v]
        /\ \A v \in Workers : WorkerInv(worker[v])'
    BY <1>1, <1>2, <1>5, <1>n, <2>1, <2>m, GotoStep
  <2>3. DeliveredInv'
    <3> SUFFICES ASSUME Alone, NEW m \in Notifications
                 PROVE  \/ delivered'[m] <= faults'
                        \/ delivered'[m] = faults' + 1 /\ (status'[m] = "sent" \/ Recording(m)')
      BY DEF DeliveredInv, Alone
    <3>1. \A k : ~Recording(k)
      BY <1>2 DEF Alone, Recording
    <3>2. status' = status /\ faults' = faults
      BY <1>2 DEF rows
    <3>3. CASE m = n
      <4>1. status[n] = "sending"
        BY <1>2, <1>n, HeadIsClaimed
      <4>2. delivered[n] <= faults
        BY <1>1, <1>3, <3>1, <4>1 DEF DeliveredInv
      <4>3. Recording(n)'
        BY <1>n, <2>2 DEF Recording
      <4>4. delivered[n] \in Nat
        BY <1>1, <1>3
      <4> QED
        BY <1>3, <2>1, <3>2, <3>3, <4>2, <4>3, <4>4
    <3>4. CASE m # n
      BY <1>1, <2>1, <3>1, <3>2, <3>4 DEF DeliveredInv
    <3> QED
      BY <3>3, <3>4
  <2>5. RecordInv'
    <3> SUFFICES ASSUME NEW v \in Workers, worker'[v].pc = "record"
                 PROVE  delivered'[Current(v)'] > 0
      BY DEF RecordInv
    <3>1. CASE v = w
      <4>1. delivered[n] \in Nat
        BY <1>1, <1>3
      <4> QED
        BY <2>1, <2>2, <3>1, <4>1
    <3>2. CASE v # w
      <4>1. Current(v)' = Current(v) /\ delivered[Current(v)] > 0 /\ worker[v].pc = "record"
        BY <1>1, <2>2, <3>2 DEF RecordInv, Current
      <4>2. Current(v) \in Notifications
        BY <1>1, <4>1, CurrentIs DEF IInv
      <4> QED
        BY <1>1, <1>3, <2>1, <4>1, <4>2
    <3> QED
      BY <3>1, <3>2
  <2>6. SentWasDelivered'
    <3> SUFFICES ASSUME NEW m \in Notifications, status'[m] = "sent" PROVE delivered'[m] > 0
      BY DEF SentWasDelivered
    <3>1. delivered[m] > 0 /\ delivered[m] \in Nat
      BY <1>1, <1>2 DEF SentWasDelivered, rows
    <3> QED
      BY <2>1, <3>1
  <2> QED
    BY <2>2, <2>3, <2>5, <2>6 DEF IInv
<1> QED
  BY <1>4, <1>5, <1>n DEF Send

\* An acknowledgement that is lost, and a process that dies.
LEMMA FaultSafe ==
    ASSUME IInv, NEW w \in Workers, LoseAcknowledgement(w) \/ Crash(w)
    PROVE  IInv'
<1>1. /\ TypeOK /\ HeldInv /\ delivered \in [Notifications -> Nat] /\ mailed \in [Users -> Nat]
      /\ \A v \in Workers : WorkerInv(worker[v])
  BY DEF IInv, TypeOK
<1>2. /\ UNCHANGED <<rows, clock, optedOut, delivered, mailed, stolen>>
      /\ faults' = faults + 1 /\ faults' \in 0 .. MaxFaults
  BY <1>1, OutboxAssumption DEF LoseAcknowledgement, Crash, Fault, TypeOK, tally
<1>3. UNCHANGED <<created, status, attempts, sentOn, aged, day, optedOut, delivered, mailed, stolen>>
  BY <1>2 DEF rows, clock
<1>4. CASE LoseAcknowledgement(w)
  <2>1. /\ TypeOK' /\ HeldInv' /\ worker'[w].pc = "bounce"
        /\ \A v \in Workers \ {w} : worker'[v] = worker[v]
        /\ \A v \in Workers : WorkerInv(worker[v])'
    BY <1>1, <1>2, <1>4, GotoStep DEF LoseAcknowledgement
  <2> QED
    BY <1>2, <1>3, <2>1, QuietStep
<1>5. CASE Crash(w)
  <2>1. /\ worker' \in [Workers -> WorkerRecord] /\ worker'[w] = Resting
        /\ \A v \in Workers \ {w} : worker'[v] = worker[v] /\ Holding(v)' = Holding(v)
        /\ Holding(w)' = <<>>
        /\ \A v \in Workers : WorkerInv(worker[v])'
    BY <1>1, <1>5, RestingIs, LocalStep DEF Crash
  <2>2. TypeOK'
    BY <1>1, <1>2, <1>3, <2>1 DEF TypeOK
  <2>3. DOMAIN Holding(w)' = {} /\ 0 \in Nat
    BY <2>1, EmptySeq
  <2>4. HeldInv'
    BY <1>1, <1>3, <2>1, <2>2, <2>3, HeldKeep
  <2> QED
    BY <1>2, <1>3, <2>1, <2>2, <2>4, RestingIs, QuietStep
<1> QED
  BY <1>4, <1>5

\* The mail is recorded.
LEMMA RecordSafe ==
    ASSUME IInv, NEW w \in Workers, RecordSent(w)
    PROVE  IInv'
<1>1. /\ TypeOK /\ DeliveredInv /\ RecordInv /\ SentWasDelivered
      /\ \A v \in Workers : WorkerInv(worker[v])
      /\ status \in [Notifications -> RowStatus] /\ sentOn \in [Notifications -> 0..day]
      /\ day \in Nat /\ day \in 1 .. MaxDay /\ faults \in Nat
  BY OutboxAssumption DEF IInv, TypeOK
<1>2. /\ worker[w].pc = "record" /\ NextRow(w)
      /\ UNCHANGED <<created, attempts, aged, day, optedOut, delivered, mailed, stolen, faults>>
  BY DEF RecordSent, clock, tally
\* A constant: the row stays what it is in the next state.
<1>n. PICK n \in Notifications : n = Current(w)
  BY <1>1, <1>2, CurrentIs
<1>3. /\ status' = [status EXCEPT ![n] = "sent"] /\ sentOn' = [sentOn EXCEPT ![n] = day]
  BY <1>n DEF RecordSent
<1>4. /\ status' \in [Notifications -> RowStatus] /\ status'[n] = "sent" /\ sentOn'[n] = day
      /\ sentOn' \in [Notifications -> 0..day]
      /\ \A m \in Notifications \ {n} : status'[m] = status[m] /\ sentOn'[m] = sentOn[m]
  BY <1>1, <1>3 DEF RowStatus
<1>5. /\ worker' \in [Workers -> WorkerRecord] /\ worker'[w].pc \in {"idle", "row"}
      /\ \A v \in Workers \ {w} : worker'[v] = worker[v]
      /\ \A v \in Workers : WorkerInv(worker[v])'
  BY <1>1, <1>2, NextRowStep
<1>6. TypeOK'
  BY <1>1, <1>2, <1>4, <1>5 DEF TypeOK
<1>7. HeldInv'
  BY <1>2, <1>4, <1>6, <1>n, HeadSettled
<1>8. DeliveredInv'
  <2>1. \A m : Alone /\ Recording(m) => m = n
    BY <1>n DEF Alone, Recording
  <2>2. \A m \in Notifications : status[m] = "sent" => status'[m] = "sent"
    BY <1>4
  <2> QED
    BY <1>1, <1>2, <1>4, <2>1, <2>2, DeliveredKeep
<1>10. RecordInv'
  BY <1>1, <1>2, <1>5 DEF RecordInv, Current
<1>11. SentWasDelivered'
  <2>1. delivered[n] > 0
    BY <1>1, <1>2, <1>n DEF RecordInv
  <2> QED
    BY <1>1, <1>2, <1>4, <2>1 DEF SentWasDelivered
<1> QED
  BY <1>5, <1>6, <1>7, <1>8, <1>10, <1>11 DEF IInv

-------------------------------------------------------------------------------

LEMMA StutterSafe == IInv /\ UNCHANGED vars => IInv'
<1> SUFFICES ASSUME IInv, UNCHANGED vars PROVE IInv'
  OBVIOUS
<1>1. /\ TypeOK /\ HeldInv /\ DeliveredInv /\ RecordInv /\ SentWasDelivered
      /\ \A w \in Workers : WorkerInv(worker[w])
  BY DEF IInv
<1>2. TypeOK' /\ \A w \in Workers : WorkerInv(worker[w])'
  BY <1>1 DEF TypeOK, WorkerInv, vars
<1>3. HeldInv'
  BY <1>1 DEF HeldInv, Holding, Exclusive, Alone, vars
<1>4. DeliveredInv'
  BY <1>1 DEF DeliveredInv, Recording, Current, Alone, vars
<1>6. RecordInv' /\ SentWasDelivered'
  BY <1>1 DEF RecordInv, Current, SentWasDelivered, vars
<1> QED
  BY <1>2, <1>3, <1>4, <1>6 DEF IInv

LEMMA NextSafe == IInv /\ [Next]_vars => IInv'
<1>1. CASE UNCHANGED vars
  BY <1>1, StutterSafe
<1>2. ASSUME IInv, NEW w \in Workers, Tick(w) \/ Drain(w) \/ LoseAcknowledgement(w) \/ Crash(w)
      PROVE  IInv'
  BY <1>2, ClaimSafe, SettledSafe, CheckCapSafe, SendSafe, RecordSafe, FaultSafe DEF Drain
<1>3. ASSUME IInv, Next PROVE IInv'
  BY <1>2, <1>3, EnvironmentSafe DEF Next
<1> QED
  BY <1>1, <1>3

\* The outbox keeps its inductive invariant (outbox.service.ts), however many
\* rows, instances, faults and days there are.
THEOREM InvariantHolds == Spec => []IInv
  BY InitIInv, NextSafe, PTL DEF Spec

\* The rows, the workers' locals and the counters stay what the code declares.
THEOREM TypeCorrect == Spec => []TypeOK
<1>1. IInv => TypeOK
  BY DEF IInv
<1> QED
  BY <1>1, InvariantHolds, PTL

\* "Exactly one worker wins each row" (drainOutbox) for any number of instances,
\* for as long as requeueStaleClaims leaves the row alone.
THEOREM ClaimsAreExclusive == Spec => []YoungHeldOnce
<1>1. IInv => YoungHeldOnce
  <2> SUFFICES ASSUME IInv, NEW v \in Workers, NEW w \in Workers, v # w,
                      NEW n \in Held(v) \cap Held(w), n \notin aged
               PROVE  FALSE
    BY DEF YoungHeldOnce
  <2>1. PICK i \in DOMAIN Holding(v) : Holding(v)[i] = n
    BY DEF Held, ToSet
  <2>2. PICK j \in DOMAIN Holding(w) : Holding(w)[j] = n
    BY DEF Held, ToSet
  <2> QED
    BY <2>1, <2>2 DEF IInv, HeldInv, Exclusive
<1> QED
  BY <1>1, InvariantHolds, PTL

\* One server instance sends a row twice only when a crash or a lost
\* acknowledgement hid that the first mail was taken (drainOutbox).
THEOREM DuplicatesAreFaults == ASSUME Alone PROVE Spec => []DuplicatesNeedFaults
<1>1. IInv => DuplicatesNeedFaults
  <2> SUFFICES ASSUME IInv, NEW n \in Notifications PROVE delivered[n] <= 1 + faults
    BY DEF DuplicatesNeedFaults
  <2>1. faults \in Nat /\ delivered[n] \in Nat
    BY OutboxAssumption DEF IInv, TypeOK
  <2>2. delivered[n] <= faults \/ delivered[n] = faults + 1
    BY DEF IInv, DeliveredInv
  <2> QED
    BY <2>1, <2>2
<1> QED
  BY <1>1, InvariantHolds, PTL

\* A row says "sent" only when the mail server took its mail (drainOutbox).
THEOREM SentMeansDelivered == Spec => []SentWasDelivered
<1>1. IInv => SentWasDelivered
  BY DEF IInv
<1> QED
  BY <1>1, InvariantHolds, PTL

-------------------------------------------------------------------------------
(* With one instance the outbox implements Mailbox: what the batch knows   *)
(* of a row is true, and a row that was settled is left alone.             *)

LEMMA InitTriesInv == Init => TriesInv
<1> SUFFICES ASSUME Init PROVE TriesInv
  OBVIOUS
<1>1. AttemptsLeft
  BY OutboxAssumption DEF Init, AttemptsLeft
<1>2. PassedTheGates /\ KnowsTries
  BY RestingIs DEF Init, PassedTheGates, KnowsTries
<1> QED
  BY <1>1, <1>2 DEF TriesInv

\* A worker moves on with the batch as it was loaded.
LEMMA GotoIs ==
    ASSUME TypeOK, NEW w \in Workers, NEW pc, Goto(w, pc)
    PROVE  /\ worker'[w].pc = pc /\ worker'[w].todo = worker[w].todo
           /\ worker'[w].tries = worker[w].tries /\ Current(w)' = Current(w)
           /\ \A v \in Workers \ {w} : worker'[v] = worker[v] /\ Current(v)' = Current(v)
<1>1. worker[w] \in WorkerRecord /\ worker' = [worker EXCEPT ![w] = [worker[w] EXCEPT !.pc = pc]]
  BY DEF TypeOK, Goto, Local
<1>2. worker'[w] = [worker[w] EXCEPT !.pc = pc] /\ \A v \in Workers \ {w} : worker'[v] = worker[v]
  BY <1>1 DEF TypeOK
<1>3. /\ worker'[w].pc = pc /\ worker'[w].todo = worker[w].todo
      /\ worker'[w].tries = worker[w].tries
  BY <1>1, <1>2 DEF WorkerRecord
<1> QED
  BY <1>2, <1>3 DEF Current

LEMMA NextRowIs ==
    ASSUME TypeOK, NEW w \in Workers, WorkerInv(worker[w]),
           worker[w].pc \notin {"idle", "fetch", "claim"}, NextRow(w)
    PROVE  /\ worker'[w].pc \in {"idle", "row"}
           /\ \A v \in Workers \ {w} : worker'[v] = worker[v] /\ Current(v)' = Current(v)
           /\ worker'[w].pc = "row" =>
                  /\ worker'[w].tries = worker[w].tries
                  /\ \A i \in DOMAIN worker'[w].todo :
                         /\ i \in Nat /\ i > 0 /\ i + 1 \in DOMAIN worker[w].todo
                         /\ worker'[w].todo[i] = worker[w].todo[i + 1]
<1> DEFINE rest == Tail(worker[w].todo)
<1>1. /\ worker[w] \in WorkerRecord /\ worker[w].todo \in Seq(Notifications) /\ worker[w].todo # <<>>
      /\ Len(worker[w].todo) \in Nat /\ Len(worker[w].todo) > 0
      /\ DOMAIN worker[w].todo = 1 .. Len(worker[w].todo)
  BY WorkerIs, CurrentIs, LenProperties
<1>2. /\ rest \in Seq(Notifications) /\ Len(rest) = Len(worker[w].todo) - 1
      /\ \A i \in 1 .. Len(rest) : rest[i] = worker[w].todo[i + 1]
      /\ DOMAIN rest = 1 .. Len(rest)
  BY <1>1, HeadTailProperties, LenProperties
<1>3. \A v \in Workers \ {w} : worker'[v] = worker[v] /\ Current(v)' = Current(v)
  BY DEF NextRow, Local, TypeOK, Current
<1>4. CASE Len(worker[w].todo) = 1
  <2>1. worker'[w] = Resting
    BY <1>4 DEF NextRow, Local, TypeOK
  <2> QED
    BY <1>3, <2>1, RestingIs
<1>5. CASE Len(worker[w].todo) # 1
  <2>1. worker'[w] = [worker[w] EXCEPT !.pc = "row", !.todo = rest]
    BY <1>5 DEF NextRow, Local, TypeOK
  <2>2. worker'[w].pc = "row" /\ worker'[w].tries = worker[w].tries /\ worker'[w].todo = rest
    <3> HIDE DEF rest
    <3> QED
      BY <1>1, <2>1 DEF WorkerRecord
  <2>3. \A i \in 1 .. Len(rest) : i \in Nat /\ i > 0 /\ i + 1 \in 1 .. Len(worker[w].todo)
    BY <1>1, <1>2
  <2> HIDE DEF rest
  <2> QED
    BY <1>1, <1>2, <1>3, <2>2, <2>3
<1> QED
  BY <1>4, <1>5

\* The worker that moves still knows, and the others do not move.
LEMMA TriesStep ==
    ASSUME TriesInv, NEW w \in Workers, \A v \in Workers \ {w} : worker'[v] = worker[v],
           \A n \in Notifications : status'[n] \notin Settled =>
               attempts'[n] < MaxAttempts \/ (status[n] \notin Settled /\ attempts'[n] = attempts[n]),
           worker'[w].pc \in {"cap", "send", "record", "bounce"} =>
               /\ Current(w)' \notin Retired
               /\ worker'[w].pc = "cap" => Current(w)' \notin Security,
           Alone /\ worker'[w].pc \notin {"idle", "fetch", "claim"} =>
               \A i \in DOMAIN worker'[w].todo :
                   worker'[w].tries[worker'[w].todo[i]] = attempts'[worker'[w].todo[i]]
    PROVE  TriesInv'
<1>1. AttemptsLeft'
  BY DEF TriesInv, AttemptsLeft
<1>2. PassedTheGates'
  BY DEF TriesInv, PassedTheGates, Current
<1>3. KnowsTries'
  BY DEF KnowsTries, Alone
<1> QED
  BY <1>1, <1>2, <1>3 DEF TriesInv

LEMMA WorkersKnow ==
    ASSUME IInv, TriesInv, NEW w \in Workers,
           Tick(w) \/ Drain(w) \/ LoseAcknowledgement(w) \/ Crash(w)
    PROVE  TriesInv'
<1>0. TypeOK /\ WorkerInv(worker[w]) /\ worker[w] \in WorkerRecord /\ status \in [Notifications -> RowStatus]
  BY DEF IInv, TypeOK
<1>1. ASSUME NEW q \in WorkerRecord, Local(w, q), q.pc \in {"idle", "fetch", "claim"},
             UNCHANGED attempts,
             \A n \in Notifications : status'[n] \notin Settled => status[n] \notin Settled
      PROVE  TriesInv'
  <2>1. worker'[w] = q /\ \A v \in Workers \ {w} : worker'[v] = worker[v]
    BY <1>0, <1>1 DEF Local, TypeOK
  <2> QED
    BY <1>1, <2>1, TriesStep
<1>2. CASE Tick(w)
  <2> DEFINE q == [worker[w] EXCEPT !.pc = "fetch"]
  <2>1. q \in WorkerRecord /\ q.pc = "fetch" /\ Local(w, q) /\ UNCHANGED attempts
    BY <1>0, <1>2 DEF Tick, Goto, WorkerRecord, Steps
  <2>2. \A n \in Notifications : status'[n] \notin Settled => status[n] \notin Settled
    BY <1>2 DEF Tick, Stale, Settled
  <2> HIDE DEF q
  <2> QED
    BY <1>1, <2>1, <2>2
<1>3. CASE Fetch(w)
  <2>1. UNCHANGED <<attempts, status>>
    BY <1>3 DEF Fetch, rows
  <2>2. \A v \in Workers \ {w} : worker'[v] = worker[v]
    BY <1>0, <1>3 DEF Fetch, Local, TypeOK
  <2>3. worker'[w].pc \in {"idle", "claim"}
    <3>1. PICK q : Local(w, IF q = <<>> THEN Resting ELSE [worker[w] EXCEPT !.pc = "claim", !.todo = q])
      BY <1>3 DEF Fetch
    <3>2. worker'[w] = IF q = <<>> THEN Resting ELSE [worker[w] EXCEPT !.pc = "claim", !.todo = q]
      BY <1>0, <3>1 DEF Local, TypeOK
    <3> QED
      BY <1>0, <3>2, RestingIs DEF WorkerRecord
  <2> QED
    BY <2>1, <2>2, <2>3, TriesStep
<1>4. CASE Claim(w)
  <2>1. UNCHANGED attempts /\ \A n \in Notifications : status'[n] \notin Settled => status[n] \notin Settled
    BY <1>0, <1>4 DEF Claim, Claimable, Settled
  <2>2. worker'[w].pc = "claim" /\ \A v \in Workers \ {w} : worker'[v] = worker[v]
    <3>1. worker \in [Workers -> WorkerRecord] /\ worker[w].pc = "claim"
      BY <1>0, <1>4 DEF Claim, TypeOK
    <3>2. PICK q \in {[worker[w] EXCEPT !.todo = Tail(@), !.mine = Append(@, Current(w))],
                      [worker[w] EXCEPT !.todo = Tail(@)]} : Local(w, q)
      BY <1>4 DEF Claim
    <3>3. q.pc = "claim"
      BY <1>0, <3>1, <3>2 DEF WorkerRecord
    <3> QED
      BY <3>1, <3>2, <3>3 DEF Local
  <2> QED
    BY <2>1, <2>2, TriesStep
<1>5. CASE Load(w)
  <2>1. UNCHANGED <<attempts, status>> /\ \A v \in Workers \ {w} : worker'[v] = worker[v]
    BY <1>0, <1>5 DEF Load, Local, TypeOK, rows
  <2>2. worker'[w] = IF worker[w].mine = <<>> THEN Resting
                     ELSE [pc |-> "row", todo |-> worker[w].mine, mine |-> <<>>,
                           tries |-> attempts, muted |-> optedOut]
    BY <1>0, <1>5 DEF Load, Local, TypeOK
  <2>3. worker'[w].pc \in {"idle", "row"} /\ (worker'[w].pc = "row" => worker'[w].tries = attempts)
    BY <2>2, RestingIs
  <2> QED
    BY <2>1, <2>3, TriesStep
<1>6. CASE CheckCap(w)
  <2> DEFINE pc == IF Capped(Current(w)) /\ ~UnderCap(Current(w)) THEN "cap" ELSE "send"
  <2>1. /\ Goto(w, pc) /\ UNCHANGED <<attempts, status>> /\ worker[w].pc = "row"
        /\ Current(w) \notin Retired /\ (pc = "cap" => Current(w) \notin Security)
    BY <1>6 DEF CheckCap, rows, Capped
  <2> HIDE DEF pc
  <2>2. /\ worker'[w].pc = pc /\ worker'[w].todo = worker[w].todo
        /\ worker'[w].tries = worker[w].tries /\ Current(w)' = Current(w)
        /\ \A v \in Workers \ {w} : worker'[v] = worker[v]
    BY <1>0, <2>1, GotoIs
  <2> QED
    BY <2>1, <2>2, TriesStep DEF TriesInv, KnowsTries
<1>7. CASE Send(w) \/ LoseAcknowledgement(w)
  <2>1. PICK pc \in {"record", "bounce"} : Goto(w, pc)
    BY <1>7 DEF Send, LoseAcknowledgement
  <2>2. /\ UNCHANGED <<attempts, status>> /\ worker[w].pc \in {"send", "record"}
        /\ Current(w) \notin Retired
    BY <1>7 DEF Send, LoseAcknowledgement, rows, TriesInv, PassedTheGates
  <2>3. /\ worker'[w].pc = pc /\ worker'[w].todo = worker[w].todo
        /\ worker'[w].tries = worker[w].tries /\ Current(w)' = Current(w)
        /\ \A v \in Workers \ {w} : worker'[v] = worker[v]
    BY <1>0, <2>1, GotoIs
  <2> QED
    BY <2>2, <2>3, TriesStep DEF TriesInv, KnowsTries
<1>8. CASE Refuse(w) \/ SkipCapped(w) \/ RecordSent(w)
  <2>1. worker[w].pc \in {"row", "cap", "record"} /\ NextRow(w) /\ UNCHANGED attempts
    BY <1>8 DEF Refuse, SkipCapped, RecordSent
  <2>2. \A n \in Notifications : status'[n] \notin Settled => status[n] \notin Settled
    BY <1>0, <1>8 DEF Refuse, SkipCapped, RecordSent, Settled
  <2>3. /\ worker'[w].pc \in {"idle", "row"}
        /\ \A v \in Workers \ {w} : worker'[v] = worker[v]
        /\ worker'[w].pc = "row" =>
               /\ worker'[w].tries = worker[w].tries
               /\ \A i \in DOMAIN worker'[w].todo :
                      /\ i + 1 \in DOMAIN worker[w].todo
                      /\ worker'[w].todo[i] = worker[w].todo[i + 1]
    BY <1>0, <2>1, NextRowIs
  <2> QED
    BY <2>1, <2>2, <2>3, TriesStep DEF TriesInv, KnowsTries
<1>9. CASE Bounce(w)
  <2> DEFINE n == Current(w)
             tries == worker[w].tries[n] + 1
  <2>1. worker[w].pc = "bounce" /\ NextRow(w)
    BY <1>9 DEF Bounce
  <2>2. /\ worker'[w].pc \in {"idle", "row"}
        /\ \A v \in Workers \ {w} : worker'[v] = worker[v]
        /\ worker'[w].pc = "row" =>
               /\ worker'[w].tries = worker[w].tries
               /\ \A i \in DOMAIN worker'[w].todo :
                      /\ i \in Nat /\ i > 0 /\ i + 1 \in DOMAIN worker[w].todo
                      /\ worker'[w].todo[i] = worker[w].todo[i + 1]
    BY <1>0, <2>1, NextRowIs
  <2>3. n \in Notifications /\ Holding(w) = worker[w].todo /\ n = Holding(w)[1] /\ 1 \in DOMAIN Holding(w)
    BY <1>0, <2>1, CurrentIs
  <2>4. \A m \in Notifications \ {n} : status'[m] = status[m] /\ attempts'[m] = attempts[m]
    BY <1>0, <1>9 DEF Bounce, TypeOK
  <2>5. attempts'[n] = tries /\ status'[n] = AfterFailure(tries)
    <3>1. /\ attempts' = [attempts EXCEPT ![n] = tries]
          /\ status' = [status EXCEPT ![n] = AfterFailure(tries)]
      BY <1>9 DEF Bounce
    <3> HIDE DEF tries, n
    <3> QED
      BY <1>0, <2>3, <3>1 DEF TypeOK
  <2>6. status'[n] \notin Settled => attempts'[n] < MaxAttempts
    <3>1. tries \in Nat
      BY <1>0, <2>3 DEF WorkerRecord
    <3> HIDE DEF tries
    <3> QED
      BY <2>5, <3>1, OutboxAssumption DEF AfterFailure, Settled
  <2>7. ASSUME Alone, worker'[w].pc = "row", NEW i \in DOMAIN worker'[w].todo
        PROVE  worker'[w].tries[worker'[w].todo[i]] = attempts'[worker'[w].todo[i]]
    <3> DEFINE m == worker[w].todo[i + 1]
    <3>1. /\ i \in Nat /\ i > 0 /\ i + 1 \in DOMAIN Holding(w) /\ worker'[w].todo[i] = m
          /\ worker'[w].tries = worker[w].tries /\ m = Holding(w)[i + 1]
      BY <2>2, <2>3, <2>7
    <3>2. m # n /\ m \in Notifications
      <4>1. m \in Notifications
        BY <1>0, <3>1, WorkerIs
      <4>2. m = n => i + 1 = 1
        BY <2>3, <2>7, <3>1 DEF IInv, HeldInv, Exclusive
      <4> QED
        BY <3>1, <4>1, <4>2
    <3>3. worker[w].tries[m] = attempts[m]
      BY <2>1, <2>3, <2>7, <3>1 DEF TriesInv, KnowsTries
    <3> QED
      BY <2>4, <3>1, <3>2, <3>3
  <2> HIDE DEF n, tries
  <2> QED
    BY <2>2, <2>4, <2>6, <2>7, TriesStep
<1>10. CASE Crash(w)
  <2>1. Local(w, Resting) /\ UNCHANGED <<attempts, status>>
    BY <1>10 DEF Crash, rows
  <2> QED
    BY <1>1, <2>1, RestingIs
<1> QED
  BY <1>2, <1>3, <1>4, <1>5, <1>6, <1>7, <1>8, <1>9, <1>10 DEF Drain

LEMMA NextTries == IInv /\ TriesInv /\ [Next]_vars => TriesInv'
<1> SUFFICES ASSUME IInv, TriesInv, [Next]_vars PROVE TriesInv'
  OBVIOUS
<1>1. ASSUME UNCHANGED <<attempts, worker>>,
             \A n \in Notifications : status'[n] \notin Settled => status[n] \notin Settled
      PROVE  TriesInv'
  BY <1>1 DEF TriesInv, AttemptsLeft, PassedTheGates, KnowsTries, Alone, Current
<1>2. CASE \E n \in Notifications : Enqueue(n)
  BY <1>1, <1>2 DEF Enqueue, Fresh, Settled, IInv, TypeOK
<1>3. CASE \/ \E n \in Notifications : Age(n)
           \/ \E u \in Users : OptOut(u)
           \/ Midnight \/ UNCHANGED vars
  BY <1>1, <1>3 DEF Age, OptOut, Midnight, vars, rows
<1> QED
  BY <1>2, <1>3, WorkersKnow DEF Next

PromiseStep ==
    \/ \E n \in Notifications : Promise!Handle(n)
    \/ Promise!Slip
    \/ UNCHANGED <<Fates, attempts, delivered, faults>>

\* A row that is queued or claimed is open; any other status is its fate.
LEMMA FateIs ==
    ASSUME NEW n \in Notifications
    PROVE  Fates[n] = IF status[n] \in {"queued", "sending"} THEN "open" ELSE status[n]
  BY DEF Fates

LEMMA FateStep ==
    ASSUME TypeOK, NEW n \in Notifications, NEW x, status' = [status EXCEPT ![n] = x]
    PROVE  Fates' = [Fates EXCEPT ![n] = IF x \in {"queued", "sending"} THEN "open" ELSE x]
  BY DEF Fates, TypeOK

\* Claims and stale claims that go back to the queue are nothing to the handlers.
LEMMA FateStays ==
    ASSUME \A n \in Notifications : \/ status'[n] = status[n]
                                    \/ {status[n], status'[n]} \subseteq {"queued", "sending"}
    PROVE  UNCHANGED Fates
  BY DEF Fates

\* The row at hand is open and, past the gates, not of a type that is gone.
LEMMA AtHand ==
    ASSUME Alone, IInv, TriesInv, NEW w \in Workers, worker[w].pc \notin {"idle", "fetch", "claim"}
    PROVE  /\ Current(w) \in Notifications /\ status[Current(w)] = "sending"
           /\ Promise!Open(Current(w)) /\ attempts[Current(w)] < MaxAttempts
           /\ worker[w].tries[Current(w)] = attempts[Current(w)]
           /\ worker[w].pc # "row" => Promise!Mailable(Current(w))
<1>1. TypeOK /\ WorkerInv(worker[w]) /\ worker[w].pc \in Steps
  BY DEF IInv, TypeOK, WorkerRecord
<1>2. /\ Current(w) \in Notifications /\ Current(w) = worker[w].todo[1]
      /\ 1 \in DOMAIN worker[w].todo
  BY <1>1, CurrentIs
<1>3. status[Current(w)] = "sending"
  BY HeadIsClaimed
<1>4. Promise!Open(Current(w))
  BY <1>2, <1>3, FateIs DEF Promise!Open
<1>5. attempts[Current(w)] < MaxAttempts
  BY <1>2, <1>3 DEF TriesInv, AttemptsLeft, Settled
<1>6. worker[w].tries[Current(w)] = attempts[Current(w)]
  BY <1>2 DEF TriesInv, KnowsTries
<1>7. worker[w].pc # "row" => Current(w) \notin Retired
  BY <1>1 DEF TriesInv, PassedTheGates, Steps
<1> QED
  BY <1>2, <1>3, <1>4, <1>5, <1>6, <1>7 DEF Promise!Mailable

\* A row whose handling ends: refused, capped, recorded or bounced.
LEMMA EndsAsPromised ==
    ASSUME Alone, IInv, TriesInv, NEW w \in Workers,
           Refuse(w) \/ SkipCapped(w) \/ RecordSent(w) \/ Bounce(w)
    PROVE  PromiseStep
<1>0. TypeOK /\ WorkerInv(worker[w]) /\ worker[w].pc \in {"row", "cap", "record", "bounce"}
  BY DEF IInv, Refuse, SkipCapped, RecordSent, Bounce
<1> PICK n \in Notifications : n = Current(w)
  BY <1>0, AtHand
<1>1. /\ status[n] = "sending" /\ Promise!Open(n) /\ attempts[n] < MaxAttempts
      /\ worker[w].tries[n] = attempts[n] /\ (worker[w].pc # "row" => Promise!Mailable(n))
  BY <1>0, AtHand
<1>2. ASSUME NEW x, x \notin {"queued", "sending"}, status' = [status EXCEPT ![n] = x]
      PROVE  Promise!Becomes(n, x)
  BY <1>0, <1>2, FateStep DEF Promise!Becomes
<1>3. CASE Refuse(w)
  <2>1. UNCHANGED <<attempts, delivered, faults>>
    BY <1>3 DEF Refuse
  <2>2. CASE n \in Retired
    <3>1. status' = [status EXCEPT ![n] = "failed"]
      BY <1>3, <2>2 DEF Refuse
    <3>2. Promise!Becomes(n, "failed")
      BY <1>2, <3>1
    <3> QED
      BY <1>1, <2>1, <2>2, <3>2 DEF PromiseStep, Promise!Handle, Promise!Reject
  <2>3. CASE n \notin Retired
    <3>1. status' = [status EXCEPT ![n] = "skipped"] /\ n \notin Security
      BY <1>3, <2>3 DEF Refuse, Capped
    <3>2. Promise!Becomes(n, "skipped")
      BY <1>2, <3>1
    <3> QED
      BY <1>1, <2>1, <2>3, <3>1, <3>2 DEF PromiseStep, Promise!Handle, Promise!Skip, Promise!Mailable
  <2> QED
    BY <2>2, <2>3
<1>4. CASE SkipCapped(w)
  <2>1. UNCHANGED <<attempts, delivered, faults>> /\ status' = [status EXCEPT ![n] = "skipped"]
        /\ worker[w].pc = "cap" /\ n \notin Security
    BY <1>4 DEF SkipCapped, TriesInv, PassedTheGates
  <2>2. Promise!Becomes(n, "skipped")
    BY <1>2, <2>1
  <2> QED
    BY <1>1, <2>1, <2>2 DEF PromiseStep, Promise!Handle, Promise!Skip
<1>5. CASE RecordSent(w)
  <2>1. UNCHANGED <<attempts, delivered, faults>> /\ status' = [status EXCEPT ![n] = "sent"]
        /\ worker[w].pc = "record" /\ delivered[n] > 0
    BY <1>5 DEF RecordSent, IInv, RecordInv
  <2>2. Promise!Becomes(n, "sent")
    BY <1>2, <2>1
  <2> QED
    BY <1>1, <2>1, <2>2 DEF PromiseStep, Promise!Handle, Promise!Confirm
<1>6. CASE Bounce(w)
  <2>1. /\ UNCHANGED <<delivered, faults>> /\ worker[w].pc = "bounce"
        /\ attempts' = [attempts EXCEPT ![n] = attempts[n] + 1]
        /\ status' = [status EXCEPT ![n] = AfterFailure(attempts[n] + 1)]
    BY <1>1, <1>6 DEF Bounce
  <2>2. attempts[n] \in Nat
    BY <1>0 DEF TypeOK
  <2>3. CASE attempts[n] + 1 = MaxAttempts
    <3>1. AfterFailure(attempts[n] + 1) = "failed"
      BY <2>2, <2>3, OutboxAssumption DEF AfterFailure
    <3>2. Promise!Becomes(n, "failed")
      BY <1>2, <2>1, <3>1
    <3> QED
      BY <1>1, <2>1, <2>3, <3>2 DEF PromiseStep, Promise!Handle, Promise!GiveUp
  <2>4. CASE attempts[n] + 1 # MaxAttempts
    <3>1. attempts[n] + 1 < MaxAttempts
      BY <1>1, <2>2, <2>4, OutboxAssumption
    <3>2. AfterFailure(attempts[n] + 1) = "queued"
      BY <2>2, <3>1, OutboxAssumption DEF AfterFailure
    <3>3. UNCHANGED Fates
      BY <1>0, <1>1, <2>1, <3>2, FateStays DEF TypeOK
    <3> QED
      BY <1>1, <2>1, <3>1, <3>3 DEF PromiseStep, Promise!Handle, Promise!TryAgain
  <2> QED
    BY <2>3, <2>4
<1> QED
  BY <1>3, <1>4, <1>5, <1>6

LEMMA WorkersAsPromised ==
    ASSUME Alone, IInv, TriesInv, NEW w \in Workers,
           Tick(w) \/ Drain(w) \/ LoseAcknowledgement(w) \/ Crash(w)
    PROVE  PromiseStep
<1>0. TypeOK /\ WorkerInv(worker[w]) /\ worker[w] \in WorkerRecord
  BY DEF IInv, TypeOK
<1>1. CASE Tick(w) \/ Claim(w)
  <2>1. UNCHANGED <<attempts, delivered, faults>>
    BY <1>1 DEF Tick, Claim
  <2>2. UNCHANGED Fates
    <3>1. \A n \in Notifications : \/ status'[n] = status[n]
                                   \/ {status[n], status'[n]} \subseteq {"queued", "sending"}
      BY <1>0, <1>1 DEF Tick, Stale, Claim, Claimable, TypeOK
    <3> QED
      BY <3>1, FateStays
  <2> QED
    BY <2>1, <2>2 DEF PromiseStep
<1>2. CASE Fetch(w) \/ Load(w) \/ CheckCap(w)
  <2>1. UNCHANGED <<status, attempts, delivered, faults>>
    BY <1>2 DEF Fetch, Load, CheckCap, rows
  <2> QED
    BY <2>1 DEF PromiseStep, Fates
<1>3. CASE Send(w)
  <2> PICK n \in Notifications : n = Current(w)
    BY <1>0, <1>3, AtHand DEF Send
  <2>1. worker[w].pc = "send" /\ UNCHANGED <<status, attempts, faults>>
    BY <1>3 DEF Send, rows
  <2>2. UNCHANGED Fates
    BY <2>1 DEF Fates
  <2>3. CASE UNCHANGED delivered
    BY <2>1, <2>2, <2>3 DEF PromiseStep
  <2>4. CASE delivered' = [delivered EXCEPT ![n] = @ + 1]
    <3>1. status[n] = "sending" /\ Promise!Mailable(n)
      BY <2>1, AtHand
    <3>2. ~Recording(n)
      BY <2>1 DEF Recording, Alone
    <3>3. delivered[n] <= faults
      BY <3>1, <3>2 DEF IInv, DeliveredInv
    <3> QED
      BY <2>1, <2>2, <2>4, <3>1, <3>3 DEF PromiseStep, Promise!Handle, Promise!Deliver
  <2> QED
    BY <1>3, <2>3, <2>4 DEF Send
<1>4. CASE LoseAcknowledgement(w) \/ Crash(w)
  <2>1. UNCHANGED <<status, attempts, delivered>> /\ faults' = faults + 1
    BY <1>4 DEF LoseAcknowledgement, Crash, Fault, rows
  <2> QED
    BY <2>1 DEF PromiseStep, Promise!Slip, Fates
<1> QED
  BY <1>1, <1>2, <1>3, <1>4, EndsAsPromised DEF Drain

LEMMA NextAsPromised ==
    ASSUME Alone, IInv, TriesInv, [Next]_vars
    PROVE  PromiseStep
<1>0. TypeOK
  BY DEF IInv
<1>1. ASSUME NEW n \in Notifications, Enqueue(n) PROVE PromiseStep
  <2>1. /\ status[n] = "absent" /\ status' = [status EXCEPT ![n] = "queued"]
        /\ UNCHANGED <<attempts, delivered, faults>>
    BY <1>1 DEF Enqueue, Fresh
  <2>2. Promise!Becomes(n, "open") /\ Fates[n] = "absent"
    BY <1>0, <2>1, FateStep, FateIs DEF Promise!Becomes
  <2> QED
    BY <2>1, <2>2 DEF PromiseStep, Promise!Handle, Promise!Post
<1>2. CASE \/ \E n \in Notifications : Age(n)
           \/ \E u \in Users : OptOut(u)
           \/ Midnight \/ UNCHANGED vars
  <2>1. UNCHANGED <<status, attempts, delivered, faults>>
    BY <1>2 DEF Age, OptOut, Midnight, vars, rows
  <2> QED
    BY <2>1 DEF PromiseStep, Fates
<1> QED
  BY <1>1, <1>2, WorkersAsPromised DEF Next

\* With one server instance, the outbox is a Mailbox (outbox.service.ts): a row
\* that was settled stays settled, no crash and no retry sends a mail again that
\* no fault hid, and a security mail is never skipped.
THEOREM MailboxImplemented == ASSUME Alone PROVE Spec => MailboxHolds
<1>1. Init => IInv /\ TriesInv
  BY InitIInv, InitTriesInv
<1>2. IInv /\ TriesInv /\ [Next]_vars => IInv' /\ TriesInv'
  BY NextSafe, NextTries
<1>3. Init => Promise!Init
  BY DEF Init, Promise!Init, Fates
<1>4. IInv /\ TriesInv /\ [Next]_vars =>
          [Promise!Next]_<<Fates, attempts, delivered, faults>>
  BY NextAsPromised DEF PromiseStep, Promise!Next
<1> QED
  BY <1>1, <1>2, <1>3, <1>4, PTL DEF Spec, MailboxHolds, Promise!Spec
-------------------------------------------------------------------------------
(* The daily cap, for any number of instances: every mail is counted by a  *)
(* row, about to be, or explained by a fault or a row that was stolen.     *)

LEMMA PlaceIs ==
    \A x : x \in Places <=> \E w \in Workers : \E i \in DOMAIN Holding(w) : x = <<w, i>>
BY DEF Places

LEMMA PlaceNext ==
    \A x : x \in Places' <=> \E w \in Workers : \E i \in DOMAIN Holding(w)' : x = <<w, i>>
BY DEF Places

\* A sequence has no more elements than places.
LEMMA NoMoreThanLen ==
    ASSUME NEW s \in Seq(Notifications)
    PROVE  /\ IsFiniteSet(ToSet(s)) /\ Cardinality(ToSet(s)) \in Nat
           /\ Cardinality(ToSet(s)) <= Len(s)
<1>1. Len(s) \in Nat /\ DOMAIN s = 1 .. Len(s)
  BY LenProperties
<1>2. s \in Surjection(1 .. Len(s), ToSet(s))
  BY <1>1, ElementOfSeq DEF Surjection, ToSet
<1>3. IsFiniteSet(1 .. Len(s)) /\ Cardinality(1 .. Len(s)) = Len(s)
  BY <1>1, FS_Interval
<1> QED
  BY <1>2, <1>3, FS_Surjection, FS_CardinalityType

LEMMA Finite ==
    ASSUME TypeOK
    PROVE  /\ IsFiniteSet(Places) /\ Cardinality(Places) \in Nat
           /\ IsFiniteSet(Claimed) /\ Cardinality(Claimed) \in Nat
           /\ Cardinality(Claimed) <= Cardinality(Places)
<1>1. \A w \in Workers : IsFiniteSet({w} \X DOMAIN Holding(w))
  <2> TAKE w \in Workers
  <2>1. DOMAIN Holding(w) = 1 .. Len(Holding(w)) /\ Len(Holding(w)) \in Nat
    BY WorkerIs
  <2>2. IsFiniteSet(DOMAIN Holding(w))
    BY <2>1, FS_Interval
  <2> QED
    BY <2>2, FS_Singleton, FS_Product
<1>2. IsFiniteSet(Places)
  <2> DEFINE f == [w \in Workers |-> {w} \X DOMAIN Holding(w)]
             S == {{w} \X DOMAIN Holding(w) : w \in Workers}
  <2>1. f \in Surjection(Workers, S)
    BY DEF Surjection
  <2>2. IsFiniteSet(S)
    BY <2>1, OutboxAssumption, FS_Surjection
  <2>3. \A T \in S : IsFiniteSet(T)
    BY <1>1
  <2> HIDE DEF S
  <2>4. IsFiniteSet(UNION S)
    BY <2>2, <2>3, FS_UNION
  <2> QED
    BY <2>4 DEF S, Places
<1>3. Claimed \in SUBSET Notifications
  BY DEF Claimed
<1> DEFINE g == [x \in Places |-> Holding(x[1])[x[2]]]
           T == {Holding(x[1])[x[2]] : x \in Places}
<1>4. g \in Surjection(Places, T)
  BY DEF Surjection
<1>5. IsFiniteSet(T) /\ Cardinality(T) <= Cardinality(Places)
  BY <1>2, <1>4, FS_Surjection
<1>6. Claimed \subseteq T
  <2> SUFFICES ASSUME NEW n \in Claimed PROVE n \in T
    OBVIOUS
  <2>1. PICK w \in Workers : n \in Held(w)
    BY DEF Claimed
  <2>2. PICK i \in DOMAIN Holding(w) : Holding(w)[i] = n
    BY <2>1 DEF Held, ToSet
  <2>3. <<w, i>> \in Places
    BY <2>2, PlaceIs
  <2> QED
    BY <2>2, <2>3
<1> HIDE DEF T
<1>7. Cardinality(Claimed) <= Cardinality(T) /\ Cardinality(Claimed) \in Nat /\ Cardinality(T) \in Nat
      /\ IsFiniteSet(Claimed)
  BY <1>5, <1>6, FS_Subset, FS_CardinalityType
<1>8. Cardinality(Places) \in Nat
  BY <1>2, FS_CardinalityType
<1> QED
  BY <1>2, <1>5, <1>7, <1>8

Sized ==
    /\ IsFiniteSet(Places) /\ Cardinality(Places) \in Nat
    /\ IsFiniteSet(Claimed) /\ Cardinality(Claimed) \in Nat
    /\ \A u : /\ IsFiniteSet(Counted(u)) /\ Cardinality(Counted(u)) \in Nat
              /\ IsFiniteSet(Unrecorded(u)) /\ Cardinality(Unrecorded(u)) \in Nat
              /\ IsFiniteSet(Underway(u)) /\ Cardinality(Underway(u)) \in Nat
              /\ Cardinality(Underway(u)) <= Cardinality(Workers)

LEMMA AllSized == TypeOK => Sized
<1> SUFFICES ASSUME TypeOK PROVE Sized
  OBVIOUS
<1>1. \A u : Counted(u) \in SUBSET Notifications /\ Unrecorded(u) \in SUBSET Workers
            /\ Underway(u) \in SUBSET Workers
  BY DEF Counted, Unrecorded, Underway
<1>2. \A u : IsFiniteSet(Counted(u)) /\ Cardinality(Counted(u)) \in Nat
  BY <1>1, OutboxAssumption, FS_Subset, FS_CardinalityType
<1>3. \A u : IsFiniteSet(Unrecorded(u)) /\ Cardinality(Unrecorded(u)) \in Nat
  BY <1>1, OutboxAssumption, FS_Subset, FS_CardinalityType
<1>4. \A u : IsFiniteSet(Underway(u)) /\ Cardinality(Underway(u)) \in Nat
            /\ Cardinality(Underway(u)) <= Cardinality(Workers)
  BY <1>1, OutboxAssumption, FS_Subset, FS_CardinalityType
<1> QED
  BY <1>2, <1>3, <1>4, Finite DEF Sized

\* The same in the state after a step.
LEMMA SizedNext == TypeOK' => Sized'
  BY AllSized, PTL

\* What a step has to show: it gives up k places and j claims of the sum, and
\* whatever else it adds to the mails is counted, unrecorded or a fault.
LEMMA CapKeep ==
    ASSUME TypeOK, TypeOK', CapInv, NEW k \in Int, NEW j \in Int, j <= k,
           Cardinality(Places)' + k <= Cardinality(Places),
           Cardinality(Claimed) + stolen <= Cardinality(Claimed)' + stolen' + j,
           \A u \in Users :
              /\ mailed'[u] + Cardinality(Counted(u)) + Cardinality(Unrecorded(u)) + faults
                   <= mailed[u] + Cardinality(Counted(u))' + Cardinality(Unrecorded(u))'
                        + faults' + (k - j)
              /\ \/ Cardinality(Counted(u))' + Cardinality(Underway(u))'
                       <= Cardinality(Counted(u)) + Cardinality(Underway(u))
                 \/ Cardinality(Counted(u))' < DailyCap
    PROVE  CapInv'
<1>1. Sized /\ Sized'
  BY AllSized, SizedNext
<1>2. /\ Cardinality(Workers) \in Nat /\ DailyCap \in Nat /\ stolen \in Nat /\ stolen' \in Nat
      /\ faults \in Nat /\ faults' \in Nat
      /\ mailed \in [Users -> Nat] /\ mailed' \in [Users -> Nat]
  BY OutboxAssumption, FS_CardinalityType DEF TypeOK
<1>3. Cardinality(Places)' <= Cardinality(Claimed)' + stolen'
  BY <1>1, <1>2 DEF CapInv, Sized
<1>4. ASSUME NEW u \in Users
      PROVE  /\ mailed'[u] + Cardinality(Places)'
                  <= Cardinality(Counted(u))' + Cardinality(Unrecorded(u))'
                       + Cardinality(Claimed)' + stolen' + faults'
             /\ Cardinality(Counted(u))' + Cardinality(Underway(u))'
                  <= DailyCap + (Cardinality(Workers) - 1)
  <2>1. /\ Cardinality(Counted(u)) \in Nat /\ Cardinality(Counted(u))' \in Nat
        /\ Cardinality(Unrecorded(u)) \in Nat /\ Cardinality(Unrecorded(u))' \in Nat
        /\ Cardinality(Underway(u)) \in Nat /\ Cardinality(Underway(u))' \in Nat
        /\ Cardinality(Underway(u))' <= Cardinality(Workers)
        /\ Cardinality(Places) \in Nat /\ Cardinality(Places)' \in Nat
        /\ Cardinality(Claimed) \in Nat /\ Cardinality(Claimed)' \in Nat
        /\ mailed[u] \in Nat /\ mailed'[u] \in Nat
    BY <1>1, <1>2 DEF Sized
  <2>2. mailed'[u] + Cardinality(Places)'
          <= Cardinality(Counted(u))' + Cardinality(Unrecorded(u))'
               + Cardinality(Claimed)' + stolen' + faults'
    BY <1>2, <2>1 DEF CapInv
  <2>3. Cardinality(Counted(u))' + Cardinality(Underway(u))' <= DailyCap + (Cardinality(Workers) - 1)
    BY <1>2, <2>1 DEF CapInv
  <2> QED
    BY <2>2, <2>3
<1> QED
  BY <1>3, <1>4 DEF CapInv

\* A worker that goes on holding what it held, and no row that changes.
LEMMA SameRows ==
    ASSUME UNCHANGED <<status, sentOn, day>>, \A w \in Workers : Holding(w)' = Holding(w)
    PROVE  /\ Places' = Places /\ Claimed' = Claimed
           /\ \A u : Counted(u)' = Counted(u)
BY DEF Places, Claimed, Held, Counted

\* Nothing that the caps depend on moves.
LEMMA NothingMoves ==
    ASSUME CapInv, UNCHANGED <<mailed, stolen, faults, Places, Claimed>>,
           \A u : /\ Counted(u)' = Counted(u)
                  /\ Unrecorded(u)' = Unrecorded(u) /\ Underway(u)' = Underway(u)
    PROVE  CapInv'
BY DEF CapInv

LEMMA SameMailers ==
    ASSUME NEW w \in Workers, \A v \in Workers \ {w} : worker'[v] = worker[v],
           worker[w].pc \notin {"send", "record"}, worker'[w].pc \notin {"send", "record"}
    PROVE  \A u : Unrecorded(u)' = Unrecorded(u) /\ Underway(u)' = Underway(u)
BY DEF Unrecorded, Underway, Mailing, Current

LEMMA EnvironmentKeepsCap ==
    ASSUME IInv, IInv', CapInv,
           \/ \E n \in Notifications : Enqueue(n) \/ Age(n)
           \/ \E u \in Users : OptOut(u)
           \/ Midnight
    PROVE  CapInv'
<1>1. TypeOK /\ UNCHANGED <<worker, stolen, faults>>
  BY DEF IInv, Enqueue, Age, OptOut, Midnight, tally
<1>2. /\ \A u : Unrecorded(u)' = Unrecorded(u) /\ Underway(u)' = Underway(u)
      /\ \A w \in Workers : Holding(w)' = Holding(w)
  BY <1>1 DEF Unrecorded, Underway, Mailing, Current, Holding
<1>3. Places' = Places
  BY <1>2 DEF Places
<1>4. ASSUME NEW n \in Notifications, Enqueue(n) PROVE CapInv'
  <2>1. /\ status[n] = "absent" /\ status' = [status EXCEPT ![n] = "queued"]
        /\ status \in [Notifications -> RowStatus] /\ UNCHANGED <<sentOn, day, mailed>>
    BY <1>1, <1>4 DEF Enqueue, Fresh, TypeOK, clock, tally
  <2>2. Claimed' = Claimed /\ \A u : Counted(u)' = Counted(u)
    BY <1>2, <2>1 DEF Claimed, Held, Counted
  <2> QED
    BY <1>1, <1>2, <1>3, <2>1, <2>2, NothingMoves
<1>5. CASE (\E n \in Notifications : Age(n)) \/ (\E u \in Users : OptOut(u))
  <2>1. UNCHANGED <<status, sentOn, day, mailed>>
    BY <1>5 DEF Age, OptOut, rows, clock, tally
  <2> QED
    BY <1>1, <1>2, <1>3, <2>1, SameRows, NothingMoves
<1>6. CASE Midnight
  <2>1. /\ UNCHANGED <<status, sentOn>> /\ mailed' = [u \in Users |-> 0]
        /\ day' = day + 1 /\ day \in Nat /\ sentOn \in [Notifications -> 0..day]
    BY <1>1, <1>6, OutboxAssumption DEF Midnight, rows, TypeOK
  <2>2. Claimed' = Claimed
    BY <1>2, <2>1 DEF Claimed, Held
  <2>3. \A u : Counted(u)' = {}
    BY <2>1 DEF Counted
  <2>4. \A u : Cardinality(Counted(u))' = 0
    BY <2>3, FS_EmptySet
  <2>5. Sized /\ stolen \in Nat /\ faults \in Nat
    BY <1>1, AllSized, OutboxAssumption DEF TypeOK
  <2>6. Cardinality(Workers) \in Nat /\ DailyCap \in Nat \ {0}
    BY OutboxAssumption, FS_CardinalityType
  <2>7. Cardinality(Places)' <= Cardinality(Claimed)' + stolen'
    BY <1>1, <1>3, <2>2 DEF CapInv
  <2>8. ASSUME NEW u \in Users
        PROVE  /\ mailed'[u] + Cardinality(Places)'
                    <= Cardinality(Counted(u))' + Cardinality(Unrecorded(u))'
                         + Cardinality(Claimed)' + stolen' + faults'
               /\ Cardinality(Counted(u))' + Cardinality(Underway(u))'
                    <= DailyCap + (Cardinality(Workers) - 1)
    <3>1. /\ Cardinality(Unrecorded(u)) \in Nat /\ Cardinality(Places) \in Nat
          /\ Cardinality(Claimed) \in Nat /\ Cardinality(Underway(u)) \in Nat
          /\ Cardinality(Underway(u)) <= Cardinality(Workers)
      BY <2>5 DEF Sized
    <3>2. mailed'[u] = 0 /\ Cardinality(Places) <= Cardinality(Claimed) + stolen
      BY <2>1 DEF CapInv
    <3> QED
      BY <1>1, <1>2, <1>3, <2>2, <2>4, <2>5, <2>6, <3>1, <3>2
  <2> QED
    BY <2>7, <2>8 DEF CapInv
<1> QED
  BY <1>4, <1>5, <1>6

\* The sweep, the candidates and the loaded batch: a row taken from a worker is stolen.
LEMMA SweepKeepsCap ==
    ASSUME IInv, IInv', CapInv, NEW w \in Workers, Tick(w) \/ Fetch(w) \/ Load(w)
    PROVE  CapInv'
<1>1. /\ TypeOK /\ TypeOK' /\ WorkerInv(worker[w]) /\ worker[w] \in WorkerRecord
      /\ worker \in [Workers -> WorkerRecord] /\ status \in [Notifications -> RowStatus]
  BY DEF IInv, TypeOK
<1>2. UNCHANGED <<sentOn, day, mailed, faults>>
  BY DEF Tick, Fetch, Load, rows, clock, tally
<1>3. /\ \A v \in Workers \ {w} : worker'[v] = worker[v]
      /\ worker[w].pc \in {"idle", "fetch", "claim"} /\ worker'[w].pc \notin {"send", "record"}
      /\ Holding(w)' = Holding(w)
  <2>1. CASE Tick(w)
    <3>1. worker' = [worker EXCEPT ![w] = [worker[w] EXCEPT !.pc = "fetch"]] /\ worker[w].pc = "idle"
      BY <2>1 DEF Tick, Goto, Local
    <3>2. worker'[w].pc = "fetch" /\ worker'[w].todo = worker[w].todo
      BY <1>1, <3>1 DEF WorkerRecord
    <3> QED
      BY <1>1, <3>1, <3>2 DEF Holding
  <2>2. CASE Fetch(w)
    <3>1. worker[w].pc = "fetch" /\ worker[w].todo = <<>> /\ worker[w].mine = <<>>
      BY <1>1, <2>2 DEF Fetch, WorkerInv
    <3>2. PICK q : Local(w, IF q = <<>> THEN Resting ELSE [worker[w] EXCEPT !.pc = "claim", !.todo = q])
      BY <2>2 DEF Fetch
    <3>3. /\ worker'[w] = IF q = <<>> THEN Resting ELSE [worker[w] EXCEPT !.pc = "claim", !.todo = q]
          /\ \A v \in Workers \ {w} : worker'[v] = worker[v]
      BY <1>1, <3>2 DEF Local
    <3>4. CASE q = <<>>
      BY <3>1, <3>3, <3>4, RestingIs DEF Holding
    <3>5. CASE q # <<>>
      <4>1. worker'[w].pc = "claim" /\ worker'[w].mine = <<>>
        BY <1>1, <3>1, <3>3, <3>5 DEF WorkerRecord
      <4> QED
        BY <3>1, <3>3, <4>1 DEF Holding
    <3> QED
      BY <3>4, <3>5
  <2>3. CASE Load(w)
    <3>1. /\ worker[w].pc = "claim" /\ \A v \in Workers \ {w} : worker'[v] = worker[v]
          /\ worker'[w] = IF worker[w].mine = <<>> THEN Resting
                ELSE [pc |-> "row", todo |-> worker[w].mine, mine |-> <<>>,
                      tries |-> attempts, muted |-> optedOut]
      BY <1>1, <2>3 DEF Load, Local
    <3> QED
      BY <3>1, RestingIs DEF Holding
  <2> QED
    BY <2>1, <2>2, <2>3
<1>4. /\ \A u : Unrecorded(u)' = Unrecorded(u) /\ Underway(u)' = Underway(u)
      /\ \A v \in Workers : Holding(v)' = Holding(v)
  BY <1>3, SameMailers DEF Holding
<1>5. Places' = Places
  BY <1>4 DEF Places
<1>6. CASE Fetch(w) \/ Load(w)
  <2>1. UNCHANGED <<status, stolen>>
    BY <1>6 DEF Fetch, Load, rows, tally
  <2> QED
    BY <1>2, <1>4, <2>1, SameRows, NothingMoves
<1>7. CASE Tick(w)
  <2>1. /\ status' = [n \in Notifications |-> IF n \in Stale THEN "queued" ELSE status[n]]
        /\ stolen' = stolen + Cardinality(Stale \cap Claimed)
    BY <1>7 DEF Tick
  <2>2. \A n \in Notifications : status'[n] = "sent" <=> status[n] = "sent"
    BY <2>1 DEF Stale
  <2>3. \A u : Counted(u)' = Counted(u)
    BY <1>2, <2>2 DEF Counted
  <2>4. Claimed \subseteq Claimed' \cup (Stale \cap Claimed)
    BY <1>4, <2>1 DEF Claimed, Held
  <2>5. Sized /\ Sized' /\ stolen \in Nat
    BY <1>1, AllSized, SizedNext DEF TypeOK
  <2>6. Stale \cap Claimed \in SUBSET Notifications
    BY DEF Stale
  <2>7. IsFiniteSet(Stale \cap Claimed) /\ Cardinality(Stale \cap Claimed) \in Nat
    BY <2>6, Countable
  <2>8. Cardinality(Claimed) <= Cardinality(Claimed)' + Cardinality(Stale \cap Claimed)
    <3> DEFINE S == Stale \cap Claimed
    <3>1. IsFiniteSet(Claimed') /\ Cardinality(Claimed') \in Nat /\ Cardinality(Claimed) \in Nat
      BY <2>5 DEF Sized
    <3> HIDE DEF S
    <3>2. /\ IsFiniteSet(Claimed' \cup S)
          /\ Cardinality(Claimed' \cup S) =
                Cardinality(Claimed') + Cardinality(S) - Cardinality(Claimed' \cap S)
      BY <2>7, <3>1, FS_Union DEF S
    <3>3. Cardinality(Claimed) <= Cardinality(Claimed' \cup S)
      BY <2>4, <3>2, FS_Subset DEF S
    <3>4. Cardinality(Claimed' \cap S) \in Nat /\ Cardinality(Claimed' \cup S) \in Nat
      BY <3>1, <3>2, FS_CardinalityType, FS_Intersection
    <3> QED
      BY <2>7, <3>1, <3>2, <3>3, <3>4 DEF S
  <2>9. /\ Cardinality(Places)' + 0 <= Cardinality(Places)
        /\ Cardinality(Claimed) + stolen <= Cardinality(Claimed)' + stolen' + 0
    BY <1>5, <2>1, <2>5, <2>7, <2>8 DEF Sized
  <2>10. \A u \in Users :
           /\ mailed'[u] + Cardinality(Counted(u)) + Cardinality(Unrecorded(u)) + faults
                <= mailed[u] + Cardinality(Counted(u))' + Cardinality(Unrecorded(u))' + faults' + (0 - 0)
           /\ Cardinality(Counted(u))' + Cardinality(Underway(u))'
                <= Cardinality(Counted(u)) + Cardinality(Underway(u))
    <3> TAKE u \in Users
    <3>1. /\ Cardinality(Counted(u)) \in Nat /\ Cardinality(Unrecorded(u)) \in Nat
          /\ Cardinality(Underway(u)) \in Nat /\ mailed[u] \in Nat /\ faults \in Nat
      BY <1>1, <2>5, OutboxAssumption DEF Sized, TypeOK
    <3> QED
      BY <1>2, <1>4, <2>3, <3>1
  <2> QED
    BY <1>1, <2>9, <2>10, CapKeep
<1> QED
  BY <1>6, <1>7

\* A claim that wins adds a place and a claimed row.
LEMMA ClaimKeepsCap ==
    ASSUME IInv, IInv', CapInv, NEW w \in Workers, Claim(w)
    PROVE  CapInv'
<1>1. /\ TypeOK /\ TypeOK' /\ worker[w] \in WorkerRecord /\ worker \in [Workers -> WorkerRecord]
      /\ worker[w].todo \in Seq(Notifications) /\ worker[w].mine \in Seq(Notifications)
      /\ status \in [Notifications -> RowStatus]
  BY WorkerIs DEF IInv, TypeOK
<1>2. /\ UNCHANGED <<sentOn, day, mailed, stolen, faults>>
      /\ worker[w].pc = "claim" /\ worker[w].todo # <<>>
  BY DEF Claim, clock, tally
<1>n. PICK n \in Notifications : n = Current(w)
  BY <1>1, <1>2, HeadTailProperties DEF Current
<1>3. CASE ~Claimable(n)
  <2>1. UNCHANGED status /\ worker' = [worker EXCEPT ![w] = [worker[w] EXCEPT !.todo = Tail(@)]]
    BY <1>3, <1>n DEF Claim, Local
  <2>2. /\ \A v \in Workers \ {w} : worker'[v] = worker[v]
        /\ worker'[w].pc = "claim" /\ worker'[w].mine = worker[w].mine
    BY <1>1, <1>2, <2>1 DEF WorkerRecord
  <2>3. \A v \in Workers : Holding(v)' = Holding(v)
    BY <1>2, <2>2 DEF Holding
  <2>4. \A u : Unrecorded(u)' = Unrecorded(u) /\ Underway(u)' = Underway(u)
    BY <1>2, <2>2, SameMailers
  <2> QED
    BY <1>2, <2>1, <2>3, <2>4, SameRows, NothingMoves
<1>4. CASE Claimable(n)
  <2>1. /\ status' = [status EXCEPT ![n] = "sending"] /\ status[n] = "queued"
        /\ worker' = [worker EXCEPT ![w] =
                         [worker[w] EXCEPT !.todo = Tail(@), !.mine = Append(@, n)]]
    BY <1>4, <1>n DEF Claim, Claimable, Local
  <2>2. /\ \A v \in Workers \ {w} : worker'[v] = worker[v]
        /\ worker'[w].pc = "claim" /\ worker'[w].mine = Append(worker[w].mine, n)
    BY <1>1, <1>2, <2>1 DEF WorkerRecord
  <2> DEFINE l == Len(worker[w].mine)
  <2>3. /\ Holding(w) = worker[w].mine /\ Holding(w)' = Append(worker[w].mine, n)
        /\ \A v \in Workers \ {w} : Holding(v)' = Holding(v)
    BY <1>2, <2>2 DEF Holding
  <2>4. /\ l \in Nat /\ DOMAIN Holding(w) = 1 .. l /\ DOMAIN Holding(w)' = 1 .. (l + 1)
        /\ Holding(w)'[l + 1] = n /\ \A i \in 1 .. l : Holding(w)'[i] = Holding(w)[i]
    BY <1>1, <2>3, AppendProperties, LenProperties
  <2> HIDE DEF l
  <2>5. \A i : i \in 1 .. (l + 1) => i \in 1 .. l \/ i = l + 1
    BY <2>4
  <2>6. Places' \subseteq Places \cup {<<w, l + 1>>}
    <3> SUFFICES ASSUME NEW x \in Places' PROVE x \in Places \cup {<<w, l + 1>>}
      OBVIOUS
    <3>1. PICK v \in Workers : \E i \in DOMAIN Holding(v)' : x = <<v, i>>
      BY PlaceNext
    <3>2. PICK i \in DOMAIN Holding(v)' : x = <<v, i>>
      BY <3>1
    <3>3. CASE v = w
      BY <2>4, <2>5, <3>2, <3>3, PlaceIs
    <3>4. CASE v # w
      BY <2>3, <3>2, <3>4, PlaceIs
    <3> QED
      BY <3>3, <3>4
  <2>7. \A v \in Workers : Held(v) \subseteq Held(v)'
    <3> TAKE v \in Workers
    <3>1. CASE v = w
      <4>1. \A i \in 1 .. l : i \in 1 .. (l + 1)
        BY <2>4
      <4> QED
        BY <2>4, <3>1, <4>1 DEF Held, ToSet
    <3>2. CASE v # w
      BY <2>3, <3>2 DEF Held
    <3> QED
      BY <3>1, <3>2
  <2>8. n \in Held(w)'
    <3>1. l + 1 \in 1 .. (l + 1)
      BY <2>4
    <3> QED
      BY <2>4, <3>1 DEF Held, ToSet
  <2>9. Claimed \cup {n} \subseteq Claimed' /\ n \notin Claimed
    BY <1>1, <2>1, <2>7, <2>8 DEF Claimed
  <2>10. Sized /\ Sized' /\ stolen \in Nat
    BY <1>1, AllSized, SizedNext DEF TypeOK
  <2>11. /\ Cardinality(Places)' + (-1) <= Cardinality(Places)
         /\ Cardinality(Claimed) + stolen <= Cardinality(Claimed)' + stolen' + (-1)
    <3>1. /\ IsFiniteSet(Places) /\ Cardinality(Places) \in Nat /\ Cardinality(Places') \in Nat
          /\ IsFiniteSet(Claimed) /\ Cardinality(Claimed) \in Nat
          /\ IsFiniteSet(Claimed') /\ Cardinality(Claimed') \in Nat
      BY <2>10 DEF Sized
    <3>2. /\ IsFiniteSet(Places \cup {<<w, l + 1>>})
          /\ Cardinality(Places \cup {<<w, l + 1>>}) <= Cardinality(Places) + 1
          /\ Cardinality(Places \cup {<<w, l + 1>>}) \in Nat
      <4>1. /\ IsFiniteSet(Places \cup {<<w, l + 1>>})
            /\ Cardinality(Places \cup {<<w, l + 1>>}) =
                  IF <<w, l + 1>> \in Places THEN Cardinality(Places) ELSE Cardinality(Places) + 1
        BY <3>1, FS_AddElement
      <4> QED
        BY <3>1, <4>1
    <3>3. Cardinality(Places') <= Cardinality(Places \cup {<<w, l + 1>>})
      BY <2>6, <3>2, FS_Subset
    <3>4. Cardinality(Claimed \cup {n}) = Cardinality(Claimed) + 1
      BY <2>9, <3>1, FS_AddElement
    <3>5. Cardinality(Claimed \cup {n}) <= Cardinality(Claimed')
      BY <2>9, <3>1, FS_Subset
    <3>6. Cardinality(Places') + (-1) <= Cardinality(Places)
      BY <3>1, <3>2, <3>3
    <3> QED
      BY <1>2, <2>10, <3>1, <3>4, <3>5, <3>6
  <2>12. \A u : /\ Counted(u)' = Counted(u)
                /\ Unrecorded(u)' = Unrecorded(u) /\ Underway(u)' = Underway(u)
    <3>1. \A u : Counted(u)' = Counted(u)
      BY <1>1, <1>2, <2>1 DEF Counted
    <3> QED
      BY <1>2, <2>2, <3>1, SameMailers
  <2>13. \A u \in Users :
           /\ mailed'[u] + Cardinality(Counted(u)) + Cardinality(Unrecorded(u)) + faults
                <= mailed[u] + Cardinality(Counted(u))' + Cardinality(Unrecorded(u))' + faults'
                     + ((-1) - (-1))
           /\ Cardinality(Counted(u))' + Cardinality(Underway(u))'
                <= Cardinality(Counted(u)) + Cardinality(Underway(u))
    <3> TAKE u \in Users
    <3>1. /\ Cardinality(Counted(u)) \in Nat /\ Cardinality(Unrecorded(u)) \in Nat
          /\ Cardinality(Underway(u)) \in Nat /\ mailed[u] \in Nat /\ faults \in Nat
      BY <1>1, <2>10, OutboxAssumption DEF Sized, TypeOK
    <3> QED
      BY <1>2, <2>12, <3>1
  <2> QED
    BY <1>1, <2>11, <2>13, CapKeep
<1> QED
  BY <1>3, <1>4

\* The row at the head is done with: its place is gone, and with it its claim if
\* it still had one.
LEMMA HeadLeaves ==
    ASSUME IInv, IInv', NEW w \in Workers, worker[w].pc \notin {"idle", "fetch", "claim"},
           NextRow(w), NEW n \in Notifications, n = Current(w),
           \A m \in Notifications \ {n} : status'[m] = status[m]
    PROVE  /\ Cardinality(Places)' + 1 <= Cardinality(Places)
           /\ Cardinality(Claimed) <= Cardinality(Claimed)' + (IF n \in Claimed THEN 1 ELSE 0)
           /\ \A u : Unrecorded(u)' = Unrecorded(u) \ {w} /\ Underway(u)' = Underway(u) \ {w}
<1>1. TypeOK /\ TypeOK' /\ \A v \in Workers : WorkerInv(worker[v])
  BY DEF IInv
<1>2. /\ worker'[w].pc \in {"idle", "row"}
      /\ \A v \in Workers \ {w} : worker'[v] = worker[v] /\ Holding(v)' = Holding(v)
      /\ \A i \in DOMAIN Holding(w)' :
             i \in Nat /\ i > 0 /\ i + 1 \in DOMAIN Holding(w) /\ Holding(w)'[i] = Holding(w)[i + 1]
      /\ \A i \in DOMAIN Holding(w) :
             i = 1 \/ \E j \in DOMAIN Holding(w)' : Holding(w)'[j] = Holding(w)[i]
  BY <1>1, NextRowStep
<1>3. n = Holding(w)[1] /\ 1 \in DOMAIN Holding(w)
  BY <1>1, CurrentIs
<1>4. Len(Holding(w)) \in Nat /\ DOMAIN Holding(w) = 1 .. Len(Holding(w))
  BY <1>1, WorkerIs
<1>5. Sized /\ Sized'
  BY <1>1, AllSized, SizedNext
<1> DEFINE last == <<w, Len(Holding(w))>>
<1>6. Len(Holding(w)) \in DOMAIN Holding(w) /\ Len(Holding(w)) \notin DOMAIN Holding(w)'
  BY <1>2, <1>3, <1>4
<1>7. Places' \subseteq Places \ {last} /\ last \in Places
  <2>1. last \in Places
    BY <1>6, PlaceIs
  <2>2. ASSUME NEW x \in Places' PROVE x \in Places /\ x # last
    <3>1. PICK v \in Workers : \E i \in DOMAIN Holding(v)' : x = <<v, i>>
      BY <2>2, PlaceNext
    <3>2. PICK i \in DOMAIN Holding(v)' : x = <<v, i>>
      BY <3>1
    <3>3. CASE v = w
      <4>1. i \in DOMAIN Holding(w)
        BY <1>2, <1>4, <3>2, <3>3
      <4> QED
        BY <1>6, <3>2, <3>3, <4>1, PlaceIs
    <3>4. CASE v # w
      BY <1>2, <3>2, <3>4, PlaceIs
    <3> QED
      BY <3>3, <3>4
  <2> QED
    BY <2>1, <2>2
<1>8. Cardinality(Places)' + 1 <= Cardinality(Places)
  <2>1. IsFiniteSet(Places) /\ Cardinality(Places) \in Nat /\ Cardinality(Places') \in Nat
    BY <1>5 DEF Sized
  <2> HIDE DEF last
  <2>2. IsFiniteSet(Places \ {last}) /\ Cardinality(Places \ {last}) = Cardinality(Places) - 1
    BY <1>7, <2>1, FS_RemoveElement
  <2>3. Cardinality(Places') <= Cardinality(Places \ {last})
    BY <1>7, <2>2, FS_Subset
  <2> QED
    BY <2>1, <2>2, <2>3
<1>9. \A m \in Notifications \ {n} : m \in Claimed => m \in Claimed'
  <2> SUFFICES ASSUME NEW m \in Notifications \ {n}, m \in Claimed PROVE m \in Claimed'
    OBVIOUS
  <2>1. PICK v \in Workers : m \in Held(v)
    BY DEF Claimed
  <2>2. m \in Held(v)'
    <3>1. CASE v = w
      <4>1. PICK i \in DOMAIN Holding(w) : Holding(w)[i] = m
        BY <2>1, <3>1 DEF Held, ToSet
      <4> QED
        BY <1>2, <1>3, <3>1, <4>1 DEF Held, ToSet
    <3>2. CASE v # w
      BY <1>2, <2>1, <3>2 DEF Held
    <3> QED
      BY <3>1, <3>2
  <2> QED
    BY <2>2 DEF Claimed
<1>10. Cardinality(Claimed) <= Cardinality(Claimed)' + (IF n \in Claimed THEN 1 ELSE 0)
  <2>1. /\ IsFiniteSet(Claimed') /\ Cardinality(Claimed') \in Nat /\ Cardinality(Claimed) \in Nat
        /\ Claimed \subseteq Notifications
    BY <1>5 DEF Sized, Claimed
  <2>2. CASE n \in Claimed
    <3>1. Claimed \subseteq Claimed' \cup {n}
      BY <1>9, <2>1
    <3>2. /\ IsFiniteSet(Claimed' \cup {n})
          /\ Cardinality(Claimed' \cup {n}) =
                IF n \in Claimed' THEN Cardinality(Claimed') ELSE Cardinality(Claimed') + 1
      BY <2>1, FS_AddElement
    <3>3. Cardinality(Claimed) <= Cardinality(Claimed' \cup {n})
      BY <3>1, <3>2, FS_Subset
    <3> QED
      BY <2>1, <2>2, <3>2, <3>3
  <2>3. CASE n \notin Claimed
    <3>1. Claimed \subseteq Claimed'
      BY <1>9, <2>1, <2>3
    <3>2. Cardinality(Claimed) <= Cardinality(Claimed')
      BY <2>1, <3>1, FS_Subset
    <3> QED
      BY <2>1, <2>3, <3>2
  <2> QED
    BY <2>2, <2>3
<1>11. \A u : Unrecorded(u)' = Unrecorded(u) \ {w} /\ Underway(u)' = Underway(u) \ {w}
  BY <1>2 DEF Unrecorded, Underway, Mailing, Current
<1> QED
  BY <1>8, <1>10, <1>11

\* A row that is settled, or put back, without a mail of its own: a counted row
\* that loses its mark was no longer claimed.
LEMMA SettledKeepsCap ==
    ASSUME IInv, IInv', CapInv, NEW w \in Workers, Refuse(w) \/ SkipCapped(w) \/ Bounce(w)
    PROVE  CapInv'
<1>1. /\ TypeOK /\ TypeOK' /\ WorkerInv(worker[w]) /\ status \in [Notifications -> RowStatus]
      /\ mailed \in [Users -> Nat] /\ faults \in Nat /\ stolen \in Nat
  BY OutboxAssumption DEF IInv, TypeOK
<1>2. /\ worker[w].pc \in {"row", "cap", "bounce"} /\ NextRow(w)
      /\ UNCHANGED <<sentOn, day, mailed, stolen, faults>>
  BY DEF Refuse, SkipCapped, Bounce, clock, tally
<1>n. PICK n \in Notifications : n = Current(w)
  BY <1>1, <1>2, CurrentIs
<1>3. PICK x \in {"queued", "skipped", "failed"} : status' = [status EXCEPT ![n] = x]
  BY <1>n DEF Refuse, SkipCapped, Bounce, AfterFailure
<1>4. \A m \in Notifications \ {n} : status'[m] = status[m]
  BY <1>1, <1>3
<1>5. Sized /\ Sized'
  BY <1>1, AllSized, SizedNext
<1> DEFINE j == IF n \in Claimed THEN 1 ELSE 0
<1>6. /\ Cardinality(Places)' + 1 <= Cardinality(Places)
      /\ Cardinality(Claimed) <= Cardinality(Claimed)' + j
      /\ \A u : Unrecorded(u)' = Unrecorded(u) \ {w} /\ Underway(u)' = Underway(u) \ {w}
  BY <1>2, <1>4, <1>n, HeadLeaves
<1>7. \A u : w \notin Unrecorded(u) /\ w \notin Underway(u)
  BY <1>2 DEF Unrecorded, Underway
<1>8. \A u : Counted(u)' = Counted(u) \ {n} /\ (n \in Counted(u) => n \notin Claimed)
  BY <1>1, <1>2, <1>3 DEF Counted, Claimed
<1>9. j \in Int /\ j <= 1 /\ (n \notin Claimed => 1 - j = 1)
  OBVIOUS
<1> HIDE DEF j
<1>10. Cardinality(Claimed) + stolen <= Cardinality(Claimed)' + stolen' + j
  BY <1>1, <1>2, <1>5, <1>6, <1>9 DEF Sized
<1>11. \A u \in Users :
         /\ mailed'[u] + Cardinality(Counted(u)) + Cardinality(Unrecorded(u)) + faults
              <= mailed[u] + Cardinality(Counted(u))' + Cardinality(Unrecorded(u))' + faults' + (1 - j)
         /\ Cardinality(Counted(u))' + Cardinality(Underway(u))'
              <= Cardinality(Counted(u)) + Cardinality(Underway(u))
  <2> TAKE u \in Users
  <2>1. /\ IsFiniteSet(Counted(u)) /\ Cardinality(Counted(u)) \in Nat
        /\ Cardinality(Unrecorded(u)) \in Nat /\ Cardinality(Underway(u)) \in Nat
        /\ mailed[u] \in Nat
    BY <1>1, <1>5 DEF Sized
  <2>2. Unrecorded(u)' = Unrecorded(u) /\ Underway(u)' = Underway(u)
    BY <1>6, <1>7
  <2>3. Cardinality(Counted(u) \ {n}) =
            IF n \in Counted(u) THEN Cardinality(Counted(u)) - 1 ELSE Cardinality(Counted(u))
    BY <2>1, FS_RemoveElement
  <2>4. Cardinality(Counted(u))' = Cardinality(Counted(u) \ {n})
    BY <1>8
  <2>5. CASE n \in Counted(u)
    <3>1. 1 - j = 1
      BY <1>8, <1>9, <2>5
    <3> QED
      BY <1>1, <1>2, <2>1, <2>2, <2>3, <2>4, <2>5, <3>1
  <2>6. CASE n \notin Counted(u)
    BY <1>1, <1>2, <1>9, <2>1, <2>2, <2>3, <2>4, <2>6
  <2> QED
    BY <2>5, <2>6
<1> QED
  BY <1>1, <1>6, <1>9, <1>10, <1>11, CapKeep

\* The mail is recorded: it was unrecorded and is counted, or it was counted before.
LEMMA RecordKeepsCap ==
    ASSUME IInv, IInv', CapInv, NEW w \in Workers, RecordSent(w)
    PROVE  CapInv'
<1>1. /\ TypeOK /\ TypeOK' /\ WorkerInv(worker[w]) /\ status \in [Notifications -> RowStatus]
      /\ sentOn \in [Notifications -> 0..day]
      /\ mailed \in [Users -> Nat] /\ faults \in Nat /\ stolen \in Nat
  BY OutboxAssumption DEF IInv, TypeOK
<1>2. /\ worker[w].pc = "record" /\ NextRow(w) /\ UNCHANGED <<day, mailed, stolen, faults>>
  BY DEF RecordSent, clock, tally
<1>n. PICK n \in Notifications : n = Current(w)
  BY <1>1, <1>2, CurrentIs
<1>3. status' = [status EXCEPT ![n] = "sent"] /\ sentOn' = [sentOn EXCEPT ![n] = day]
  BY <1>n DEF RecordSent
<1>4. /\ status'[n] = "sent" /\ sentOn'[n] = day
      /\ \A m \in Notifications \ {n} : status'[m] = status[m] /\ sentOn'[m] = sentOn[m]
  BY <1>1, <1>3
<1>5. Sized /\ Sized'
  BY <1>1, AllSized, SizedNext
<1> DEFINE j == IF n \in Claimed THEN 1 ELSE 0
<1>6. /\ Cardinality(Places)' + 1 <= Cardinality(Places)
      /\ Cardinality(Claimed) <= Cardinality(Claimed)' + j
      /\ \A u : Unrecorded(u)' = Unrecorded(u) \ {w} /\ Underway(u)' = Underway(u) \ {w}
  BY <1>2, <1>4, <1>n, HeadLeaves
<1>7. j \in Int /\ j <= 1 /\ (n \notin Claimed => 1 - j = 1)
  OBVIOUS
<1> HIDE DEF j
<1>8. Cardinality(Claimed) + stolen <= Cardinality(Claimed)' + stolen' + j
  BY <1>1, <1>2, <1>5, <1>6, <1>7 DEF Sized
<1>9. ASSUME NEW u \in Users
      PROVE  /\ mailed'[u] + Cardinality(Counted(u)) + Cardinality(Unrecorded(u)) + faults
                  <= mailed[u] + Cardinality(Counted(u))' + Cardinality(Unrecorded(u))'
                       + faults' + (1 - j)
             /\ Cardinality(Counted(u))' + Cardinality(Underway(u))'
                  <= Cardinality(Counted(u)) + Cardinality(Underway(u))
  <2>1. /\ IsFiniteSet(Counted(u)) /\ Cardinality(Counted(u)) \in Nat
        /\ IsFiniteSet(Unrecorded(u)) /\ Cardinality(Unrecorded(u)) \in Nat
        /\ IsFiniteSet(Underway(u)) /\ Cardinality(Underway(u)) \in Nat
        /\ mailed[u] \in Nat
    BY <1>1, <1>5 DEF Sized
  <2>2. CASE Capped(n) /\ Owner[n] = u
    <3>1. w \in Unrecorded(u) /\ w \in Underway(u)
      BY <1>2, <1>n, <2>2 DEF Unrecorded, Underway, Mailing
    <3>2. /\ Cardinality(Unrecorded(u))' = Cardinality(Unrecorded(u)) - 1
          /\ Cardinality(Underway(u))' = Cardinality(Underway(u)) - 1
      BY <1>6, <2>1, <3>1, FS_RemoveElement
    <3>3. Counted(u)' = Counted(u) \cup {n}
      BY <1>2, <1>4, <2>2 DEF Counted, Capped
    <3>4. Cardinality(Counted(u) \cup {n}) =
              IF n \in Counted(u) THEN Cardinality(Counted(u)) ELSE Cardinality(Counted(u)) + 1
      BY <2>1, FS_AddElement
    <3>5. Cardinality(Counted(u))' = Cardinality(Counted(u) \cup {n})
      BY <3>3
    <3>6. n \in Counted(u) => 1 - j = 1
      BY <1>7 DEF Counted, Claimed
    <3>7. CASE n \in Counted(u)
      BY <1>1, <1>2, <2>1, <3>2, <3>4, <3>5, <3>6, <3>7
    <3>8. CASE n \notin Counted(u)
      BY <1>1, <1>2, <1>7, <2>1, <3>2, <3>4, <3>5, <3>8
    <3> QED
      BY <3>7, <3>8
  <2>3. CASE ~(Capped(n) /\ Owner[n] = u)
    <3>1. w \notin Unrecorded(u) /\ w \notin Underway(u)
      BY <1>n, <2>3 DEF Unrecorded, Underway, Mailing
    <3>2. Unrecorded(u)' = Unrecorded(u) /\ Underway(u)' = Underway(u)
      BY <1>6, <3>1
    <3>3. Counted(u)' = Counted(u)
      BY <1>2, <1>4, <2>3 DEF Counted, Capped
    <3> QED
      BY <1>1, <1>2, <1>7, <2>1, <3>2, <3>3
  <2> QED
    BY <2>2, <2>3
<1> QED
  BY <1>1, <1>6, <1>7, <1>8, <1>9, CapKeep

\* A worker moves on at its row: what it held it holds, and no row changes.
LEMMA MovesOn ==
    ASSUME TypeOK, NEW w \in Workers, WorkerInv(worker[w]),
           worker[w].pc \notin {"idle", "fetch", "claim"},
           NEW pc \in {"cap", "send", "record", "bounce"}, Goto(w, pc), UNCHANGED <<rows, clock>>
    PROVE  /\ Places' = Places /\ Claimed' = Claimed /\ \A u : Counted(u)' = Counted(u)
           /\ worker'[w].pc = pc
           /\ \A v \in Workers \ {w} : worker'[v].pc = worker[v].pc
           /\ \A v \in Workers : \A u : Mailing(v, u)' <=> Mailing(v, u)
<1>1. /\ worker'[w].pc = pc /\ worker'[w].todo = worker[w].todo /\ Current(w)' = Current(w)
      /\ \A v \in Workers \ {w} : worker'[v] = worker[v] /\ Current(v)' = Current(v)
  BY GotoIs
<1>2. \A v \in Workers : Holding(v)' = Holding(v)
  BY <1>1 DEF Holding
<1>3. UNCHANGED <<status, sentOn, day>>
  BY DEF rows, clock
<1>4. \A v \in Workers : Current(v)' = Current(v)
  BY <1>1
<1>5. \A v \in Workers : \A u : Mailing(v, u)' <=> Mailing(v, u)
  BY <1>4 DEF Mailing, Capped
<1> QED
  BY <1>1, <1>2, <1>3, <1>5, SameRows

LEMMA CheckKeepsCap ==
    ASSUME IInv, IInv', CapInv, NEW w \in Workers, CheckCap(w)
    PROVE  CapInv'
<1>1. /\ TypeOK /\ TypeOK' /\ WorkerInv(worker[w])
      /\ mailed \in [Users -> Nat] /\ faults \in Nat /\ stolen \in Nat
  BY OutboxAssumption DEF IInv, TypeOK
<1> DEFINE n == Current(w)
           pc == IF Capped(n) /\ ~UnderCap(n) THEN "cap" ELSE "send"
<1>2. /\ worker[w].pc = "row" /\ Goto(w, pc) /\ UNCHANGED <<rows, clock, mailed, stolen, faults>>
  BY DEF CheckCap, tally
<1>3. pc \in {"cap", "send"} /\ (pc = "send" /\ Capped(n) => UnderCap(n))
  OBVIOUS
<1> HIDE DEF pc
<1>4. /\ UNCHANGED <<Places, Claimed>> /\ \A u : Counted(u)' = Counted(u)
      /\ worker'[w].pc = pc
      /\ \A v \in Workers \ {w} : worker'[v].pc = worker[v].pc
      /\ \A v \in Workers : \A u : Mailing(v, u)' <=> Mailing(v, u)
  BY <1>1, <1>2, <1>3, MovesOn
<1>5. \A u : Unrecorded(u)' = Unrecorded(u)
  BY <1>2, <1>3, <1>4 DEF Unrecorded
<1>6. \A u : pc = "cap" \/ ~Mailing(w, u) => Underway(u)' = Underway(u)
  BY <1>2, <1>4 DEF Underway
<1>7. Sized /\ Sized'
  BY <1>1, AllSized, SizedNext
<1>8. ASSUME NEW u \in Users, pc = "send", Mailing(w, u)
      PROVE  Cardinality(Counted(u))' < DailyCap
  <2>1. Cardinality({m \in Notifications : Owner[m] = u /\ status[m] = "sent" /\ sentOn[m] = day}) < DailyCap
    BY <1>3, <1>8 DEF UnderCap, SentToday, Mailing
  <2> DEFINE T == {m \in Notifications : Owner[m] = u /\ status[m] = "sent" /\ sentOn[m] = day}
  <2>2. T \in SUBSET Notifications /\ Counted(u) \in SUBSET T
    BY DEF Counted
  <2>3. Cardinality(T) < DailyCap
    BY <2>1
  <2> HIDE DEF T
  <2>4. /\ Cardinality(Counted(u)) <= Cardinality(T)
        /\ Cardinality(Counted(u)) \in Nat /\ Cardinality(T) \in Nat
    BY <2>2, Countable
  <2> QED
    BY <1>4, <2>3, <2>4, OutboxAssumption
<1>9. ASSUME NEW u \in Users
      PROVE  /\ mailed'[u] + Cardinality(Counted(u)) + Cardinality(Unrecorded(u)) + faults
                  <= mailed[u] + Cardinality(Counted(u))' + Cardinality(Unrecorded(u))'
                       + faults' + (0 - 0)
             /\ \/ Cardinality(Counted(u))' + Cardinality(Underway(u))'
                      <= Cardinality(Counted(u)) + Cardinality(Underway(u))
                \/ Cardinality(Counted(u))' < DailyCap
  <2>1. /\ Cardinality(Counted(u)) \in Nat /\ Cardinality(Unrecorded(u)) \in Nat
        /\ Cardinality(Underway(u)) \in Nat /\ mailed[u] \in Nat
    BY <1>1, <1>7 DEF Sized
  <2>2. mailed'[u] + Cardinality(Counted(u)) + Cardinality(Unrecorded(u)) + faults
          <= mailed[u] + Cardinality(Counted(u))' + Cardinality(Unrecorded(u))' + faults' + (0 - 0)
    BY <1>1, <1>2, <1>4, <1>5, <2>1
  <2>3. CASE pc = "send" /\ Mailing(w, u)
    BY <1>8, <2>2, <2>3
  <2>4. CASE ~(pc = "send" /\ Mailing(w, u))
    BY <1>3, <1>4, <1>6, <2>1, <2>2, <2>4
  <2> QED
    BY <2>3, <2>4
<1>10. /\ Cardinality(Places)' + 0 <= Cardinality(Places)
       /\ Cardinality(Claimed) + stolen <= Cardinality(Claimed)' + stolen' + 0
  BY <1>1, <1>2, <1>4, <1>7 DEF Sized
<1> QED
  BY <1>1, <1>9, <1>10, CapKeep

\* A mail that goes out is unrecorded; one that is refused leaves its worker, and
\* an acknowledgement that is lost is a fault.
LEMMA MailKeepsCap ==
    ASSUME IInv, IInv', CapInv, NEW w \in Workers, Send(w) \/ LoseAcknowledgement(w)
    PROVE  CapInv'
<1>1. /\ TypeOK /\ TypeOK' /\ WorkerInv(worker[w])
      /\ mailed \in [Users -> Nat] /\ faults \in Nat /\ stolen \in Nat
  BY OutboxAssumption DEF IInv, TypeOK
<1>2. /\ UNCHANGED <<rows, clock, stolen>>
      /\ \/ /\ worker[w].pc = "send" /\ Goto(w, "record") /\ faults' = faults
            /\ mailed' = IF Capped(Current(w))
                         THEN [mailed EXCEPT ![Owner[Current(w)]] = @ + 1] ELSE mailed
         \/ worker[w].pc = "send" /\ Goto(w, "bounce") /\ UNCHANGED <<mailed, faults>>
         \/ /\ worker[w].pc = "record" /\ Goto(w, "bounce")
            /\ UNCHANGED mailed /\ faults' = faults + 1
  BY DEF Send, LoseAcknowledgement, Fault, tally
<1>3. PICK pc \in {"record", "bounce"} : Goto(w, pc) /\ (pc = "record" => worker[w].pc = "send"
        /\ faults' = faults /\ mailed' = IF Capped(Current(w))
              THEN [mailed EXCEPT ![Owner[Current(w)]] = @ + 1] ELSE mailed)
        /\ (pc = "bounce" => mailed' = mailed /\ \/ worker[w].pc = "send" /\ faults' = faults
                                                 \/ worker[w].pc = "record" /\ faults' = faults + 1)
  BY <1>2
<1>4. worker[w].pc \in {"send", "record"}
  BY <1>2
<1>5. /\ UNCHANGED <<Places, Claimed>> /\ \A u : Counted(u)' = Counted(u)
      /\ worker'[w].pc = pc
      /\ \A v \in Workers \ {w} : worker'[v].pc = worker[v].pc
      /\ \A v \in Workers : \A u : Mailing(v, u)' <=> Mailing(v, u)
  BY <1>1, <1>2, <1>3, <1>4, MovesOn
<1>6. Sized /\ Sized'
  BY <1>1, AllSized, SizedNext
<1>7. \A u : Underway(u)' \subseteq Underway(u)
  BY <1>4, <1>5 DEF Underway
<1>8. ASSUME NEW u \in Users
      PROVE  mailed'[u] + Cardinality(Unrecorded(u)) + faults
                <= mailed[u] + Cardinality(Unrecorded(u))' + faults'
  <2>1. /\ IsFiniteSet(Unrecorded(u)) /\ Cardinality(Unrecorded(u)) \in Nat
        /\ IsFiniteSet(Unrecorded(u)') /\ Cardinality(Unrecorded(u)') \in Nat
        /\ mailed[u] \in Nat
    BY <1>1, <1>6 DEF Sized
  <2>2. CASE pc = "record" /\ Mailing(w, u)
    <3>1. w \notin Unrecorded(u) /\ Unrecorded(u)' = Unrecorded(u) \cup {w}
      BY <1>3, <1>5, <2>2 DEF Unrecorded
    <3>2. Cardinality(Unrecorded(u))' = Cardinality(Unrecorded(u)) + 1
      BY <2>1, <3>1, FS_AddElement
    <3>3. mailed'[u] = mailed[u] + 1
      BY <1>1, <1>3, <2>2 DEF Mailing
    <3> QED
      BY <1>1, <1>3, <2>1, <2>2, <3>2, <3>3
  <2>3. CASE pc = "record" /\ ~Mailing(w, u)
    <3>1. Unrecorded(u)' = Unrecorded(u)
      BY <1>3, <1>5, <2>3 DEF Unrecorded
    <3>2. mailed'[u] = mailed[u]
      BY <1>1, <1>3, <2>3 DEF Mailing
    <3> QED
      BY <1>1, <1>3, <2>1, <2>3, <3>1, <3>2
  <2>4. CASE pc = "bounce" /\ faults' = faults
    <3>1. Unrecorded(u)' = Unrecorded(u) /\ mailed' = mailed
      BY <1>1, <1>3, <1>5, <2>4 DEF Unrecorded
    <3> QED
      BY <1>1, <2>1, <2>4, <3>1
  <2>5. CASE pc = "bounce" /\ faults' = faults + 1
    <3>1. Unrecorded(u) \subseteq Unrecorded(u)' \cup {w} /\ mailed' = mailed
      BY <1>3, <1>5, <2>5 DEF Unrecorded
    <3>2. /\ IsFiniteSet(Unrecorded(u)' \cup {w})
          /\ Cardinality(Unrecorded(u)' \cup {w}) =
                IF w \in Unrecorded(u)' THEN Cardinality(Unrecorded(u)')
                ELSE Cardinality(Unrecorded(u)') + 1
      BY <2>1, FS_AddElement
    <3>3. Cardinality(Unrecorded(u)) <= Cardinality(Unrecorded(u)' \cup {w})
      BY <3>1, <3>2, FS_Subset
    <3> QED
      BY <1>1, <2>1, <2>5, <3>1, <3>2, <3>3
  <2> QED
    BY <1>3, <2>2, <2>3, <2>4, <2>5
<1>9. ASSUME NEW u \in Users
      PROVE  /\ mailed'[u] + Cardinality(Counted(u)) + Cardinality(Unrecorded(u)) + faults
                  <= mailed[u] + Cardinality(Counted(u))' + Cardinality(Unrecorded(u))'
                       + faults' + (0 - 0)
             /\ Cardinality(Counted(u))' + Cardinality(Underway(u))'
                  <= Cardinality(Counted(u)) + Cardinality(Underway(u))
  <2>1. /\ Cardinality(Counted(u)) \in Nat /\ Cardinality(Unrecorded(u)) \in Nat
        /\ IsFiniteSet(Underway(u)) /\ Cardinality(Underway(u)) \in Nat
        /\ Cardinality(Unrecorded(u))' \in Nat /\ Cardinality(Underway(u))' \in Nat
        /\ mailed[u] \in Nat /\ mailed'[u] \in Nat /\ faults' \in Nat
    BY <1>1, <1>3, <1>6 DEF Sized, TypeOK
  <2>2. Cardinality(Underway(u)') <= Cardinality(Underway(u))
    BY <1>7, <2>1, FS_Subset
  <2>3. Cardinality(Counted(u))' = Cardinality(Counted(u))
    BY <1>5
  <2> QED
    BY <1>1, <1>8, <2>1, <2>2, <2>3
<1>10. /\ Cardinality(Places)' + 0 <= Cardinality(Places)
       /\ Cardinality(Claimed) + stolen <= Cardinality(Claimed)' + stolen' + 0
  BY <1>1, <1>2, <1>5, <1>6 DEF Sized
<1> QED
  BY <1>1, <1>9, <1>10, CapKeep

\* A process that dies gives up its places, and with them no more claims; the mail
\* it may have sent is its fault.
LEMMA CrashKeepsCap ==
    ASSUME IInv, IInv', CapInv, NEW w \in Workers, Crash(w)
    PROVE  CapInv'
<1>1. /\ TypeOK /\ TypeOK' /\ \A v \in Workers : WorkerInv(worker[v])
      /\ mailed \in [Users -> Nat] /\ faults \in Nat /\ stolen \in Nat
  BY OutboxAssumption DEF IInv, TypeOK
<1>2. UNCHANGED <<status, sentOn, day, mailed, stolen>> /\ faults' = faults + 1
  BY DEF Crash, Fault, rows, clock, tally
<1>3. /\ worker'[w] = Resting
      /\ \A v \in Workers \ {w} : worker'[v] = worker[v] /\ Holding(v)' = Holding(v)
      /\ Holding(w)' = <<>>
  BY <1>1, RestingIs, LocalStep DEF Crash
<1>4. Sized /\ Sized'
  BY <1>1, AllSized, SizedNext
<1> DEFINE k == Len(Holding(w))
           gone == {w} \X DOMAIN Holding(w)
<1>5. k \in Nat /\ DOMAIN Holding(w) = 1 .. k /\ Holding(w) \in Seq(Notifications)
  BY <1>1, WorkerIs
<1>6. gone \subseteq Places /\ Places' \subseteq Places \ gone
  <2>1. gone \subseteq Places
    BY PlaceIs
  <2>2. ASSUME NEW x \in Places' PROVE x \in Places /\ x \notin gone
    <3>1. PICK v \in Workers : \E i \in DOMAIN Holding(v)' : x = <<v, i>>
      BY <2>2, PlaceNext
    <3>2. PICK i \in DOMAIN Holding(v)' : x = <<v, i>>
      BY <3>1
    <3>3. v # w
      BY <1>3, <3>2, EmptySeq
    <3> QED
      BY <1>3, <3>2, <3>3, PlaceIs
  <2> QED
    BY <2>1, <2>2
<1>7. Cardinality(gone) = k /\ IsFiniteSet(gone)
  <2>1. IsFiniteSet({w}) /\ Cardinality({w}) = 1
    BY FS_Singleton
  <2>2. IsFiniteSet(DOMAIN Holding(w)) /\ Cardinality(DOMAIN Holding(w)) = k
    <3> HIDE DEF k
    <3> QED
      BY <1>5, FS_Interval
  <2>3. IsFiniteSet(gone) /\ Cardinality(gone) = 1 * Cardinality(DOMAIN Holding(w))
    BY <2>1, <2>2, FS_Product
  <2> QED
    BY <1>5, <2>2, <2>3
<1>8. Cardinality(Claimed) <= Cardinality(Claimed)' + k
  <2> DEFINE H == Held(w)
  <2>1. IsFiniteSet(H) /\ Cardinality(H) \in Nat /\ Cardinality(H) <= k
    BY <1>5, NoMoreThanLen DEF Held
  <2>2. Claimed \subseteq Claimed' \cup H
    BY <1>2, <1>3 DEF Claimed, Held
  <2>3. IsFiniteSet(Claimed') /\ Cardinality(Claimed') \in Nat /\ Cardinality(Claimed) \in Nat
    BY <1>4 DEF Sized
  <2> HIDE DEF H, k
  <2>4. /\ IsFiniteSet(Claimed' \cup H)
        /\ Cardinality(Claimed' \cup H) =
              Cardinality(Claimed') + Cardinality(H) - Cardinality(Claimed' \cap H)
    BY <2>1, <2>3, FS_Union
  <2>5. Cardinality(Claimed' \cap H) \in Nat /\ Cardinality(Claimed' \cup H) \in Nat
    BY <2>3, <2>4, FS_Intersection, FS_CardinalityType
  <2>6. Cardinality(Claimed) <= Cardinality(Claimed' \cup H)
    BY <2>2, <2>4, FS_Subset
  <2> QED
    BY <1>5, <2>1, <2>3, <2>4, <2>5, <2>6
<1> HIDE DEF k, gone
<1>9. Cardinality(Places)' + k <= Cardinality(Places)
  <2>1. IsFiniteSet(Places) /\ Cardinality(Places) \in Nat /\ Cardinality(Places') \in Nat
    BY <1>4 DEF Sized
  <2>2. Places \cap gone = gone
    BY <1>6
  <2>3. /\ IsFiniteSet(Places \ gone)
        /\ Cardinality(Places \ gone) = Cardinality(Places) - Cardinality(Places \cap gone)
    BY <2>1, FS_Difference
  <2>4. Cardinality(Places') <= Cardinality(Places \ gone)
    BY <1>6, <2>3, FS_Subset
  <2>5. Cardinality(Places \ gone) = Cardinality(Places) - k
    BY <1>7, <2>2, <2>3
  <2> QED
    BY <1>5, <2>1, <2>4, <2>5
<1>10. Cardinality(Claimed) + stolen <= Cardinality(Claimed)' + stolen' + k
  <2>1. Cardinality(Claimed) \in Nat /\ Cardinality(Claimed)' \in Nat
    BY <1>4 DEF Sized
  <2> QED
    BY <1>1, <1>2, <1>5, <1>8, <2>1
<1>11. ASSUME NEW u \in Users
       PROVE  /\ mailed'[u] + Cardinality(Counted(u)) + Cardinality(Unrecorded(u)) + faults
                   <= mailed[u] + Cardinality(Counted(u))' + Cardinality(Unrecorded(u))'
                        + faults' + (k - k)
              /\ Cardinality(Counted(u))' + Cardinality(Underway(u))'
                   <= Cardinality(Counted(u)) + Cardinality(Underway(u))
  <2>1. /\ IsFiniteSet(Unrecorded(u)) /\ Cardinality(Unrecorded(u)) \in Nat
        /\ IsFiniteSet(Underway(u)) /\ Cardinality(Underway(u)) \in Nat
        /\ Cardinality(Counted(u)) \in Nat /\ mailed[u] \in Nat
    BY <1>1, <1>4 DEF Sized
  <2>2. Unrecorded(u)' = Unrecorded(u) \ {w} /\ Underway(u)' = Underway(u) \ {w}
    BY <1>3, RestingIs DEF Unrecorded, Underway, Mailing, Current
  <2>3. /\ Cardinality(Unrecorded(u) \ {w}) \in Nat
        /\ Cardinality(Unrecorded(u)) <= Cardinality(Unrecorded(u) \ {w}) + 1
    <3>1. Cardinality(Unrecorded(u) \ {w}) =
              IF w \in Unrecorded(u) THEN Cardinality(Unrecorded(u)) - 1 ELSE Cardinality(Unrecorded(u))
      BY <2>1, FS_RemoveElement
    <3>2. IsFiniteSet(Unrecorded(u) \ {w})
      BY <2>1, FS_RemoveElement
    <3>3. Cardinality(Unrecorded(u) \ {w}) \in Nat
      BY <3>2, FS_CardinalityType
    <3> QED
      BY <2>1, <3>1, <3>3
  <2>4. /\ Cardinality(Underway(u) \ {w}) \in Nat
        /\ Cardinality(Underway(u) \ {w}) <= Cardinality(Underway(u))
    BY <2>1, FS_Subset, FS_CardinalityType
  <2>5. Counted(u)' = Counted(u)
    BY <1>2 DEF Counted
  <2> QED
    BY <1>1, <1>2, <1>5, <2>1, <2>2, <2>3, <2>4, <2>5
<1> QED
  BY <1>1, <1>5, <1>9, <1>10, <1>11, CapKeep

LEMMA NextKeepsCap == IInv /\ IInv' /\ CapInv /\ [Next]_vars => CapInv'
<1>1. ASSUME CapInv, UNCHANGED vars PROVE CapInv'
  BY <1>1 DEF CapInv, Places, Claimed, Held, Holding, Counted, Unrecorded, Underway, Mailing,
     Current, vars
<1>2. ASSUME IInv, IInv', CapInv, NEW w \in Workers,
             Tick(w) \/ Drain(w) \/ LoseAcknowledgement(w) \/ Crash(w)
      PROVE  CapInv'
  BY <1>2, SweepKeepsCap, ClaimKeepsCap, SettledKeepsCap, RecordKeepsCap, CheckKeepsCap,
     MailKeepsCap, CrashKeepsCap DEF Drain
<1>3. ASSUME IInv, IInv', CapInv, Next PROVE CapInv'
  BY <1>2, <1>3, EnvironmentKeepsCap DEF Next
<1> QED
  BY <1>1, <1>3

LEMMA InitCapInv == Init => CapInv
<1> SUFFICES ASSUME Init PROVE CapInv
  OBVIOUS
<1>1. \A w \in Workers : worker[w] = Resting /\ Holding(w) = <<>>
  BY RestingIs DEF Init, Holding
<1>2. Places = {} /\ Claimed = {}
  BY <1>1, EmptySeq DEF Places, Init, Claimed
<1>3. \A u : Counted(u) = {} /\ Unrecorded(u) = {} /\ Underway(u) = {}
  BY <1>1, RestingIs DEF Init, Counted, Unrecorded, Underway
<1>4. Cardinality({}) = 0 /\ Cardinality(Workers) \in Nat /\ DailyCap \in Nat \ {0}
  BY OutboxAssumption, FS_EmptySet, FS_CardinalityType
<1>5. Cardinality(Places) <= Cardinality(Claimed) + stolen
  BY <1>2, <1>4 DEF Init
<1>6. ASSUME NEW u \in Users
      PROVE  /\ mailed[u] + Cardinality(Places)
                  <= Cardinality(Counted(u)) + Cardinality(Unrecorded(u))
                       + Cardinality(Claimed) + stolen + faults
             /\ Cardinality(Counted(u)) + Cardinality(Underway(u))
                  <= DailyCap + (Cardinality(Workers) - 1)
  <2>1. mailed[u] = 0 /\ stolen = 0 /\ faults = 0
    BY DEF Init
  <2> QED
    BY <1>2, <1>3, <1>4, <2>1
<1> QED
  BY <1>5, <1>6 DEF CapInv

\* Nobody is sent more than DAILY_CAP ordinary mails between two midnights but for
\* one for each further server instance, which takes its count before the others
\* record, one for each crash or lost acknowledgement, and one for each row the
\* stale sweep took from a worker that was still at it (drainOutbox): whatever the
\* rows say, however many instances drain and however the days turn.
THEOREM CapIsKept == Spec => []WithinDailyCap
<1>1. IInv /\ CapInv => WithinDailyCap
  <2> SUFFICES ASSUME IInv, CapInv, NEW u \in Users
               PROVE  mailed[u] <= DailyCap + (Cardinality(Workers) - 1) + stolen + faults
    BY DEF WithinDailyCap
  <2>1. TypeOK /\ Sized /\ stolen \in Nat /\ faults \in Nat /\ mailed[u] \in Nat
    BY AllSized, OutboxAssumption DEF IInv, TypeOK
  <2>2. /\ Cardinality(Counted(u)) \in Nat /\ Cardinality(Unrecorded(u)) \in Nat
        /\ Cardinality(Underway(u)) \in Nat /\ IsFiniteSet(Underway(u))
        /\ Cardinality(Places) \in Nat /\ Cardinality(Claimed) \in Nat
        /\ Cardinality(Claimed) <= Cardinality(Places)
    BY <2>1, Finite DEF Sized
  <2>3. Cardinality(Unrecorded(u)) <= Cardinality(Underway(u))
    <3>1. Unrecorded(u) \subseteq Underway(u)
      BY DEF Unrecorded, Underway
    <3> QED
      BY <2>2, <3>1, FS_Subset
  <2>4. DailyCap \in Nat /\ Cardinality(Workers) \in Nat
    BY OutboxAssumption, FS_CardinalityType
  <2> QED
    BY <2>1, <2>2, <2>3, <2>4 DEF CapInv
<1>2. Init => CapInv
  BY InitCapInv
<1>3. IInv /\ IInv' /\ CapInv /\ [Next]_vars => CapInv'
  BY NextKeepsCap
<1> QED
  BY <1>1, <1>2, <1>3, InvariantHolds, PTL DEF Spec

===============================================================================

------------------------------- MODULE GroupChat -------------------------------
(***************************************************************************)
(* The encrypted chat of one group cart: the courier of chat.routes.ts and *)
(* the chat screen of each device.  A device owns a chain of keys, hands   *)
(* it sealed to every other device at its present position, and moves it   *)
(* one position per message.  A screen runs three activities at once: it   *)
(* sends, it polls for messages, and it synchronises keys on a timer.  A   *)
(* network call is a step; local cryptography and storage are not.  Ids    *)
(* of messages are their places in the order of createdAt.                 *)
(***************************************************************************)
EXTENDS Integers, FiniteSets, FiniteSetsExt, Sequences

CONSTANTS
    Devices,
    UserOf,       \* whose device it is; all of them are members of the cart
    Early,        \* devices that are known and have the chat open from the start
    Senders,      \* devices whose owner writes
    NoRow,        \* a row, a chain or a history that does not exist
    MaxBusy,      \* bound on activities under way
    MaxMessages,  \* bound on the messages stored
    MaxMishaps    \* bound on lost calls, closed screens and cleared key stores

ASSUME ChatAssumption ==
    /\ Early \subseteq Devices /\ Senders \subseteq Devices
    /\ MaxBusy \in Nat /\ MaxMessages \in Nat /\ MaxMishaps \in Nat

VARIABLES
    known,      \* ChatDevice rows: the generation of the public keys, 0 without a row
    envelopes,  \* SenderKeyEnvelope rows
    history,    \* HistorySync row of each device
    messages,   \* GroupMessage rows, oldest first
    keys,       \* on the device: generation of its key pairs and of its own chain
    own,        \* ... position of its own chain
    chains,     \* ... the other devices' chains as it knows them
    log,        \* ... messages it holds in the clear
    pending,    \* ... messages kept until their chain arrives
    cursor,     \* ... lastAt
    screen,     \* ... state of its chat screen
    task,       \* ... what each activity of the screen is doing
    refused,    \* history: messages given a final answer (too old, forged)
    handed,     \* history: messages a device has from a sibling
    passed,     \* history: messages the cursor was moved past by other than a poll
    trouble,    \* history: what a device went through: a synchronisation "missed",
                \* its chain "rewound", the answer to a stored message lost ("unsure")
    mishaps

server == <<known, envelopes, history, messages>>
device == <<keys, own, chains, log, pending, cursor, screen>>
seen == <<refused, handed, passed, trouble>>
chatVars == <<server, device, task, seen, mishaps>>

Activities == {"send", "poll", "timer"}

\* audience, owed, inbound, past, siblings: what GET /keys answered; upto: the last message
\* a poll was given; before, place: the chain before a send, and the row it made.
Idle == [step |-> "idle", audience |-> {}, owed |-> {}, inbound |-> {}, past |-> NoRow, siblings |-> {},
         since |-> 0, upto |-> 0, before |-> 0, place |-> 0]

ChatInit ==
    /\ known = [d \in Devices |-> IF d \in Early THEN 1 ELSE 0]
    /\ envelopes = {} /\ messages = <<>>
    /\ history = [d \in Devices |-> NoRow]
    /\ keys = [d \in Devices |-> 1] /\ own = [d \in Devices |-> 0]
    /\ chains = [d \in Devices |-> [s \in Devices |-> NoRow]]
    /\ log = [d \in Devices |-> {}] /\ pending = [d \in Devices |-> {}]
    /\ cursor = [d \in Devices |-> 0]
    /\ screen = [d \in Devices |-> IF d \in Early THEN "ready" ELSE "closed"]
    /\ task = [d \in Devices |-> [a \in Activities |-> Idle]]
    /\ refused = [d \in Devices |-> {}] /\ handed = [d \in Devices |-> {}]
    /\ passed = [d \in Devices |-> {}] /\ trouble = [d \in Devices |-> {}]
    /\ mishaps = 0

Put(f, d, v) == [f EXCEPT ![d] = v]
At(d, a, step) == task[d][a].step = step
Become(d, a, t) == task' = [task EXCEPT ![d][a] = t]
Note(d, what) == trouble' = Put(trouble, d, trouble[d] \cup what)
Mishap == mishaps < MaxMishaps /\ mishaps' = mishaps + 1
MayStart ==
    Cardinality({x \in Devices \X Activities : ~At(x[1], x[2], "idle")}) < MaxBusy

\* A send may begin: the button is disabled while one is under way.
Writes(d) == d \in Senders /\ screen[d] = "ready" /\ At(d, "send", "idle")
                /\ Len(messages) < MaxMessages

\* The last of a log that is kept in the order of createdAt.
LastOf(s) == IF s = {} THEN 0 ELSE Max(s)

(***************************************************************************)
(* The screen.                                                             *)
(***************************************************************************)

\* registerDevice: new keys drop whatever was sealed to the old ones.
Register(d) ==
    LET rekeyed == known[d] \notin {0, keys[d]}
    IN  /\ known' = Put(known, d, keys[d])
        /\ envelopes' = IF rekeyed THEN {e \in envelopes : e.to # d} ELSE envelopes
        /\ history' = IF rekeyed THEN Put(history, d, NoRow) ELSE history

\* Stored chains and log are loaded; the queue of unread messages is not stored.
OpenChat(d) ==
    /\ screen[d] = "closed" /\ MayStart
    /\ Register(d)
    /\ screen' = Put(screen, d, "setup")
    /\ cursor' = Put(cursor, d, LastOf(log[d]))
    /\ passed' = Put(passed, d, passed[d] \cup {p \in pending[d] : p <= LastOf(log[d])})
    /\ pending' = Put(pending, d, {})
    /\ Become(d, "timer", [Idle EXCEPT !.step = "keys"])
    /\ UNCHANGED <<messages, keys, own, chains, log, refused, handed, trouble, mishaps>>

\* The tab is closed or reloaded: whatever it was doing ends there.
Leave(d) ==
    /\ screen' = Put(screen, d, "closed")
    /\ task' = Put(task, d, [a \in Activities |-> Idle])

CloseChat(d) ==
    /\ screen[d] # "closed" /\ Mishap
    /\ Leave(d)
    /\ UNCHANGED <<server, keys, own, chains, log, pending, cursor, seen>>

\* The stored keys, chains and log are gone; the device id is not.
Wipe(d) ==
    /\ Mishap
    /\ Leave(d)
    /\ keys' = Put(keys, d, keys[d] + 1) /\ own' = Put(own, d, 0)
    /\ chains' = Put(chains, d, [s \in Devices |-> NoRow])
    /\ log' = Put(log, d, {}) /\ pending' = Put(pending, d, {})
    /\ handed' = Put(handed, d, {})
    /\ UNCHANGED <<server, cursor, refused, passed, trouble>>

(***************************************************************************)
(* syncKeys: GET /keys, then POST /keys and the local work.                *)
(***************************************************************************)

Sent(d) == {e.to : e \in {x \in envelopes : x.from = d}}

\* A device also seals its chain to itself and never looks at it: left out.
Owed(d) == {[to |-> r, pk |-> known[r]] :
               r \in {x \in Devices \ {d} : known[x] # 0 /\ x \notin Sent(d)}}

Siblings(d) == {[to |-> r, pk |-> known[r]] :
                   r \in {x \in Devices \ {d} : known[x] # 0 /\ UserOf[x] = UserOf[d]}}

\* GET /keys, on the timer, before a send, or when a poll lacks a chain.  A timer
\* that finds nothing to do changes nothing: those are left out.
Answer(d) == [Idle EXCEPT !.step = "settle",
                          !.owed = Owed(d),
                          !.audience = {r \in Devices \ {d} : known[r] # 0},
                          !.inbound = {e \in envelopes : e.to = d /\ chains[d][e.from] = NoRow},
                          !.past = history[d],
                          !.siblings = {x \in Siblings(d) : history[x.to] = NoRow}]

Matters(d, t) ==
    \/ t.owed # {} \/ \E e \in t.inbound : e.pk = keys[d]
    \/ IF log[d] = {} THEN t.past # NoRow ELSE t.siblings # {}

FetchKeys(d, a) ==
    /\ screen[d] \in {"setup", "ready"}
    /\ \/ At(d, a, "keys")
       \/ a = "timer" /\ At(d, a, "idle") /\ screen[d] = "ready" /\ MayStart
          /\ Matters(d, Answer(d))
       \/ a = "send" /\ Writes(d) /\ MayStart
    /\ Become(d, a, Answer(d))
    /\ UNCHANGED <<server, device, seen, mishaps>>

\* distributionFor: the chain as it stands, sealed to the key that was fetched.
\* Mutant: the chain is handed over from its start.
FromStart(d, o) == [from |-> d, to |-> o.to, pk |-> o.pk, gen |-> keys[d], index |-> 0]

\* Mutant: the chain is sealed at the position after the coming message.
FromNext(d, o) == [from |-> d, to |-> o.to, pk |-> o.pk, gen |-> keys[d], index |-> own[d] + 1]

Sealed(d, o) == [from |-> d, to |-> o.to, pk |-> o.pk, gen |-> keys[d], index |-> own[d]]

\* POST /keys: the first envelope for a device stays.
Publish(d, a) ==
    envelopes' = envelopes \cup
        {Sealed(d, o) : o \in {x \in task[d][a].owed : x.to \notin Sent(d)}}

\* openDistribution, for senders that have no chain here yet.
Learned(d, a) ==
    [s \in Devices |->
        LET mine == {e \in task[d][a].inbound : e.from = s /\ e.pk = keys[d]}
        IN  IF chains[d][s] = NoRow /\ mine # {}
            THEN LET e == CHOOSE x \in mine : TRUE IN [gen |-> e.gen, index |-> e.index]
            ELSE chains[d][s]]

\* History is taken by a device that has read nothing, and offered by one that has.
TakesPast(d, a) ==
    LET past == task[d][a].past
    IN  past # NoRow /\ log[d] = {} /\ past.pk = keys[d] /\ past.log # {}

Settle(d, a) ==
    LET t == task[d][a]
        takes == TakesPast(d, a)
        now == IF takes THEN t.past.log ELSE log[d]
        left == IF takes THEN Put(history, d, NoRow) ELSE history
    IN  /\ chains' = Put(chains, d, Learned(d, a))
        /\ log' = Put(log, d, now)
        /\ handed' = IF takes THEN Put(handed, d, now) ELSE handed
        /\ cursor' = IF takes THEN Put(cursor, d, LastOf(now)) ELSE cursor
        /\ passed' = IF takes THEN Put(passed, d, passed[d] \cup (1..LastOf(now) \ now)) ELSE passed
        /\ history' = [r \in Devices |->
               IF now # {} /\ left[r] = NoRow /\ \E x \in t.siblings : x.to = r
               THEN [pk |-> (CHOOSE x \in t.siblings : x.to = r).pk, log |-> now]
               ELSE left[r]]

Readied(d, state) == screen' = IF screen[d] = "setup" THEN Put(screen, d, state) ELSE screen

\* What follows a synchronisation: a send builds its message at once
\* (encryptMessage: the chain moves on as soon as the message is built).
Continue(d, a) ==
    /\ Become(d, a, CASE a = "send" -> [Idle EXCEPT !.step = "post", !.before = own[d],
                                                       !.audience = task[d][a].audience]
                      [] a = "poll" -> [Idle EXCEPT !.step = "again"]
                      [] OTHER      -> Idle)
    /\ own' = IF a = "send" THEN Put(own, d, own[d] + 1) ELSE own

SettleKeys(d, a) ==
    /\ At(d, a, "settle")
    /\ Publish(d, a) /\ Settle(d, a) /\ Continue(d, a)
    /\ Readied(d, "ready")
    /\ UNCHANGED <<known, messages, keys, pending, refused, trouble, mishaps>>

\* A failed POST /keys is swallowed and the rest of the synchronisation goes on.
PublishLost(d, a) ==
    /\ At(d, a, "settle") /\ task[d][a].owed # {}
    /\ Settle(d, a) /\ Continue(d, a)
    /\ Readied(d, "ready") /\ Note(d, {"missed"})
    /\ Mishap
    /\ UNCHANGED <<known, envelopes, messages, keys, pending, refused>>

\* A failed GET /keys is swallowed too, except while the screen loads.
SyncLost(d, a) ==
    /\ At(d, a, "settle")
    /\ Continue(d, a)
    /\ Readied(d, "failed") /\ Note(d, {"missed"})
    /\ Mishap
    /\ UNCHANGED <<server, keys, chains, log, pending, cursor, refused, handed, passed>>

(***************************************************************************)
(* Sending.                                                                *)
(***************************************************************************)

Clash(d, i) == \E p \in 1..Len(messages) : messages[p].from = d /\ messages[p].index = i

\* knew: the keys that were registered; out: devices the sender had seen that
\* hold no chain that opens the message.
Row(d, i) == [from |-> d, gen |-> keys[d], index |-> i, knew |-> known,
              out |-> {r \in task[d]["send"].audience :
                          ~\E e \in envelopes : /\ e.from = d /\ e.to = r /\ e.pk = keys[r]
                                                /\ e.gen = keys[d] /\ e.index <= i}]

\* POST /messages.
Store(d) ==
    /\ At(d, "send", "post") /\ ~Clash(d, task[d]["send"].before)
    /\ Len(messages) < MaxMessages
    /\ messages' = Append(messages, Row(d, task[d]["send"].before))
    /\ Become(d, "send", [task[d]["send"] EXCEPT !.step = "answer", !.place = Len(messages) + 1])
    /\ UNCHANGED <<known, envelopes, history, device, seen, mishaps>>

\* Mutant: the chain is put back whatever the answer (finally instead of catch).
AnsweredAndRewound(d) ==
    LET p == task[d]["send"].place
    IN  /\ At(d, "send", "answer")
        /\ log' = Put(log, d, log[d] \cup {p})
        /\ cursor' = Put(cursor, d, p)
        /\ own' = Put(own, d, task[d]["send"].before)
        /\ Become(d, "send", Idle)
        /\ UNCHANGED <<server, keys, chains, pending, screen, seen, mishaps>>

\* The answer: the message joins the log and the cursor jumps to it.
Answered(d) ==
    LET p == task[d]["send"].place
    IN  /\ At(d, "send", "answer")
        /\ log' = Put(log, d, log[d] \cup {p})
        /\ cursor' = Put(cursor, d, p)
        /\ passed' = Put(passed, d, passed[d] \cup (cursor[d] + 1)..(p - 1))
        /\ Become(d, "send", Idle)
        /\ UNCHANGED <<server, keys, own, chains, pending, screen,
                       refused, handed, trouble, mishaps>>

\* rewindOwnChain.
Rewind(d) ==
    /\ own' = Put(own, d, task[d]["send"].before)
    /\ Become(d, "send", Idle)
    /\ UNCHANGED <<server, keys, chains, log, pending, cursor, screen, refused, handed, passed>>

\* 409 That chain position is already used.
Refused(d) ==
    /\ At(d, "send", "post") /\ Clash(d, task[d]["send"].before)
    /\ Rewind(d) /\ Note(d, {"rewound"})
    /\ UNCHANGED mishaps

RequestLost(d) ==
    /\ At(d, "send", "post")
    /\ Rewind(d) /\ Note(d, {"rewound"}) /\ Mishap

AnswerLost(d) ==
    /\ At(d, "send", "answer")
    /\ Rewind(d) /\ Note(d, {"rewound", "unsure"}) /\ Mishap

(***************************************************************************)
(* Reading.                                                                *)
(***************************************************************************)

\* Mutant: only a new message makes the queue run again.
NewOnly(d) == cursor[d] < Len(messages)

\* A poll that brings nothing while nothing waits is left out.
HasWork(d) == cursor[d] < Len(messages) \/ pending[d] # {}

\* GET /messages, for what is newer than the cursor.
Poll(d) ==
    /\ screen[d] = "ready" /\ At(d, "poll", "idle") /\ MayStart
    /\ HasWork(d)
    /\ Become(d, "poll", [Idle EXCEPT !.step = "drain", !.since = cursor[d], !.upto = Len(messages)])
    /\ UNCHANGED <<server, device, seen, mishaps>>

\* decryptMessage, for a queue that is read in the order of each chain.
Opens(d, p) ==
    LET c == chains[d][messages[p].from]
    IN  /\ c # NoRow
        /\ messages[p].index >= c.index
        /\ messages[p].gen = c.gen

\* What drain does with a queue: opened, kept for a chain to come, or refused.
Drain(d, queue) ==
    LET fresh == {p \in queue : messages[p].from # d /\ p \notin log[d]}
        opened == {p \in fresh : Opens(d, p)}
        kept == {p \in fresh : chains[d][messages[p].from] = NoRow}
    IN  /\ log' = Put(log, d, log[d] \cup opened)
        /\ pending' = Put(pending, d, kept)
        /\ refused' = Put(refused, d, refused[d] \cup (fresh \ (opened \cup kept)))
        /\ chains' = Put(chains, d, [s \in Devices |->
               LET read == {messages[p].index : p \in {x \in opened : messages[x].from = s}}
               IN  IF read = {} THEN chains[d][s]
                   ELSE [chains[d][s] EXCEPT !.index = Max(read) + 1]])
        /\ Become(d, "poll", IF At(d, "poll", "drain") /\ kept # {}
                             THEN [Idle EXCEPT !.step = "keys"] ELSE Idle)

\* Mutant: the cursor is set to the present instead of the last message given.
CursorNow(d) == Len(messages)

CursorAfter(d) ==
    LET t == task[d]["poll"] IN IF t.upto > t.since THEN t.upto ELSE cursor[d]

Receive(d) ==
    LET t == task[d]["poll"]
    IN  /\ At(d, "poll", "drain")
        /\ cursor' = Put(cursor, d, CursorAfter(d))
        /\ Drain(d, pending[d] \cup (t.since + 1)..t.upto)
        /\ UNCHANGED <<server, keys, own, screen, handed, passed, trouble, mishaps>>

\* The queue is run again with the chains that the synchronisation brought.
DrainAgain(d) ==
    /\ At(d, "poll", "again")
    /\ Drain(d, pending[d])
    /\ UNCHANGED <<server, keys, own, cursor, screen, handed, passed, trouble, mishaps>>

PollLost(d) ==
    /\ At(d, "poll", "drain")
    /\ Become(d, "poll", Idle)
    /\ Mishap
    /\ UNCHANGED <<server, device, seen>>

Sync(d, a) == FetchKeys(d, a) \/ SettleKeys(d, a)

ChatNext ==
    \E d \in Devices :
        \/ OpenChat(d) \/ CloseChat(d) \/ Wipe(d)
        \/ \E a \in Activities : Sync(d, a) \/ PublishLost(d, a) \/ SyncLost(d, a)
        \/ Store(d) \/ Answered(d) \/ Refused(d) \/ RequestLost(d) \/ AnswerLost(d)
        \/ Poll(d) \/ Receive(d) \/ DrainAgain(d) \/ PollLost(d)

ChatSpec == ChatInit /\ [][ChatNext]_chatVars

\* A screen that is open polls and synchronises on its intervals and a send that
\* was started goes on; nobody has to write or to open the chat, and nothing has to
\* fail.  Intervals wait for nobody: fairness is strong where MaxBusy makes them.
ChatFairSpec ==
    /\ ChatSpec
    /\ \A d \in Devices :
        /\ SF_chatVars(Sync(d, "timer")) /\ SF_chatVars(Poll(d))
        /\ WF_chatVars(Sync(d, "poll") \/ Receive(d) \/ DrainAgain(d))
        /\ WF_chatVars(SettleKeys(d, "send") \/ Store(d) \/ Refused(d) \/ Answered(d))

(***************************************************************************)
(* Properties.                                                             *)
(***************************************************************************)

Envelopes == [from : Devices, to : Devices, pk : Nat, gen : Nat, index : Nat]
Chains == [gen : Nat, index : Nat]
Rows == [from : Devices, gen : Nat, index : Nat, knew : [Devices -> Nat], out : SUBSET Devices]
Offers == [to : Devices, pk : Nat]
Stored == 1..Len(messages)
Pasts == [pk : Nat, log : SUBSET Stored] \cup {NoRow}
Steps == {"idle", "keys", "settle", "post", "answer", "drain", "again"}
Tasks == [step : Steps, audience : SUBSET Devices, owed : SUBSET Offers,
          inbound : SUBSET Envelopes, past : Pasts, siblings : SUBSET Offers,
          since : 0..Len(messages), upto : 0..Len(messages),
          before : Nat, place : 0..Len(messages)]

\* Every row, every stored key and every activity has its shape, and a position
\* of a chain never falls below its start (rewindOwnChain).
ChatTypeOK ==
    /\ known \in [Devices -> Nat] /\ keys \in [Devices -> Nat] /\ own \in [Devices -> Nat]
    /\ envelopes \subseteq Envelopes
    /\ \A e, x \in envelopes : e.from = x.from /\ e.to = x.to => e = x
    /\ messages \in Seq(Rows)
    /\ history \in [Devices -> Pasts]
    /\ chains \in [Devices -> [Devices -> Chains \cup {NoRow}]]
    /\ log \in [Devices -> SUBSET Stored] /\ pending \in [Devices -> SUBSET Stored]
    /\ refused \in [Devices -> SUBSET Stored] /\ handed \in [Devices -> SUBSET Stored]
    /\ passed \in [Devices -> SUBSET Stored]
    /\ cursor \in [Devices -> 0..Len(messages)]
    /\ screen \in [Devices -> {"closed", "setup", "ready", "failed"}]
    /\ task \in [Devices -> [Activities -> Tasks]]
    /\ trouble \in [Devices -> SUBSET {"missed", "rewound", "unsure"}]
    /\ mishaps \in Nat

\* Whoever was in the device list when a message was prepared can read it
\* (page.tsx: "Seal for anyone new BEFORE advancing the chain"): a device is left
\* out only when a synchronisation of the sender failed, when the sender moved
\* its chain back after a failed send, or when a key store was cleared.
LockedOutOnlyByMishap ==
    \A p \in 1..Len(messages) :
        LET m == messages[p]
        IN  m.out # {} => \/ trouble[m.from] # {} \/ m.gen > 1
                         \/ \E r \in m.out : keys[r] > 1

Jammed(d) == /\ ~At(d, "send", "answer")
             /\ Clash(d, IF At(d, "send", "post") THEN task[d]["send"].before ELSE own[d])

\* A chain position is used once (POST /messages), and the sender's next one is
\* free unless it put its chain back although its message had been stored, or
\* started a new chain under its old device id.
JammedOnlyByLostAnswer ==
    \A d \in Devices : Jammed(d) => "unsure" \in trouble[d] \/ keys[d] > 1

\* What the cursor of an open screen is past has been read, refused for good or
\* kept for its chain (pending of page.tsx), except what the cursor was moved
\* past by the answer to an own message, by a reload or by a history.
SkippedOnlyByJump ==
    \A d \in Devices : screen[d] = "ready" =>
        \A p \in 1..cursor[d] :
            messages[p].from # d => p \in log[d] \cup refused[d] \cup pending[d] \cup passed[d]

\* Forward secrecy: what a device decrypted itself was stored after its present
\* keys were registered, unless the sender's chain was put back over a message
\* that had been stored.
ReadsNothingEarlier ==
    \A d \in Devices : \A p \in log[d] \ handed[d] :
        LET m == messages[p]
        IN  m.from # d => m.knew[d] = keys[d] \/ "unsure" \in trouble[m.from]

Listening(d) == screen[d] = "ready" /\ known[d] = keys[d]

Settled(p, d) ==
    LET s == messages[p].from
    IN  \/ p \in log[d] \cup refused[d] \cup passed[d]
        \/ s = d \/ ~Listening(d) \/ ~Listening(s)
        \/ \E e \in envelopes : e.from = s /\ e.to = d /\ e.pk # keys[d]

\* A message gets an answer on every screen that stays open: it is read, or found
\* unreadable, or was jumped over; only a chain sealed to keys that were cleared,
\* or a sender who left, keeps it waiting.
EventuallyAnswered ==
    \A p \in 1..MaxMessages : \A d \in Devices :
        (p <= Len(messages) /\ Listening(d)) ~> (p <= Len(messages) /\ Settled(p, d))

(***************************************************************************)
(* The inductive invariant: what the rows and an activity under way still  *)
(* know of each other.                                                     *)
(***************************************************************************)

\* Nothing is sealed to keys that were never registered, or by a chain that was
\* never started.
KeysInv ==
    /\ \A d \in Devices : known[d] <= keys[d] /\ keys[d] > 0
    /\ \A e \in envelopes : e.pk \in 1..known[e.to] /\ e.gen \in 1..keys[e.from]
    /\ \A d \in Devices, a \in Activities :
        /\ \A o \in task[d][a].owed : o.pk \in 1..known[o.to]
        /\ \A e \in task[d][a].inbound : e.to = d /\ e.pk \in 1..known[d]
    /\ \A p \in Stored : messages[p].gen \in 1..keys[messages[p].from]

\* A screen that is closed does nothing; the row a send made is the sender's, and
\* while it is built the chain stands past its place.
TaskInv ==
    \A d \in Devices :
        /\ screen[d] = "closed" => \A a \in Activities : At(d, a, "idle")
        /\ \A a \in Activities \ {"send"} : ~At(d, a, "post") /\ ~At(d, a, "answer")
        /\ At(d, "send", "answer") =>
               task[d]["send"].place \in Stored /\ messages[task[d]["send"].place].from = d
        /\ At(d, "send", "post") => task[d]["send"].before < own[d]

\* The list of devices to seal for has each of them once.
OwedInv ==
    \A d \in Devices, a \in Activities : \A o, x \in task[d][a].owed : o.to = x.to => o = x

\* The positions a chain has used are behind it, unless an answer was lost.
PositionInv ==
    \A d \in Devices : "unsure" \notin trouble[d] =>
        \A p \in Stored : messages[p].from = d /\ messages[p].gen = keys[d] =>
            /\ messages[p].index < own[d]
            /\ At(d, "send", "post") => messages[p].index < task[d]["send"].before

\* Between two devices whose keys are their first, a chain is handed over at or
\* behind its position before a message is built for the other one.
HandedOver(d, r) == \E e \in envelopes : e.from = d /\ e.to = r

DeliveryInv ==
    \A d \in Devices : trouble[d] = {} /\ keys[d] = 1 =>
        /\ \A e \in envelopes : e.from = d => e.index <= own[d]
        /\ \A a \in Activities : At(d, a, "settle") =>
               \A r \in task[d][a].audience : keys[r] = 1 =>
                   HandedOver(d, r) \/ \E o \in task[d][a].owed : o.to = r
        /\ At(d, "send", "post") =>
               \A r \in task[d]["send"].audience : keys[r] = 1 =>
                   \E e \in envelopes : e.from = d /\ e.to = r
                                       /\ e.index <= task[d]["send"].before

\* What a chain opens, from a position on, was stored for the present keys of d.
Fresh(s, d, c) ==
    \A p \in Stored :
        messages[p].from = s /\ messages[p].gen = c.gen /\ messages[p].index >= c.index =>
            messages[p].knew[d] = keys[d] \/ "unsure" \in trouble[s]

SecrecyInv ==
    /\ \A e \in envelopes : e.pk = keys[e.to] => Fresh(e.from, e.to, e)
    /\ \A d \in Devices, a \in Activities : \A e \in task[d][a].inbound :
           e.pk = keys[d] => Fresh(e.from, d, e)
    /\ \A d, s \in Devices : chains[d][s] # NoRow =>
           known[d] = keys[d] /\ Fresh(s, d, chains[d][s])

\* Everything up to a message that is read, waits or was asked for is accounted for.
Covered(d, n) ==
    \A p \in 1..n :
        messages[p].from # d => p \in log[d] \cup refused[d] \cup pending[d] \cup passed[d]

CursorInv ==
    \A d \in Devices :
        /\ screen[d] # "closed" => Covered(d, cursor[d])
        /\ \A q \in log[d] \cup pending[d] : Covered(d, q)
        /\ At(d, "poll", "drain") =>
               Covered(d, task[d]["poll"].since) /\ task[d]["poll"].since <= task[d]["poll"].upto

ChatInv ==
    /\ ChatTypeOK /\ KeysInv /\ TaskInv /\ OwedInv
    /\ PositionInv /\ DeliveryInv /\ SecrecyInv /\ CursorInv
    /\ LockedOutOnlyByMishap /\ ReadsNothingEarlier
===============================================================================

----------------------------- MODULE SignInProofs -----------------------------
(***************************************************************************)
(* Proofs about SignIn, for any number of handlers, codes and passwords.   *)
(* Every action moves one handler.  What that does to the type of the      *)
(* state and to the four other parts of the invariant is stated once for   *)
(* the steps that leave a part alone, and the steps that do not are taken  *)
(* one by one.                                                             *)
(***************************************************************************)
EXTENDS SignIn, FiniteSetTheorems, TLAPS

(***************************************************************************)
(* The operators.                                                          *)
(***************************************************************************)

LEMMA CameIs ==
    /\ Came("idle") = {"none"} /\ Came("write") = {"signup"}
    /\ Came("compare") = {"login", "console"}
    /\ Came("link") = {"google"} /\ Came("off") = {"disable"}
    /\ Came("count") = {"signup", "resend", "login", "console", "forgot", "start"}
    /\ Came("create") = Came("count")
    /\ Came("try") = {"verify", "reset", "loginVerify", "consoleVerify", "confirm"}
    /\ Came("accept") = Came("try")
  BY DEF Came

LEMMA WritesIs ==
    ASSUME NEW op
    PROVE  /\ "lock" \in Writes(op) <=> op \in {"login", "console", "reset"}
           /\ "password" \in Writes(op) <=> op \in {"reset", "signup", "verify", "google"}
  BY DEF Writes

LEMMA PurposeIs ==
    ASSUME NEW op, NEW u
    PROVE  Purpose(op) \in Purposes /\ Sent(op, u) \in Purposes
  <1>1. Purpose(op) \in Purposes
    BY DEF Purpose, Purposes
  <1> QED
    BY <1>1 DEF Sent, Purposes

\* The row a handler read is one it has.
LEMMA SeenIs ==
    ASSUME NEW c \in Calls, TypeOK, call[c].step \in Reading
    PROVE  Seen(c) \in call[c].seen /\ Seen(c) \in Rows
  <1>1. call[c].seen # {} /\ call[c].seen \subseteq Rows
    BY DEF TypeOK, Shaped, Handlers
  <1> QED
    BY <1>1 DEF Seen

\* The step of one handler leaves the others where they were.
LEMMA Putting ==
    ASSUME NEW c \in Calls, NEW q, call \in [Calls -> Handlers], Put(c, q)
    PROVE  /\ DOMAIN call' = Calls /\ call'[c] = q
           /\ \A d \in Calls : d # c => call'[d] = call[d]
  BY DEF Put

LEMMA Putted ==
    ASSUME NEW c \in Calls, NEW q, TypeOK, Put(c, q), q \in Handlers', Shaped(q),
           DOMAIN codes \subseteq DOMAIN codes'
    PROVE  call' \in [Calls -> Handlers'] /\ \A d \in Calls : Shaped(call'[d])
  <1>1. \A d \in Calls : call[d] \in Handlers' /\ Shaped(call[d])
    BY DEF TypeOK, Handlers
  <1>2. call' = [call EXCEPT ![c] = q]
    BY DEF Put
  <1> QED
    BY <1>1, <1>2 DEF TypeOK

LEMMA IdleIs ==
    /\ Idle \in Handlers /\ Shaped(Idle)
    /\ Idle.op = "none" /\ Idle.step = "idle" /\ Idle.list = {} /\ Idle.pw = {} /\ Idle.seen = {}
  BY CameIs DEF Idle, Handlers, Shaped, Reading

\* A handler that moves on to another step keeps everything else.
LEMMA Stepping ==
    ASSUME NEW c \in Calls, NEW step, TypeOK, Step(c, step)
    PROVE  /\ DOMAIN call' = Calls
           /\ call'[c].op = call[c].op /\ call'[c].step = step /\ call'[c].list = call[c].list
           /\ call'[c].seen = call[c].seen /\ Seen(c)' = Seen(c)
           /\ \A d \in Calls : d # c => call'[d] = call[d]
  <1> DEFINE q == [call[c] EXCEPT !.step = step]
  <1>1. call[c] \in Handlers /\ call \in [Calls -> Handlers]
    BY DEF TypeOK
  <1>2. Put(c, q)
    BY DEF Step
  <1>3. q.op = call[c].op /\ q.step = step /\ q.list = call[c].list /\ q.seen = call[c].seen
    BY <1>1 DEF Handlers
  <1>4. call'[c] = q /\ DOMAIN call' = Calls /\ \A d \in Calls : d # c => call'[d] = call[d]
    BY <1>1, <1>2, Putting
  <1>5. call'[c].seen = call[c].seen
    BY <1>3, <1>4
  <1> QED
    BY <1>3, <1>4, <1>5 DEF Seen

LEMMA StepShaped ==
    ASSUME NEW c \in Calls, NEW step \in Reading, TypeOK, Step(c, step),
           call[c].step \in Reading, call[c].op \in Came(step)
    PROVE  LET q == [call[c] EXCEPT !.step = step] IN
           q \in Handlers /\ Shaped(q)
  <1>1. call[c] \in Handlers /\ Shaped(call[c])
    BY DEF TypeOK
  <1> QED
    BY <1>1 DEF Handlers, Shaped, Reading

LEMMA DoneIs ==
    ASSUME NEW c \in Calls, TypeOK, Done(c)
    PROVE  /\ DOMAIN call' = Calls /\ call'[c] = Idle
           /\ \A d \in Calls : d # c => call'[d] = call[d]
  BY Putting DEF Done, TypeOK

\* There are as many waiting codes of a purpose as a number says.
LEMMA ActiveFinite ==
    ASSUME TypeOK, NEW purpose
    PROVE  IsFiniteSet(Active(purpose)) /\ Cardinality(Active(purpose)) \in Nat
  <1>1. DOMAIN codes = 1 .. Len(codes) /\ Len(codes) \in Nat
    BY DEF TypeOK
  <1>2. IsFiniteSet(1 .. Len(codes))
    BY <1>1, FS_Interval
  <1>3. Active(purpose) \subseteq 1 .. Len(codes)
    BY <1>1 DEF Active
  <1>4. IsFiniteSet(Active(purpose))
    BY <1>2, <1>3, FS_Subset
  <1> QED
    BY <1>4, FS_CardinalityType

(***************************************************************************)
(* Steps that leave a part of the invariant alone.                         *)
(***************************************************************************)

Growing == crossed \subseteq crossed'

\* Some handler comes to the step of this name; no handler takes up an operation.
Arriving(step) == \E c \in Calls : call'[c].step = step /\ call'[c] # call[c]
OpsKept == \A c \in Calls : call'[c].op \in {call[c].op, "none"}

LEMMA AloneKept ==
    ASSUME NEW field \in {"lock", "password"}, AloneAt(field), OpsKept
    PROVE  AloneAt(field)'
  BY WritesIs DEF AloneAt, OpsKept

LEMMA LockKept ==
    ASSUME LockInv, Growing, OpsKept, ~Arriving("compare"),
           user'.failed = user.failed, user'.lock = "no" <=> user.lock = "no", misses' = misses
    PROVE  LockInv'
  <1>1. CASE "lock" \in crossed
    BY <1>1 DEF LockInv, Growing
  <1>2. CASE "lock" \notin crossed
    <2>1. AloneAt("lock")'
      BY <1>2, AloneKept DEF LockInv
    <2>2. \A c \in Calls : At(c, "compare")' => call'[c] = call[c] /\ At(c, "compare") /\ Seen(c)' = Seen(c)
      BY DEF Arriving, At, Seen
    <2> QED
      BY <1>2, <2>1, <2>2 DEF LockInv
  <1> QED
    BY <1>1, <1>2

LEMMA PasswordKept ==
    ASSUME PasswordInv, Growing, OpsKept, ~Arriving("write"), user'.verified => user.verified
    PROVE  PasswordInv'
  <1>1. CASE "password" \in crossed
    BY <1>1 DEF PasswordInv, Growing
  <1>2. CASE "password" \notin crossed
    <2>1. AloneAt("password")'
      BY <1>2, AloneKept DEF PasswordInv
    <2>2. \A c \in Calls : At(c, "write")' => At(c, "write")
      BY DEF Arriving, At
    <2> QED
      BY <1>2, <2>1, <2>2 DEF PasswordInv
  <1> QED
    BY <1>1, <1>2

\* The numbers that the invariant adds up.
LEMMA CodeNumbers ==
    ASSUME TypeOK, CodeInv, NEW i \in DOMAIN codes
    PROVE  /\ spent[i] \in Nat /\ rush[i] \in Nat /\ codes[i].attempts \in Nat
           /\ MaxAttempts \in Nat \ {0}
           /\ IsFiniteSet(Listing(i)) /\ Cardinality(Listing(i)) \in Nat
  <1>1. codes[i] \in Codes
    BY DEF TypeOK
  <1>2. IsFiniteSet(Listing(i))
    BY DEF CodeInv
  <1> QED
    BY <1>1, <1>2, FS_CardinalityType, SignInAssumption DEF TypeOK, Codes

LEMMA SendsNumbers ==
    ASSUME TypeOK, SendsInv, NEW purpose \in Purposes
    PROVE  /\ flood[purpose] \in Nat /\ MaxActiveSends \in Nat \ {0}
           /\ IsFiniteSet(Sending(purpose)) /\ Cardinality(Sending(purpose)) \in Nat
           /\ IsFiniteSet(Active(purpose)) /\ Cardinality(Active(purpose)) \in Nat
  <1>1. IsFiniteSet(Sending(purpose))
    BY DEF SendsInv
  <1> QED
    BY <1>1, ActiveFinite, FS_CardinalityType, SignInAssumption DEF TypeOK

LEMMA CodeKept ==
    ASSUME TypeOK, CodeInv, spent' = spent, rush' = rush, DOMAIN codes' = DOMAIN codes,
           \A i \in DOMAIN codes : /\ codes'[i].attempts = codes[i].attempts
                                   /\ codes'[i].state = "live" => codes[i].state = "live",
           \A c \in Calls : call'[c].list \subseteq call[c].list
    PROVE  CodeInv'
  <1> SUFFICES ASSUME NEW i \in DOMAIN codes'
               PROVE  /\ codes'[i].state = "live" => spent'[i] = 0
                      /\ IsFiniteSet(Listing(i)')
                      /\ spent'[i] + Cardinality(Listing(i)') <= rush'[i]
                      /\ codes'[i].attempts + spent'[i] + Cardinality(Listing(i)')
                             < MaxAttempts + rush'[i]
    BY DEF CodeInv
  <1>0. i \in DOMAIN codes /\ codes'[i].attempts = codes[i].attempts
    OBVIOUS
  <1>1. Listing(i)' \subseteq Listing(i)
    BY DEF Listing
  <1>2. /\ IsFiniteSet(Listing(i)') /\ Cardinality(Listing(i)') \in Nat
        /\ Cardinality(Listing(i)') <= Cardinality(Listing(i))
    BY <1>0, <1>1, CodeNumbers, FS_Subset, FS_CardinalityType
  <1>3. /\ codes[i].state = "live" => spent[i] = 0
        /\ spent[i] + Cardinality(Listing(i)) <= rush[i]
        /\ codes[i].attempts + spent[i] + Cardinality(Listing(i)) < MaxAttempts + rush[i]
    BY <1>0 DEF CodeInv
  <1>4. /\ spent[i] \in Nat /\ rush[i] \in Nat /\ codes[i].attempts \in Nat
        /\ MaxAttempts \in Nat /\ Cardinality(Listing(i)) \in Nat
    BY <1>0, CodeNumbers
  <1>5. codes'[i].state = "live" => codes[i].state = "live"
    BY <1>0
  <1> QED
    BY <1>0, <1>2, <1>3, <1>4, <1>5

LEMMA SendsKept ==
    ASSUME TypeOK, SendsInv, flood' = flood,
           \A purpose \in Purposes : Active(purpose)' \subseteq Active(purpose),
           ~Arriving("create")
    PROVE  SendsInv'
  <1> SUFFICES ASSUME NEW purpose \in Purposes
               PROVE  /\ IsFiniteSet(Sending(purpose)')
                      /\ Cardinality(Sending(purpose)') <= flood[purpose]
                      /\ Cardinality(Active(purpose)') + Cardinality(Sending(purpose)')
                             < MaxActiveSends + flood[purpose]
    BY DEF SendsInv
  <1>1. Sending(purpose)' \subseteq Sending(purpose)
    BY DEF Sending, Creating, Arriving, At, Seen
  <1>2. /\ IsFiniteSet(Sending(purpose)') /\ Cardinality(Sending(purpose)') \in Nat
        /\ Cardinality(Sending(purpose)') <= Cardinality(Sending(purpose))
    BY <1>1, SendsNumbers, FS_Subset, FS_CardinalityType
  <1>3. /\ Cardinality(Active(purpose)') \in Nat
        /\ Cardinality(Active(purpose)') <= Cardinality(Active(purpose))
    BY SendsNumbers, FS_Subset, FS_CardinalityType
  <1> QED
    BY <1>2, <1>3, SendsNumbers DEF SendsInv

LEMMA LargerBounds ==
    ASSUME NEW m \in Nat, NEW n \in Nat
    PROVE  /\ Larger(m, n) \in Nat /\ m <= Larger(m, n) /\ n <= Larger(m, n)
           /\ n <= m => Larger(m, n) = m
  BY DEF Larger

(***************************************************************************)
(* Requests.                                                               *)
(***************************************************************************)

LEMMA IdleWrites ==
    ASSUME NEW c \in Calls, TypeOK, At(c, "idle")
    PROVE  call[c].op = "none" /\ call[c].list = {}
  BY CameIs DEF TypeOK, Shaped, At

\* A handler that begins alone at what it writes stays alone there; the others are
\* marked as crossing.
LEMMA AloneBegun ==
    ASSUME NEW c \in Calls, NEW op, NEW field \in {"lock", "password"},
           TypeOK, AloneAt(field), field \notin crossed',
           call'[c].op = op, \A d \in Calls : d # c => call'[d] = call[d],
           \A d \in Calls : Shared(op, call[d].op) \subseteq crossed'
    PROVE  AloneAt(field)'
  <1>1. ASSUME NEW d \in Calls, d # c, field \in Writes(op), field \in Writes(call[d].op)
        PROVE  FALSE
    <2>1. field \in Shared(op, call[d].op)
      BY <1>1 DEF Shared
    <2> QED
      BY <2>1
  <1>2. \A d \in Calls : call'[d].op = IF d = c THEN op ELSE call[d].op
    OBVIOUS
  <1> QED
    BY <1>1, <1>2, WritesIs DEF AloneAt

LEMMA BeginSafe ==
    ASSUME NEW c \in Calls, NEW op, NEW step \in Reading \ {"create"}, NEW pw \in SUBSET Passwords,
           op \in Came(step), step = "write" => ~user.verified,
           IInv, Begin(c, op, step, pw)
    PROVE  IInv'
  <1> DEFINE q == [Idle EXCEPT !.op = op, !.step = step, !.pw = pw, !.seen = {user}]
  <1>1. /\ TypeOK /\ UNCHANGED <<user, codes, misses, spent, rush, flood>> /\ begun' = begun + 1
        /\ Put(c, q) /\ At(c, "idle") /\ Growing
        /\ \A d \in Calls : Shared(op, call[d].op) \subseteq crossed'
    BY DEF IInv, Begin, Growing, Crossing, peaks
  <1>2. q.op = op /\ q.step = step /\ q.list = {} /\ q.seen = {user} /\ q.pw = pw /\ q.guess = 0
    BY DEF Idle
  <1>3. q \in Handlers /\ Shaped(q) /\ op \in Operations
    <2>1. op \in Operations
      BY CameIs DEF Reading, Operations
    <2>2. q \in Handlers
      BY <1>1, <2>1 DEF Idle, Handlers, Reading, TypeOK
    <2> QED
      BY <1>2, <2>1, <2>2 DEF Shaped, Reading
  <1>4. /\ call'[c] = q /\ DOMAIN call' = Calls /\ \A d \in Calls : d # c => call'[d] = call[d]
    BY <1>1, Putting DEF TypeOK
  <1>4a. call'[c].op = op
    BY <1>2, <1>4
  <1>5. TypeOK'
    <2>1. call' \in [Calls -> Handlers'] /\ \A d \in Calls : Shaped(call'[d])
      BY <1>1, <1>3, Putted DEF Handlers
    <2> QED
      BY <1>1, <2>1 DEF TypeOK
  <1>6. Seen(c)' = user
    BY <1>2, <1>4 DEF Seen
  <1>7. \A d \in Calls : d # c => (Seen(d)' = Seen(d) /\ \A s : At(d, s)' <=> At(d, s))
    BY <1>4 DEF Seen, At
  <1>8. CodeInv'
    BY <1>1, <1>2, <1>4, CodeKept DEF IInv
  <1>9. SendsInv'
    <2>1. ~Arriving("create")
      BY <1>2, <1>4 DEF Arriving
    <2> QED
      BY <1>1, <1>5, <2>1, SendsKept DEF IInv, Active
  <1>10. LockInv'
    <2>1. CASE "lock" \in crossed'
      BY <2>1 DEF LockInv
    <2>2. CASE "lock" \notin crossed'
      <3>1. LockInv /\ "lock" \notin crossed
        BY <1>1, <2>2 DEF IInv, Growing
      <3>2. AloneAt("lock")'
        BY <1>1, <1>4, <1>4a, <2>2, <3>1, AloneBegun DEF LockInv
      <3> QED
        BY <1>1, <1>6, <1>7, <3>1, <3>2 DEF LockInv
    <2> QED
      BY <2>1, <2>2
  <1>11. PasswordInv'
    <2>1. CASE "password" \in crossed'
      BY <2>1 DEF PasswordInv
    <2>2. CASE "password" \notin crossed'
      <3>1. PasswordInv /\ "password" \notin crossed
        BY <1>1, <2>2 DEF IInv, Growing
      <3>2. AloneAt("password")'
        BY <1>1, <1>4, <1>4a, <2>2, <3>1, AloneBegun DEF PasswordInv
      <3>3. At(c, "write")' => ~user.verified
        BY <1>2, <1>4 DEF At
      <3> QED
        BY <1>1, <1>7, <3>1, <3>2, <3>3 DEF PasswordInv
    <2> QED
      BY <2>1, <2>2
  <1> QED
    BY <1>5, <1>8, <1>9, <1>10, <1>11 DEF IInv

\* A verification that lists a code is counted in the rush at it.
LEMMA ListSafe ==
    ASSUME NEW c \in Calls, NEW op \in Came("try"), NEW pw \in SUBSET Passwords,
           IInv, ListCodes(c, op, pw)
    PROVE  IInv'
  <1> DEFINE list == Candidates(Purpose(op))
  <1>1. /\ TypeOK /\ UNCHANGED <<user, codes, misses, spent, flood>> /\ begun' = begun + 1
        /\ At(c, "idle") /\ Growing
        /\ rush' = [i \in DOMAIN codes |-> Larger(rush[i], Cardinality(Listing(i)'))]
        /\ \A d \in Calls : Shared(op, call[d].op) \subseteq crossed'
    BY DEF IInv, ListCodes, Growing, Crossing
  <1>2. PICK guess \in {0} \cup list :
           Put(c, [Idle EXCEPT !.op = op, !.step = "try", !.list = list, !.guess = guess, !.pw = pw])
    BY DEF ListCodes
  <1> DEFINE q == [Idle EXCEPT !.op = op, !.step = "try", !.list = list, !.guess = guess, !.pw = pw]
  <1>3. q.op = op /\ q.step = "try" /\ q.list = list
    BY DEF Idle
  <1>4. list \subseteq DOMAIN codes /\ DOMAIN codes \subseteq Nat
    BY <1>1 DEF Candidates, Active, TypeOK
  <1>5. q \in Handlers /\ Shaped(q)
    <2>1. op \in Operations
      BY CameIs DEF Operations
    <2>3. guess \in Nat /\ list \in SUBSET DOMAIN codes
      BY <1>4
    <2> HIDE DEF list
    <2>2. q \in Handlers
      BY <2>1, <2>3 DEF Idle, Handlers
    <2> QED
      BY <1>3, <2>2 DEF Shaped, Reading
  <1>6. /\ call'[c] = q /\ DOMAIN call' = Calls /\ \A d \in Calls : d # c => call'[d] = call[d]
    BY <1>1, <1>2, Putting DEF TypeOK
  <1>6a. call'[c].op = op
    BY <1>3, <1>6
  <1>7. ASSUME NEW i \in DOMAIN codes
        PROVE  /\ IsFiniteSet(Listing(i)') /\ Cardinality(Listing(i)') \in Nat
               /\ i \notin list => Cardinality(Listing(i)') = Cardinality(Listing(i))
               /\ rush'[i] \in Nat /\ rush[i] <= rush'[i] /\ Cardinality(Listing(i)') <= rush'[i]
    <2>1. Listing(i)' = IF i \in list THEN Listing(i) \cup {c} ELSE Listing(i)
      <3>1. call[c].list = {}
        BY <1>1, IdleWrites
      <3> QED
        BY <1>3, <1>6, <3>1 DEF Listing
    <2>2. IsFiniteSet(Listing(i)') /\ Cardinality(Listing(i)') \in Nat
      <3>1. IsFiniteSet(Listing(i))
        BY CodeNumbers DEF IInv
      <3>2. IsFiniteSet(Listing(i) \cup {c})
        BY <3>1, FS_AddElement
      <3>3. IsFiniteSet(Listing(i)')
        BY <2>1, <3>1, <3>2
      <3> QED
        BY <3>3, FS_CardinalityType
    <2>3. rush'[i] = Larger(rush[i], Cardinality(Listing(i)')) /\ rush[i] \in Nat
      BY <1>1 DEF TypeOK
    <2> QED
      BY <2>1, <2>2, <2>3, LargerBounds
  <1>7a. TypeOK'
    <2>1. call' \in [Calls -> Handlers'] /\ \A d \in Calls : Shaped(call'[d])
      BY <1>1, <1>2, <1>5, Putted DEF Handlers
    <2>2. rush' \in [DOMAIN codes' -> Nat]
      BY <1>1, <1>7
    <2> QED
      BY <1>1, <2>1, <2>2 DEF TypeOK
  <1>8. \A d \in Calls : d # c => (Seen(d)' = Seen(d) /\ \A s : At(d, s)' <=> At(d, s))
    BY <1>6 DEF Seen, At
  <1>9. CodeInv'
    <2> SUFFICES ASSUME NEW i \in DOMAIN codes
                 PROVE  /\ codes[i].state = "live" => spent[i] = 0
                        /\ IsFiniteSet(Listing(i)')
                        /\ spent[i] + Cardinality(Listing(i)') <= rush'[i]
                        /\ codes[i].attempts + spent[i] + Cardinality(Listing(i)')
                               < MaxAttempts + rush'[i]
      BY <1>1 DEF CodeInv
    <2>1. /\ codes[i].state = "live" => spent[i] = 0
          /\ spent[i] + Cardinality(Listing(i)) <= rush[i]
          /\ codes[i].attempts + spent[i] + Cardinality(Listing(i)) < MaxAttempts + rush[i]
      BY DEF IInv, CodeInv
    <2>2. CASE i \notin list
      BY <1>1, <1>7, <2>1, <2>2, CodeNumbers DEF IInv
    <2>3. CASE i \in list
      <3>1. codes[i].state = "live" /\ codes[i].attempts < MaxAttempts
        BY <2>3 DEF Candidates, Active
      <3> QED
        BY <1>1, <1>7, <2>1, <3>1, CodeNumbers DEF IInv
    <2> QED
      BY <2>2, <2>3
  <1>10. SendsInv'
    <2>1. ~Arriving("create")
      BY <1>3, <1>6 DEF Arriving
    <2> QED
      BY <1>1, <2>1, SendsKept DEF IInv, Active
  <1>11. LockInv'
    <2>1. CASE "lock" \in crossed'
      BY <2>1 DEF LockInv
    <2>2. CASE "lock" \notin crossed'
      <3>1. LockInv /\ "lock" \notin crossed
        BY <1>1, <2>2 DEF IInv, Growing
      <3>2. AloneAt("lock")'
        BY <1>1, <1>6, <1>6a, <2>2, <3>1, AloneBegun DEF LockInv
      <3>3. ~At(c, "compare")'
        BY <1>3, <1>6 DEF At
      <3> QED
        BY <1>1, <1>8, <3>1, <3>2, <3>3 DEF LockInv
    <2> QED
      BY <2>1, <2>2
  <1>12. PasswordInv'
    <2>1. CASE "password" \in crossed'
      BY <2>1 DEF PasswordInv
    <2>2. CASE "password" \notin crossed'
      <3>1. PasswordInv /\ "password" \notin crossed
        BY <1>1, <2>2 DEF IInv, Growing
      <3>2. AloneAt("password")'
        BY <1>1, <1>6, <1>6a, <2>2, <3>1, AloneBegun DEF PasswordInv
      <3>3. ~At(c, "write")'
        BY <1>3, <1>6 DEF At
      <3> QED
        BY <1>1, <1>8, <3>1, <3>2, <3>3 DEF PasswordInv
    <2> QED
      BY <2>1, <2>2
  <1> QED
    BY <1>7a, <1>9, <1>10, <1>11, <1>12 DEF IInv

(***************************************************************************)
(* Steps of a handler that change neither codes nor the lock.              *)
(***************************************************************************)

Quiet ==
    /\ OpsKept /\ Growing
    /\ ~Arriving("compare") /\ ~Arriving("write") /\ ~Arriving("create")
    /\ \A c \in Calls : call'[c].list \subseteq call[c].list

LEMMA QuietSafe ==
    ASSUME IInv, TypeOK', Quiet, UNCHANGED <<codes, spent, misses, rush, flood>>, user'.failed = user.failed,
           user'.lock = "no" <=> user.lock = "no", user'.verified => user.verified
    PROVE  IInv'
  <1>1. CodeInv'
    BY CodeKept DEF IInv, Quiet
  <1>2. SendsInv'
    BY SendsKept DEF IInv, Quiet, Active
  <1>3. LockInv' /\ PasswordInv'
    BY LockKept, PasswordKept DEF IInv, Quiet
  <1> QED
    BY <1>1, <1>2, <1>3 DEF IInv

LEMMA DoneQuiet ==
    ASSUME NEW c \in Calls, TypeOK, Done(c), Growing
    PROVE  Quiet
  <1>1. call'[c] = Idle /\ \A d \in Calls : d # c => call'[d] = call[d]
    BY DoneIs
  <1> QED
    BY <1>1, IdleIs DEF Quiet, OpsKept, Arriving

LEMMA DoneTyped ==
    ASSUME NEW c \in Calls, TypeOK, Done(c), DOMAIN codes \subseteq DOMAIN codes'
    PROVE  call' \in [Calls -> Handlers'] /\ \A d \in Calls : Shaped(call'[d])
  <1>1. Idle \in Handlers' /\ Shaped(Idle)
    BY IdleIs DEF Handlers, Idle
  <1> QED
    BY <1>1, Putted DEF Done

LEMMA StepQuiet ==
    ASSUME NEW c \in Calls, TypeOK, Step(c, "count"), Growing
    PROVE  Quiet
  <1>1. /\ call'[c].op = call[c].op /\ call'[c].step = "count" /\ call'[c].list = call[c].list
        /\ \A d \in Calls : d # c => call'[d] = call[d]
    BY Stepping
  <1> QED
    BY <1>1 DEF Quiet, OpsKept, Arriving

LEMMA StepTyped ==
    ASSUME NEW c \in Calls, NEW step \in Reading, TypeOK, Step(c, step), call[c].step \in Reading,
           call[c].op \in Came(step), codes' = codes
    PROVE  call' \in [Calls -> Handlers'] /\ \A d \in Calls : Shaped(call'[d])
  <1> DEFINE q == [call[c] EXCEPT !.step = step]
  <1>1. q \in Handlers /\ Shaped(q)
    BY StepShaped
  <1>2. q \in Handlers'
    BY <1>1 DEF Handlers
  <1> QED
    BY <1>1, <1>2, Putted DEF Step

\* The end of a handler that found nothing to do, or left no trace here.
LEMMA EndSafe ==
    ASSUME NEW c \in Calls, IInv, Done(c), UNCHANGED <<user, codes, begun, history>>
    PROVE  IInv'
  <1>1. TypeOK /\ Growing
    BY DEF IInv, Growing, history, peaks
  <1>2. Quiet
    BY <1>1, DoneQuiet
  <1>3. TypeOK'
    BY <1>1, DoneTyped DEF TypeOK, history, peaks
  <1> QED
    BY <1>2, <1>3, QuietSafe DEF history, peaks

\* Steps that write fields of the row other than these.
LEMMA RowSafe ==
    ASSUME NEW c \in Calls, IInv, Done(c) \/ (Step(c, "count") /\ call[c].step \in Reading /\ call[c].op \in Came("count")),
           UNCHANGED <<codes, begun, history>>, user' \in Rows,
           user'.failed = user.failed, user'.lock = user.lock, user'.verified = user.verified
    PROVE  IInv'
  <1>1. TypeOK /\ Growing
    BY DEF IInv, Growing, history, peaks
  <1>2. Quiet
    BY <1>1, DoneQuiet, StepQuiet
  <1>3. call' \in [Calls -> Handlers'] /\ \A d \in Calls : Shaped(call'[d])
    BY <1>1, DoneTyped, StepTyped DEF Reading
  <1>4. TypeOK'
    BY <1>1, <1>3 DEF TypeOK, history, peaks
  <1> QED
    BY <1>2, <1>4, QuietSafe DEF history, peaks

LEMMA SignUpSafe ==
    ASSUME NEW c \in Calls, IInv, WriteSignUp(c)
    PROVE  IInv'
  <1>1. TypeOK /\ call[c].step = "write" /\ call[c] \in Handlers /\ call[c].op \in Came("write")
    BY DEF IInv, TypeOK, WriteSignUp, At, Shaped
  <1>2. call[c].op \in Came("count") /\ call[c].step \in Reading
    BY <1>1, CameIs DEF Reading
  <1>3. CASE user.exists /\ ~Seen(c).exists
    BY <1>3, EndSafe DEF WriteSignUp
  <1>4. CASE ~(user.exists /\ ~Seen(c).exists)
    <2>1. user' = [user EXCEPT !.exists = TRUE, !.password = call[c].pw] /\ Step(c, "count")
      BY <1>4 DEF WriteSignUp
    <2>2. user' \in Rows /\ user'.failed = user.failed /\ user'.lock = user.lock /\ user'.verified = user.verified
      BY <1>1, <2>1 DEF TypeOK, Rows, Handlers
    <2> QED
      BY <1>2, <2>1, <2>2, RowSafe DEF WriteSignUp
  <1> QED
    BY <1>3, <1>4

LEMMA FactorSafe ==
    ASSUME NEW c \in Calls, IInv, TurnFactorOn(c) \/ TurnFactorOff(c) \/ LetIn(c)
    PROVE  IInv'
  <1>1. /\ Done(c) /\ UNCHANGED <<codes, begun, history>>
        /\ \/ user' = user \/ user' = [user EXCEPT !.factor = TRUE] \/ user' = [user EXCEPT !.factor = FALSE]
    BY DEF TurnFactorOn, TurnFactorOff, LetIn, Accepted
  <1>2. user \in Rows
    BY DEF IInv, TypeOK
  <1>3. user' \in Rows /\ user'.failed = user.failed /\ user'.lock = user.lock /\ user'.verified = user.verified
    BY <1>1, <1>2 DEF Rows
  <1> QED
    BY <1>1, <1>3, RowSafe

LEMMA LockExpiresSafe ==
    ASSUME IInv, LockExpires
    PROVE  IInv'
  <1>1. user \in Rows /\ user.lock = "on" /\ user' = [user EXCEPT !.lock = "over"]
        /\ UNCHANGED <<codes, call, begun, history>>
    BY DEF IInv, TypeOK, LockExpires
  <1>2. /\ user' \in Rows /\ user'.failed = user.failed /\ user'.verified = user.verified
        /\ user'.lock = "over"
    BY <1>1 DEF Rows
  <1>3. TypeOK'
    BY <1>1, <1>2 DEF IInv, TypeOK, Handlers, history, peaks
  <1>4. Quiet
    BY <1>1 DEF Quiet, OpsKept, Growing, Arriving, history, peaks
  <1> QED
    BY <1>1, <1>2, <1>3, <1>4, QuietSafe DEF history, peaks

(***************************************************************************)
(* createOtp and consumeOtp.                                               *)
(***************************************************************************)

\* A send that is counted for is one of the flood, and found room.
LEMMA CountSafe ==
    ASSUME NEW c \in Calls, IInv, CountActive(c)
    PROVE  IInv'
  <1> DEFINE mine == Sent(call[c].op, Seen(c))
  <1>1. /\ TypeOK /\ call[c].step = "count" /\ call[c].op \in Came("create")
        /\ UNCHANGED <<user, codes, begun, misses, spent, rush, crossed>> /\ Growing
    BY CameIs DEF IInv, TypeOK, CountActive, At, Shaped, Growing
  <1>2. CASE ~Room(mine)
    <2>1. Done(c) /\ UNCHANGED flood
      BY <1>2 DEF CountActive
    <2> QED
      BY <1>1, <2>1, EndSafe DEF history, peaks
  <1>3. CASE Room(mine)
    <2>1. /\ Step(c, "create")
          /\ flood' = [purpose \in Purposes |->
                          Larger(flood[purpose], Cardinality(Sending(purpose)'))]
      BY <1>3 DEF CountActive
    <2>3. /\ DOMAIN call' = Calls
          /\ call'[c].op = call[c].op /\ call'[c].step = "create" /\ call'[c].list = call[c].list
          /\ Seen(c)' = Seen(c)
          /\ \A d \in Calls : d # c => call'[d] = call[d]
      BY <1>1, <2>1, Stepping
    <2>4. ASSUME NEW purpose \in Purposes
          PROVE  /\ IsFiniteSet(Sending(purpose)') /\ Cardinality(Sending(purpose)') \in Nat
                 /\ purpose # mine => Cardinality(Sending(purpose)') = Cardinality(Sending(purpose))
                 /\ flood'[purpose] \in Nat /\ flood[purpose] <= flood'[purpose]
                 /\ Cardinality(Sending(purpose)') <= flood'[purpose]
      <3>1. \A d \in Calls : d # c => (Creating(d, purpose)' <=> Creating(d, purpose))
        BY <2>3 DEF Creating, At, Seen
      <3>2. ~Creating(c, purpose) /\ (Creating(c, purpose)' <=> purpose = mine)
        BY <1>1, <2>3 DEF Creating, At
      <3>3. Sending(purpose)' = IF purpose = mine THEN Sending(purpose) \cup {c} ELSE Sending(purpose)
        BY <3>1, <3>2 DEF Sending
      <3>4. IsFiniteSet(Sending(purpose)') /\ Cardinality(Sending(purpose)') \in Nat
        <4>1. IsFiniteSet(Sending(purpose))
          BY SendsNumbers DEF IInv
        <4>2. IsFiniteSet(Sending(purpose) \cup {c})
          BY <4>1, FS_AddElement
        <4>3. IsFiniteSet(Sending(purpose)')
          BY <3>3, <4>1, <4>2
        <4> QED
          BY <4>3, FS_CardinalityType
      <3>5. flood'[purpose] = Larger(flood[purpose], Cardinality(Sending(purpose)'))
        BY <2>1
      <3>6. flood[purpose] \in Nat
        BY <1>1 DEF TypeOK
      <3>7. /\ flood'[purpose] \in Nat /\ flood[purpose] <= flood'[purpose]
            /\ Cardinality(Sending(purpose)') <= flood'[purpose]
        BY <3>4, <3>5, <3>6, LargerBounds
      <3> QED
        BY <3>3, <3>4, <3>7
    <2>5. TypeOK'
      <3>1. call' \in [Calls -> Handlers'] /\ \A d \in Calls : Shaped(call'[d])
        BY <1>1, <2>1, StepTyped DEF Reading
      <3>2. flood' \in [Purposes -> Nat]
        BY <2>1, <2>4
      <3> QED
        BY <1>1, <3>1, <3>2 DEF TypeOK
    <2>6. LockInv' /\ PasswordInv'
      <3>1. OpsKept /\ ~Arriving("compare") /\ ~Arriving("write")
        BY <2>3 DEF OpsKept, Arriving
      <3> QED
        BY <1>1, <3>1, LockKept, PasswordKept DEF IInv
    <2>7. CodeInv'
      BY <1>1, <2>3, CodeKept DEF IInv
    <2>8. SendsInv'
      <3> SUFFICES ASSUME NEW purpose \in Purposes
                   PROVE  Cardinality(Active(purpose)') + Cardinality(Sending(purpose)')
                             < MaxActiveSends + flood'[purpose]
        BY <2>4 DEF SendsInv
      <3>1. Active(purpose)' = Active(purpose)
        BY <1>1 DEF Active
      <3>2. Cardinality(Active(purpose)) + Cardinality(Sending(purpose))
                < MaxActiveSends + flood[purpose]
        BY DEF IInv, SendsInv
      <3>3. purpose = mine => Cardinality(Active(purpose)) < MaxActiveSends
        BY <1>3 DEF Room
      <3> QED
        BY <1>1, <2>4, <3>1, <3>2, <3>3, SendsNumbers DEF IInv
    <2> QED
      BY <2>5, <2>6, <2>7, <2>8 DEF IInv
  <1> QED
    BY <1>2, <1>3

LEMMA CreateSafe ==
    ASSUME NEW c \in Calls, IInv, CreateCode(c)
    PROVE  IInv'
  <1> DEFINE mine == Sent(call[c].op, Seen(c))
             new == [purpose |-> mine, state |-> "live", attempts |-> 0]
             n == Len(codes) + 1
  <1>1. /\ TypeOK /\ call[c].step = "create" /\ Done(c)
        /\ codes' = Append(codes, new) /\ spent' = Append(spent, 0) /\ rush' = Append(rush, 0)
        /\ UNCHANGED <<user, begun, misses, flood, crossed>>
    BY DEF IInv, CreateCode, At
  <1>2. new \in Codes
    BY PurposeIs DEF Codes
  <1>3. Len(codes) \in Nat /\ DOMAIN codes = 1 .. Len(codes) /\ codes \in Seq(Codes)
    BY <1>1 DEF TypeOK
  <1>4. /\ codes' \in Seq(Codes) /\ DOMAIN codes' = 1 .. n /\ codes'[n] = new
        /\ \A i \in DOMAIN codes : codes'[i] = codes[i]
    <2> HIDE DEF new
    <2> QED
      BY <1>1, <1>2, <1>3
  <1>5. ASSUME NEW f \in [DOMAIN codes -> Nat]
        PROVE  /\ Append(f, 0) \in [DOMAIN codes' -> Nat] /\ Append(f, 0)[n] = 0
               /\ \A i \in DOMAIN codes : Append(f, 0)[i] = f[i]
    <2>1. f \in Seq(Nat) /\ Len(f) = Len(codes)
      <3>1. f \in [1 .. Len(codes) -> Nat]
        BY <1>3
      <3> QED
        BY <1>3, <3>1
    <2> DEFINE g == Append(f, 0)
    <2>2. g \in Seq(Nat) /\ Len(g) = n /\ g[n] = 0
      BY <1>3, <2>1
    <2>3. \A i \in 1 .. Len(codes) : g[i] = f[i]
      BY <1>3, <2>1
    <2>4. g \in [1 .. n -> Nat]
      <3> HIDE DEF g
      <3> QED
        BY <2>2
    <2> QED
      BY <1>3, <1>4, <2>2, <2>3, <2>4
  <1>6. /\ spent' \in [DOMAIN codes' -> Nat] /\ spent'[n] = 0
        /\ rush' \in [DOMAIN codes' -> Nat] /\ rush'[n] = 0
        /\ \A i \in DOMAIN codes : spent'[i] = spent[i] /\ rush'[i] = rush[i]
    <2>1. spent \in [DOMAIN codes -> Nat] /\ rush \in [DOMAIN codes -> Nat]
      BY <1>1 DEF TypeOK
    <2> QED
      BY <1>1, <1>5, <2>1
  <1>7. call'[c] = Idle /\ DOMAIN call' = Calls /\ \A d \in Calls : d # c => call'[d] = call[d]
    BY <1>1, DoneIs
  <1>8. Quiet
    BY <1>1, DoneQuiet DEF Growing
  <1>9. TypeOK'
    <2>1. call' \in [Calls -> Handlers'] /\ \A d \in Calls : Shaped(call'[d])
      BY <1>1, <1>3, <1>4, DoneTyped
    <2> QED
      BY <1>1, <1>4, <1>6, <2>1 DEF TypeOK
  <1>10. LockInv' /\ PasswordInv'
    BY <1>1, <1>8, LockKept, PasswordKept DEF IInv, Quiet
  <1>11. CodeInv'
    <2> SUFFICES ASSUME NEW i \in DOMAIN codes'
                 PROVE  /\ codes'[i].state = "live" => spent'[i] = 0
                        /\ IsFiniteSet(Listing(i)')
                        /\ spent'[i] + Cardinality(Listing(i)') <= rush'[i]
                        /\ codes'[i].attempts + spent'[i] + Cardinality(Listing(i)')
                               < MaxAttempts + rush'[i]
      BY DEF CodeInv
    <2>1. Listing(i)' \subseteq Listing(i)
      BY <1>7, IdleIs DEF Listing
    <2>2. CASE i = n
      <3>1. \A d \in Calls : call[d].list \subseteq DOMAIN codes
        BY <1>1 DEF TypeOK, Handlers
      <3>2. n \notin DOMAIN codes
        BY <1>3
      <3>3. Listing(i)' = {}
        BY <2>1, <2>2, <3>1, <3>2 DEF Listing
      <3>4. spent'[i] = 0 /\ rush'[i] = 0 /\ codes'[i].attempts = 0
        BY <1>4, <1>6, <2>2
      <3> QED
        BY <3>3, <3>4, FS_EmptySet, SignInAssumption
    <2>3. CASE i # n
      <3>1. /\ i \in DOMAIN codes /\ codes'[i] = codes[i] /\ spent'[i] = spent[i]
            /\ rush'[i] = rush[i]
        BY <1>3, <1>4, <1>6, <2>3
      <3>2. /\ IsFiniteSet(Listing(i)') /\ Cardinality(Listing(i)') \in Nat
            /\ Cardinality(Listing(i)') <= Cardinality(Listing(i))
        BY <1>1, <2>1, <3>1, CodeNumbers, FS_Subset, FS_CardinalityType DEF IInv
      <3>3. /\ codes[i].state = "live" => spent[i] = 0
            /\ spent[i] + Cardinality(Listing(i)) <= rush[i]
            /\ codes[i].attempts + spent[i] + Cardinality(Listing(i)) < MaxAttempts + rush[i]
        BY <3>1 DEF IInv, CodeInv
      <3>4. /\ spent[i] \in Nat /\ rush[i] \in Nat /\ codes[i].attempts \in Nat
            /\ MaxAttempts \in Nat /\ Cardinality(Listing(i)) \in Nat
        BY <3>1, CodeNumbers DEF IInv
      <3> QED
        BY <3>1, <3>2, <3>3, <3>4
    <2> QED
      BY <2>2, <2>3
  <1>12. SendsInv'
    <2> SUFFICES ASSUME NEW purpose \in Purposes
                 PROVE  /\ IsFiniteSet(Sending(purpose)')
                        /\ Cardinality(Sending(purpose)') <= flood[purpose]
                        /\ Cardinality(Active(purpose)') + Cardinality(Sending(purpose)')
                               < MaxActiveSends + flood[purpose]
      BY <1>1 DEF SendsInv
    <2>1. /\ Cardinality(Sending(purpose)) <= flood[purpose]
          /\ Cardinality(Active(purpose)) + Cardinality(Sending(purpose))
                 < MaxActiveSends + flood[purpose]
      BY DEF IInv, SendsInv
    <2>2. Sending(purpose)' = Sending(purpose) \ {c}
      BY <1>7, IdleIs DEF Sending, Creating, At, Seen
    <2>3. CASE purpose # mine
      <3>1. Active(purpose)' = Active(purpose)
        <4>1. codes'[n].purpose # purpose
          BY <1>4, <2>3
        <4> QED
          BY <1>3, <1>4, <4>1 DEF Active
      <3>2. Sending(purpose)' = Sending(purpose)
        BY <2>2, <2>3 DEF Sending, Creating
      <3> QED
        BY <1>1, <2>1, <3>1, <3>2, SendsNumbers DEF IInv
    <2>4. CASE purpose = mine
      <3>1. c \in Sending(purpose)
        BY <1>1, <2>4 DEF Sending, Creating, At
      <3>2. Active(purpose)' = Active(purpose) \cup {n} /\ n \notin Active(purpose)
        <4>1. codes'[n].purpose = purpose /\ codes'[n].state = "live"
          BY <1>4, <2>4
        <4> HIDE DEF mine
        <4> QED
          BY <1>3, <1>4, <4>1 DEF Active
      <3>3. Cardinality(Active(purpose)') = Cardinality(Active(purpose)) + 1
        BY <1>1, <3>2, ActiveFinite, FS_AddElement
      <3>4. /\ IsFiniteSet(Sending(purpose)')
            /\ Cardinality(Sending(purpose)') = Cardinality(Sending(purpose)) - 1
        BY <1>1, <2>2, <3>1, SendsNumbers, FS_RemoveElement DEF IInv
      <3> QED
        BY <1>1, <2>1, <3>3, <3>4, SendsNumbers DEF IInv
    <2> QED
      BY <2>3, <2>4
  <1> QED
    BY <1>9, <1>10, <1>11, <1>12 DEF IInv

\* What is done to the one code that a step is about.
LEMMA OneCode ==
    ASSUME TypeOK, NEW i \in DOMAIN codes, NEW q \in Codes, codes' = [codes EXCEPT ![i] = q],
           q.purpose = codes[i].purpose, q.state = "live" => codes[i].state = "live"
    PROVE  /\ codes' \in Seq(Codes) /\ DOMAIN codes' = DOMAIN codes /\ codes'[i] = q
           /\ \A j \in DOMAIN codes : j # i => codes'[j] = codes[j]
           /\ \A purpose : Active(purpose)' \subseteq Active(purpose)
  <1>1. codes \in Seq(Codes) /\ DOMAIN codes = 1 .. Len(codes) /\ Len(codes) \in Nat
    BY DEF TypeOK
  <1>2. codes' \in Seq(Codes) /\ DOMAIN codes' = DOMAIN codes
    BY <1>1
  <1>3. codes'[i] = q /\ \A j \in DOMAIN codes : j # i => codes'[j] = codes[j]
    BY <1>1
  <1> QED
    BY <1>2, <1>3 DEF Active

LEMMA CodeExpiresSafe ==
    ASSUME NEW i \in DOMAIN codes, IInv, CodeExpires(i)
    PROVE  IInv'
  <1> DEFINE q == [codes[i] EXCEPT !.state = "expired"]
  <1>1. /\ TypeOK /\ codes[i] \in Codes /\ codes' = [codes EXCEPT ![i] = q]
        /\ UNCHANGED <<user, call, begun, history>>
    BY DEF IInv, TypeOK, CodeExpires
  <1>2. /\ q \in Codes /\ q.purpose = codes[i].purpose /\ q.state = "expired"
        /\ q.attempts = codes[i].attempts
    BY <1>1 DEF Codes
  <1>3. /\ codes' \in Seq(Codes) /\ DOMAIN codes' = DOMAIN codes /\ codes'[i] = q
        /\ \A j \in DOMAIN codes : j # i => codes'[j] = codes[j]
        /\ \A purpose : Active(purpose)' \subseteq Active(purpose)
    <2> HIDE DEF q
    <2> QED
      BY <1>1, <1>2, OneCode
  <1>4. TypeOK'
    BY <1>1, <1>3 DEF TypeOK, Handlers, history, peaks
  <1>5. Quiet
    BY <1>1 DEF Quiet, OpsKept, Growing, Arriving, history, peaks
  <1>6. LockInv' /\ PasswordInv'
    BY <1>1, <1>5, LockKept, PasswordKept DEF IInv, Quiet, history, peaks
  <1>7. SendsInv'
    BY <1>1, <1>3, <1>4, <1>5, SendsKept DEF IInv, Quiet, history, peaks
  <1>8. CodeInv'
    <2>1. \A j \in DOMAIN codes :
             codes'[j].attempts = codes[j].attempts /\ (codes'[j].state = "live" => codes[j].state = "live")
      BY <1>2, <1>3
    <2> QED
      BY <1>1, <1>3, <1>5, <2>1, CodeKept DEF IInv, Quiet, history, peaks
  <1> QED
    BY <1>4, <1>6, <1>7, <1>8 DEF IInv

\* Looking at a code takes a verification off the ones that still may.
LEMMA TrySafe ==
    ASSUME NEW c \in Calls, IInv, TryCode(c)
    PROVE  IInv'
  <1>1. /\ TypeOK /\ call[c].step = "try" /\ call[c] \in Handlers /\ Shaped(call[c])
        /\ UNCHANGED <<user, begun, misses, rush, flood, crossed>> /\ Growing
    BY DEF IInv, TypeOK, TryCode, At, Growing, peaks
  <1>2. PICK i \in call[c].list :
           \/ /\ codes' = [codes EXCEPT ![i].state = "used"]
              /\ spent' = [spent EXCEPT ![i] = @ + 1]
              /\ Put(c, [call[c] EXCEPT !.step = "accept", !.list = {}])
           \/ /\ codes' = [codes EXCEPT ![i].attempts = @ + 1]
              /\ Put(c, [call[c] EXCEPT !.list = @ \ {i}])
              /\ UNCHANGED spent
    BY DEF TryCode
  <1>3. i \in DOMAIN codes /\ codes[i] \in Codes /\ spent \in [DOMAIN codes -> Nat]
    BY <1>1 DEF Handlers, TypeOK
  <1>4. PICK q, r :
           /\ codes' = [codes EXCEPT ![i] = q] /\ Put(c, r)
           /\ q \in Codes /\ q.purpose = codes[i].purpose /\ (q.state = "live" => codes[i].state = "live")
           /\ r \in Handlers /\ Shaped(r) /\ r.op = call[c].op /\ r.step \in {"try", "accept"}
           /\ r.list \subseteq call[c].list \ {i}
           /\ \/ /\ q.state = "used" /\ q.attempts = codes[i].attempts
                 /\ spent' = [spent EXCEPT ![i] = @ + 1]
              \/ /\ q.attempts = codes[i].attempts + 1 /\ spent' = spent
    <2>1. CASE /\ codes' = [codes EXCEPT ![i].state = "used"]
               /\ spent' = [spent EXCEPT ![i] = @ + 1]
               /\ Put(c, [call[c] EXCEPT !.step = "accept", !.list = {}])
      <3> DEFINE q == [codes[i] EXCEPT !.state = "used"]
                 r == [call[c] EXCEPT !.step = "accept", !.list = {}]
      <3>1. q \in Codes /\ q.purpose = codes[i].purpose /\ q.state = "used" /\ q.attempts = codes[i].attempts
        BY <1>3 DEF Codes
      <3>2. r \in Handlers /\ r.op = call[c].op /\ r.step = "accept" /\ r.list = {}
        BY <1>1 DEF Handlers
      <3>3. Shaped(r)
        BY <1>1, <3>2, CameIs DEF Shaped, Reading
      <3>4. codes' = [codes EXCEPT ![i] = q] /\ Put(c, r)
        BY <2>1
      <3> HIDE DEF q, r
      <3> QED
        BY <2>1, <3>1, <3>2, <3>3, <3>4
    <2>2. CASE /\ codes' = [codes EXCEPT ![i].attempts = @ + 1]
               /\ Put(c, [call[c] EXCEPT !.list = @ \ {i}])
               /\ UNCHANGED spent
      <3> DEFINE q == [codes[i] EXCEPT !.attempts = @ + 1]
                 r == [call[c] EXCEPT !.list = @ \ {i}]
      <3>1. /\ q \in Codes /\ q.purpose = codes[i].purpose /\ q.state = codes[i].state
            /\ q.attempts = codes[i].attempts + 1
        BY <1>3 DEF Codes
      <3>2. r \in Handlers /\ r.op = call[c].op /\ r.step = "try" /\ r.list = call[c].list \ {i}
        BY <1>1 DEF Handlers
      <3>3. Shaped(r)
        BY <1>1, <3>2, CameIs DEF Shaped, Reading
      <3>4. codes' = [codes EXCEPT ![i] = q] /\ Put(c, r)
        BY <2>2
      <3> HIDE DEF q, r
      <3> QED
        BY <2>2, <3>1, <3>2, <3>3, <3>4
    <2> QED
      BY <1>2, <2>1, <2>2
  <1>5. /\ codes' \in Seq(Codes) /\ DOMAIN codes' = DOMAIN codes /\ codes'[i] = q
        /\ \A j \in DOMAIN codes : j # i => codes'[j] = codes[j]
        /\ \A purpose : Active(purpose)' \subseteq Active(purpose)
    BY <1>1, <1>3, <1>4, OneCode
  <1>6. call'[c] = r /\ DOMAIN call' = Calls /\ \A d \in Calls : d # c => call'[d] = call[d]
    BY <1>1, <1>4, Putting DEF TypeOK
  <1>7. /\ spent' \in [DOMAIN codes -> Nat] /\ \A j \in DOMAIN codes : j # i => spent'[j] = spent[j]
        /\ (spent'[i] = spent[i] /\ q.attempts = codes[i].attempts + 1)
              \/ (spent'[i] = spent[i] + 1 /\ q.state = "used" /\ q.attempts = codes[i].attempts)
    BY <1>3, <1>4
  <1>8. TypeOK'
    <2>1. r \in Handlers'
      BY <1>4, <1>5 DEF Handlers
    <2>2. call' \in [Calls -> Handlers'] /\ \A d \in Calls : Shaped(call'[d])
      BY <1>1, <1>4, <1>5, <2>1, Putted
    <2> QED
      BY <1>1, <1>5, <1>7, <2>2 DEF TypeOK
  <1>9. Quiet
    BY <1>1, <1>4, <1>6 DEF Quiet, OpsKept, Arriving
  <1>10. LockInv' /\ PasswordInv'
    BY <1>1, <1>9, LockKept, PasswordKept DEF IInv, Quiet
  <1>11. SendsInv'
    BY <1>1, <1>5, <1>8, <1>9, SendsKept DEF IInv, Quiet
  <1>12. CodeInv'
    <2> SUFFICES ASSUME NEW j \in DOMAIN codes
                 PROVE  /\ codes'[j].state = "live" => spent'[j] = 0
                        /\ IsFiniteSet(Listing(j)')
                        /\ spent'[j] + Cardinality(Listing(j)') <= rush[j]
                        /\ codes'[j].attempts + spent'[j] + Cardinality(Listing(j)')
                               < MaxAttempts + rush[j]
      BY <1>1, <1>5 DEF CodeInv
    <2>1. /\ codes[j].state = "live" => spent[j] = 0
          /\ spent[j] + Cardinality(Listing(j)) <= rush[j]
          /\ codes[j].attempts + spent[j] + Cardinality(Listing(j)) < MaxAttempts + rush[j]
      BY DEF IInv, CodeInv
    <2>2. Listing(j)' \subseteq Listing(j)
      BY <1>4, <1>6 DEF Listing
    <2>3. CASE j # i
      <3>1. /\ IsFiniteSet(Listing(j)') /\ Cardinality(Listing(j)') \in Nat
            /\ Cardinality(Listing(j)') <= Cardinality(Listing(j))
        BY <1>1, <2>2, CodeNumbers, FS_Subset, FS_CardinalityType DEF IInv
      <3>2. codes'[j] = codes[j] /\ spent'[j] = spent[j]
        BY <1>5, <1>7, <2>3
      <3>3. /\ spent[j] \in Nat /\ rush[j] \in Nat /\ codes[j].attempts \in Nat
            /\ MaxAttempts \in Nat /\ Cardinality(Listing(j)) \in Nat
        BY CodeNumbers DEF IInv
      <3> QED
        BY <2>1, <3>1, <3>2, <3>3
    <2>4. CASE j = i
      <3>1. c \in Listing(j) /\ Listing(j)' = Listing(j) \ {c}
        BY <1>4, <1>6, <2>4 DEF Listing
      <3>2. /\ IsFiniteSet(Listing(j)') /\ Cardinality(Listing(j)') \in Nat
            /\ Cardinality(Listing(j)') = Cardinality(Listing(j)) - 1
        BY <1>1, <3>1, CodeNumbers, FS_RemoveElement, FS_CardinalityType DEF IInv
      <3>3. codes'[j].state = "live" => codes[j].state = "live" /\ spent'[j] = spent[j]
        BY <1>4, <1>5, <1>7, <2>4
      <3>4. /\ spent[j] \in Nat /\ rush[j] \in Nat /\ codes[j].attempts \in Nat
            /\ MaxAttempts \in Nat /\ Cardinality(Listing(j)) \in Nat
        BY CodeNumbers DEF IInv
      <3>5. \/ spent'[j] = spent[j] /\ codes'[j].attempts = codes[j].attempts + 1
            \/ /\ spent'[j] = spent[j] + 1 /\ codes'[j].attempts = codes[j].attempts
               /\ codes'[j].state = "used"
        BY <1>5, <1>7, <2>4
      <3>6. codes'[j].state = "live" => spent'[j] = 0
        BY <2>1, <3>3
      <3> QED
        BY <2>1, <3>2, <3>4, <3>5, <3>6
    <2> QED
      BY <2>3, <2>4
  <1> QED
    BY <1>8, <1>10, <1>11, <1>12 DEF IInv

(***************************************************************************)
(* Steps that verify the address, write the password or move the lock.     *)
(***************************************************************************)

\* Whoever writes the password alone can verify: no sign-up is about to write.
LEMMA VerifySafe ==
    ASSUME NEW c \in Calls, IInv, Done(c), UNCHANGED <<codes, begun, history>>,
           "password" \in Writes(call[c].op), ~At(c, "write"), user' \in Rows,
           user'.failed = user.failed, user'.lock = user.lock
    PROVE  IInv'
  <1>1. TypeOK /\ Growing /\ crossed' = crossed
    BY DEF IInv, Growing, history, peaks
  <1>2. Quiet
    BY <1>1, DoneQuiet
  <1>3. TypeOK'
    BY <1>1, DoneTyped DEF TypeOK, history, peaks
  <1>4. CodeInv' /\ SendsInv' /\ LockInv'
    BY <1>1, <1>2, <1>3, CodeKept, SendsKept, LockKept DEF IInv, Quiet, Active, history, peaks
  <1>5. PasswordInv'
    <2>1. CASE "password" \in crossed
      BY <1>1, <2>1 DEF PasswordInv
    <2>2. CASE "password" \notin crossed
      <3>1. AloneAt("password") /\ AloneAt("password")'
        BY <1>2, <2>2, AloneKept DEF IInv, PasswordInv, Quiet
      <3>2. \A d \in Calls : At(d, "write") => "password" \in Writes(call[d].op)
        BY <1>1, CameIs, WritesIs DEF TypeOK, Shaped, At
      <3>3. \A d \in Calls : ~At(d, "write")
        BY <3>1, <3>2 DEF AloneAt
      <3>4. \A d \in Calls : ~At(d, "write")'
        BY <1>2, <3>3 DEF Quiet, Arriving, At
      <3> QED
        BY <3>1, <3>4 DEF PasswordInv
    <2> QED
      BY <2>1, <2>2
  <1> QED
    BY <1>3, <1>4, <1>5 DEF IInv

LEMMA MarkVerifiedSafe ==
    ASSUME NEW c \in Calls, IInv, MarkVerified(c)
    PROVE  IInv'
  <1>1. /\ call[c].op = "verify" /\ Done(c) /\ user' = [user EXCEPT !.verified = TRUE] /\ user \in Rows
        /\ call[c].step = "accept" /\ UNCHANGED <<codes, begun, history>>
    BY DEF IInv, TypeOK, MarkVerified, Accepted, At
  <1>2. user' \in Rows /\ user'.failed = user.failed /\ user'.lock = user.lock
    BY <1>1 DEF Rows
  <1>3. "password" \in Writes(call[c].op) /\ ~At(c, "write")
    BY <1>1, WritesIs DEF At
  <1> QED
    BY <1>1, <1>2, <1>3, VerifySafe

LEMMA LinkSafe ==
    ASSUME NEW c \in Calls, IInv, LinkGoogle(c)
    PROVE  IInv'
  <1>1. /\ Done(c) /\ UNCHANGED <<codes, begun, history>> /\ user \in Rows /\ call[c].step = "link"
        /\ user' = user \/ user' = [user EXCEPT !.exists = TRUE, !.verified = TRUE]
    BY DEF IInv, TypeOK, LinkGoogle, At
  <1>2. user' \in Rows /\ user'.failed = user.failed /\ user'.lock = user.lock
    BY <1>1 DEF Rows
  <1>3. "password" \in Writes(call[c].op) /\ ~At(c, "write")
    BY <1>1, CameIs, WritesIs DEF At, IInv, TypeOK, Shaped
  <1> QED
    BY <1>1, <1>2, <1>3, VerifySafe

\* A handler alone at the lock that ends leaves it as it is written.
LEMMA LockWritten ==
    ASSUME NEW c \in Calls, TypeOK, LockInv, Quiet, crossed' = crossed, "lock" \in Writes(call[c].op),
           ~At(c, "compare")',
           "lock" \notin crossed =>
              user'.failed = misses' /\ (user'.lock # "no" <=> misses' >= MaxFailedLogins)
    PROVE  LockInv'
  <1>1. CASE "lock" \in crossed
    BY <1>1 DEF LockInv
  <1>2. CASE "lock" \notin crossed
    <2>1. AloneAt("lock") /\ AloneAt("lock")'
      BY <1>2, AloneKept DEF LockInv, Quiet
    <2>2. \A d \in Calls : At(d, "compare") => "lock" \in Writes(call[d].op)
      BY CameIs, WritesIs DEF TypeOK, Shaped, At
    <2>3. \A d \in Calls : ~At(d, "compare")'
      BY <2>1, <2>2 DEF AloneAt, Quiet, Arriving, At
    <2> QED
      BY <1>2, <2>1, <2>3 DEF LockInv
  <1> QED
    BY <1>1, <1>2

LEMMA WritePasswordSafe ==
    ASSUME NEW c \in Calls, IInv, WritePassword(c)
    PROVE  IInv'
  <1>1. /\ TypeOK /\ call[c].op = "reset" /\ call[c].step = "accept" /\ Done(c) /\ user \in Rows
        /\ user' = [user EXCEPT !.password = call[c].pw, !.verified = TRUE, !.failed = 0, !.lock = "no"]
        /\ call[c].pw \in SUBSET Passwords
        /\ misses' = 0 /\ UNCHANGED <<codes, begun, spent, rush, flood, crossed>> /\ Growing
    BY DEF IInv, TypeOK, Handlers, WritePassword, Accepted, At, Growing, peaks
  <1>2. user' \in Rows /\ user'.failed = 0 /\ user'.lock = "no"
    BY <1>1 DEF Rows
  <1>3. Quiet
    BY <1>1, DoneQuiet
  <1>4. TypeOK'
    BY <1>1, <1>2, DoneTyped DEF TypeOK
  <1>5. CodeInv' /\ SendsInv'
    BY <1>1, <1>3, <1>4, CodeKept, SendsKept DEF IInv, Quiet, Active
  <1>6. LockInv'
    <2>1. "lock" \in Writes(call[c].op)
      BY <1>1, WritesIs
    <2>2. ~At(c, "compare")'
      BY <1>1, DoneIs, IdleIs DEF At
    <2> QED
      BY <1>1, <1>2, <1>3, <2>1, <2>2, LockWritten, SignInAssumption DEF IInv
  <1>7. PasswordInv'
    <2>1. CASE "password" \in crossed
      BY <1>1, <2>1 DEF PasswordInv
    <2>2. CASE "password" \notin crossed
      <3>1. AloneAt("password") /\ AloneAt("password")'
        BY <1>3, <2>2, AloneKept DEF IInv, PasswordInv, Quiet
      <3>2. \A d \in Calls : At(d, "write") => "password" \in Writes(call[d].op) /\ d # c
        BY <1>1, CameIs, WritesIs DEF TypeOK, Shaped, At
      <3>3. \A d \in Calls : ~At(d, "write")
        BY <1>1, <3>1, <3>2, WritesIs DEF AloneAt
      <3>4. \A d \in Calls : ~At(d, "write")'
        BY <1>3, <3>3 DEF Quiet, Arriving, At
      <3> QED
        BY <3>1, <3>4 DEF PasswordInv
    <2> QED
      BY <2>1, <2>2
  <1> QED
    BY <1>4, <1>5, <1>6, <1>7 DEF IInv

LEMMA CompareSafe ==
    ASSUME NEW c \in Calls, IInv, ComparePassword(c)
    PROVE  IInv'
  <1>1. /\ TypeOK /\ call[c].step = "compare" /\ call[c].op \in Came("compare") /\ user \in Rows
        /\ Seen(c) \in Rows /\ UNCHANGED <<codes, begun, spent, rush, flood, crossed>> /\ Growing
        /\ misses \in Nat /\ MaxFailedLogins \in Nat \ {0}
    BY SeenIs, SignInAssumption DEF IInv, TypeOK, ComparePassword, At, Shaped, Growing, Reading, peaks
  <1>2. "lock" \in Writes(call[c].op) /\ call[c].op \in Came("count")
    BY <1>1, CameIs, WritesIs
  <1>3. CASE call[c].pw = Seen(c).password /\ call[c].op = "console" /\ ~Seen(c).operator
    <2>1. Done(c) /\ UNCHANGED <<user, misses>>
      BY <1>3 DEF ComparePassword
    <2> QED
      BY <1>1, <2>1, EndSafe DEF history, peaks
  <1>4. CASE ~(call[c].pw = Seen(c).password /\ call[c].op = "console" /\ ~Seen(c).operator)
    <2>1. \/ /\ call[c].pw # Seen(c).password
             /\ user' = [user EXCEPT !.failed = Seen(c).failed + 1,
                                     !.lock = IF Seen(c).failed + 1 >= MaxFailedLogins THEN "on" ELSE "no"]
             /\ misses' = misses + 1
             /\ Done(c)
          \/ /\ IF Seen(c).failed > 0 \/ Seen(c).lock # "no"
                THEN user' = [user EXCEPT !.failed = 0, !.lock = "no"]
                ELSE UNCHANGED user
             /\ misses' = 0
             /\ Done(c) \/ Step(c, "count")
      BY <1>4 DEF ComparePassword
    <2>2. /\ user' \in Rows /\ misses' \in Nat
          /\ \/ /\ user'.failed = Seen(c).failed + 1 /\ misses' = misses + 1
                /\ user'.lock # "no" <=> user'.failed >= MaxFailedLogins
             \/ misses' = 0 /\ user'.failed = 0 /\ user'.lock = "no"
             \/ misses' = 0 /\ user' = user /\ Seen(c).failed = 0 /\ Seen(c).lock = "no"
      <3>1. Seen(c).failed \in Nat
        BY <1>1 DEF Rows
      <3>2. ASSUME NEW failed \in Nat, NEW lock \in {"no", "on"},
                   user' = [user EXCEPT !.failed = failed, !.lock = lock]
            PROVE  user' \in Rows /\ user'.failed = failed /\ user'.lock = lock
        BY <1>1, <3>2 DEF Rows
      <3>3. CASE user' = [user EXCEPT !.failed = Seen(c).failed + 1,
                                      !.lock = IF Seen(c).failed + 1 >= MaxFailedLogins THEN "on" ELSE "no"]
                 /\ misses' = misses + 1
        <4> DEFINE failed == Seen(c).failed + 1
                   lock == IF failed >= MaxFailedLogins THEN "on" ELSE "no"
        <4>1. failed \in Nat /\ lock \in {"no", "on"} /\ (lock # "no" <=> failed >= MaxFailedLogins)
          BY <3>1
        <4>2. user' \in Rows /\ user'.failed = failed /\ user'.lock = lock
          BY <3>2, <3>3, <4>1
        <4> QED
          BY <1>1, <3>3, <4>1, <4>2
      <3>4. CASE user' = [user EXCEPT !.failed = 0, !.lock = "no"] /\ misses' = 0
        BY <3>2, <3>4
      <3>5. CASE user' = user /\ Seen(c).failed = 0 /\ Seen(c).lock = "no" /\ misses' = 0
        BY <1>1, <3>5
      <3> QED
        BY <2>1, <3>1, <3>3, <3>4, <3>5
    <2>3. Quiet
      BY <1>1, <2>1, DoneQuiet, StepQuiet
    <2>4. TypeOK'
      <3>1. call' \in [Calls -> Handlers'] /\ \A d \in Calls : Shaped(call'[d])
        BY <1>1, <1>2, <2>1, DoneTyped, StepTyped DEF Reading
      <3> QED
        BY <1>1, <2>2, <3>1 DEF TypeOK
    <2>5. CodeInv' /\ SendsInv'
      BY <1>1, <2>3, <2>4, CodeKept, SendsKept DEF IInv, Quiet, Active
    <2>6. PasswordInv'
      <3>1. user'.verified = user.verified
        BY <1>1, <2>1 DEF Rows
      <3> QED
        BY <2>3, <3>1, PasswordKept DEF IInv, Quiet
    <2>7. LockInv'
      <3>1. ~At(c, "compare")'
        <4>1. CASE Done(c)
          BY <1>1, <4>1, DoneIs, IdleIs DEF At
        <4>2. CASE Step(c, "count")
          BY <1>1, <4>2, Stepping DEF At
        <4> QED
          BY <2>1, <4>1, <4>2
      <3>2. ASSUME "lock" \notin crossed
            PROVE  user'.failed = misses' /\ (user'.lock # "no" <=> misses' >= MaxFailedLogins)
        <4>1. /\ user.failed = misses /\ (user.lock # "no" <=> misses >= MaxFailedLogins)
              /\ Seen(c).failed = user.failed /\ (Seen(c).lock = "no" <=> user.lock = "no")
          BY <1>1, <3>2 DEF IInv, LockInv, At
        <4> QED
          BY <1>1, <2>2, <4>1
      <3> QED
        BY <1>1, <1>2, <2>3, <3>1, <3>2, LockWritten DEF IInv
    <2> QED
      BY <2>4, <2>5, <2>6, <2>7 DEF IInv
  <1> QED
    BY <1>3, <1>4

(***************************************************************************)
(* The invariant.                                                          *)
(***************************************************************************)

LEMMA InitSafe ==
    ASSUME Init
    PROVE  IInv
  <1>1. /\ codes = <<>> /\ spent = <<>> /\ rush = <<>> /\ crossed = {}
        /\ flood = [purpose \in Purposes |-> 0]
        /\ misses = 0 /\ begun = 0
        /\ call = [c \in Calls |-> Idle]
        /\ user.failed = 0 /\ user.lock = "no"
    BY DEF Init
  <1>2. user \in Rows
    <2>1. (CHOOSE p \in Passwords : TRUE) \in Passwords
      BY SignInAssumption
    <2> HIDE DEF Rows
    <2>2. PICK exists \in Accounts, operator \in BOOLEAN :
             user = [exists |-> exists, verified |-> exists, factor |-> FALSE, operator |-> operator,
                     password |-> IF exists THEN {CHOOSE p \in Passwords : TRUE} ELSE {},
                     failed |-> 0, lock |-> "no"]
      BY DEF Init
    <2>3. exists \in BOOLEAN
      BY <2>2, SignInAssumption
    <2> QED
      BY <2>1, <2>2, <2>3 DEF Rows
  <1>3. /\ DOMAIN codes = {} /\ codes \in Seq(Codes) /\ spent \in [DOMAIN codes -> Nat]
        /\ rush \in [DOMAIN codes -> Nat] /\ flood \in [Purposes -> Nat]
    BY <1>1
  <1>4. TypeOK
    BY <1>1, <1>2, <1>3, IdleIs DEF TypeOK
  <1>5. \A c \in Calls : call[c] = Idle /\ call[c].step = "idle" /\ Writes(call[c].op) = {}
    BY <1>1, IdleIs DEF Writes
  <1>6. CodeInv
    BY <1>3 DEF CodeInv
  <1>7. SendsInv
    <2>1. \A purpose : Active(purpose) = {}
      BY <1>3 DEF Active
    <2>2. \A purpose : Sending(purpose) = {}
      BY <1>5 DEF Sending, Creating, At
    <2>3. IsFiniteSet({}) /\ Cardinality({}) = 0
      BY FS_EmptySet
    <2> SUFFICES ASSUME NEW purpose \in Purposes
                 PROVE  /\ IsFiniteSet(Sending(purpose))
                        /\ Cardinality(Sending(purpose)) <= flood[purpose]
                        /\ Cardinality(Active(purpose)) + Cardinality(Sending(purpose))
                               < MaxActiveSends + flood[purpose]
      BY DEF SendsInv
    <2>4. flood[purpose] = 0
      BY <1>1
    <2> QED
      BY <2>1, <2>2, <2>3, <2>4, SignInAssumption
  <1>8. LockInv /\ PasswordInv
    BY <1>1, <1>5, SignInAssumption DEF LockInv, PasswordInv, AloneAt, At
  <1> QED
    BY <1>4, <1>6, <1>7, <1>8 DEF IInv

LEMMA HandlerSafe ==
    ASSUME NEW c \in Calls, IInv,
           \/ SignUp(c) \/ ResendCode(c) \/ LogIn(c) \/ ConsoleLogIn(c) \/ Forgot(c)
           \/ StartFactor(c) \/ DisableFactor(c) \/ SignInWithGoogle(c)
           \/ VerifyEmail(c) \/ VerifyLogIn(c) \/ VerifyConsole(c) \/ ResetPassword(c) \/ ConfirmFactor(c)
    PROVE  IInv'
  <1>1. \A p \in Passwords : {p} \in SUBSET Passwords
    OBVIOUS
  <1>2. CASE SignUp(c)
    BY <1>1, <1>2, BeginSafe, CameIs DEF SignUp, Reading
  <1>3. CASE ResendCode(c) \/ Forgot(c) \/ StartFactor(c)
    BY <1>3, BeginSafe, CameIs DEF ResendCode, Forgot, StartFactor, Reading
  <1>4. CASE LogIn(c) \/ ConsoleLogIn(c)
    <2>1. PICK op \in Came("compare"), p \in Passwords : Begin(c, op, "compare", {p})
      BY <1>4, CameIs DEF LogIn, ConsoleLogIn
    <2> QED
      BY <1>1, <2>1, BeginSafe DEF Reading
  <1>5. CASE DisableFactor(c) \/ SignInWithGoogle(c)
    BY <1>5, BeginSafe, CameIs DEF DisableFactor, SignInWithGoogle, Reading
  <1>6. CASE VerifyEmail(c) \/ VerifyLogIn(c) \/ VerifyConsole(c) \/ ConfirmFactor(c)
    BY <1>6, ListSafe, CameIs DEF VerifyEmail, VerifyLogIn, VerifyConsole, ConfirmFactor
  <1>7. CASE ResetPassword(c)
    BY <1>1, <1>7, ListSafe, CameIs DEF ResetPassword
  <1> QED
    BY <1>2, <1>3, <1>4, <1>5, <1>6, <1>7

LEMMA StepSafe ==
    ASSUME IInv, [Next]_vars
    PROVE  IInv'
  <1>1. CASE UNCHANGED vars
    <2>1. UNCHANGED <<user, codes, call, begun, misses, spent, rush, flood, crossed>>
      BY <1>1 DEF vars, history, peaks
    <2>2. TypeOK' /\ Quiet
      BY <2>1 DEF IInv, TypeOK, Handlers, Quiet, OpsKept, Growing, Arriving
    <2> QED
      BY <2>1, <2>2, QuietSafe
  <1>2. ASSUME NEW c \in Calls,
               \/ SignUp(c) \/ ResendCode(c) \/ LogIn(c) \/ ConsoleLogIn(c) \/ Forgot(c)
               \/ StartFactor(c) \/ DisableFactor(c) \/ SignInWithGoogle(c)
               \/ VerifyEmail(c) \/ VerifyLogIn(c) \/ VerifyConsole(c) \/ ResetPassword(c) \/ ConfirmFactor(c)
        PROVE  IInv'
    BY <1>2, HandlerSafe
  <1>3. ASSUME NEW c \in Calls, CountActive(c) \/ CreateCode(c) \/ TryCode(c) \/ NoCodeMatches(c)
        PROVE  IInv'
    BY <1>3, CountSafe, CreateSafe, TrySafe, EndSafe DEF NoCodeMatches
  <1>4. ASSUME NEW c \in Calls, MarkVerified(c) \/ WritePassword(c) \/ TurnFactorOn(c) \/ LetIn(c)
        PROVE  IInv'
    BY <1>4, MarkVerifiedSafe, WritePasswordSafe, FactorSafe
  <1>5. ASSUME NEW c \in Calls, WriteSignUp(c) \/ ComparePassword(c) \/ LinkGoogle(c) \/ TurnFactorOff(c)
        PROVE  IInv'
    BY <1>5, SignUpSafe, CompareSafe, LinkSafe, FactorSafe
  <1>6. ASSUME NEW i \in DOMAIN codes, CodeExpires(i)
        PROVE  IInv'
    BY <1>6, CodeExpiresSafe
  <1>7. CASE LockExpires
    BY <1>7, LockExpiresSafe
  <1> QED
    BY <1>1, <1>2, <1>3, <1>4, <1>5, <1>6, <1>7 DEF Next

\* A handler that is alone at a row, at a code or at the codes of a purpose knows it
\* as it is, and one that is not has been marked as crossing another.
THEOREM InvariantHolds == Spec => []IInv
  <1>1. Init => IInv
    BY InitSafe
  <1>2. IInv /\ [Next]_vars => IInv'
    BY StepSafe
  <1> QED
    BY <1>1, <1>2, PTL DEF Spec

\* Every variable keeps its type, whatever the handlers.
THEOREM TypeCorrect == Spec => []TypeOK
  <1>1. IInv => TypeOK
    BY DEF IInv
  <1> QED
    BY <1>1, InvariantHolds, PTL

\* consumeOtp accepts a code once and lets it be tried MaxAttempts times; every
\* further verification that listed it at the same moment adds one at most.
THEOREM CodesAreSpentOnce == Spec => []CodesSpentOnce
  <1>1. IInv => CodesSpentOnce
    <2> SUFFICES ASSUME IInv, NEW i \in DOMAIN codes
                 PROVE  spent[i] <= rush[i] /\ codes[i].attempts + spent[i] < MaxAttempts + rush[i]
      BY DEF CodesSpentOnce
    <2> QED
      BY CodeNumbers DEF IInv, CodeInv
  <1> QED
    BY <1>1, InvariantHolds, PTL

\* createOtp leaves at most MaxActiveSends codes of a purpose waiting, and one more
\* for each further send that was counted for at the same moment.
THEOREM SendsAreBounded == Spec => []SendsBounded
  <1>1. IInv => SendsBounded
    <2> SUFFICES ASSUME IInv, NEW purpose \in Purposes
                 PROVE  Cardinality(Active(purpose)) < MaxActiveSends + flood[purpose]
      BY DEF SendsBounded
    <2> QED
      BY SendsNumbers DEF IInv, SendsInv
  <1> QED
    BY <1>1, InvariantHolds, PTL

\* The login counts every wrong password and locks at MaxFailedLogins, unless logins
\* overlapped each other or a reset.
THEOREM MissesDoLock == Spec => []MissesLock
  <1>1. IInv => MissesLock
    BY DEF IInv, LockInv, MissesLock
  <1> QED
    BY <1>1, InvariantHolds, PTL

PasswordStays ==
    user.verified /\ user'.password # user.password =>
        "password" \in crossed \/ \E c \in Calls : call[c].op = "reset"

LEMMA PasswordStep ==
    ASSUME IInv, [Next]_vars
    PROVE  PasswordStays
  <1>1. CASE UNCHANGED vars
    BY <1>1 DEF vars, PasswordStays
  <1>2. ASSUME NEW c \in Calls, WritePassword(c)
        PROVE  PasswordStays
    BY <1>2 DEF WritePassword, Accepted, PasswordStays
  <1>3. ASSUME NEW c \in Calls, WriteSignUp(c)
        PROVE  PasswordStays
    BY <1>3 DEF WriteSignUp, IInv, PasswordInv, PasswordStays
  <1>4. ASSUME user \in Rows, user'.password = user.password PROVE PasswordStays
    BY <1>4 DEF PasswordStays
  <1>5. user \in Rows
    BY DEF IInv, TypeOK
  <1>6. ASSUME NEW c \in Calls,
               \/ SignUp(c) \/ ResendCode(c) \/ LogIn(c) \/ ConsoleLogIn(c) \/ Forgot(c)
               \/ StartFactor(c) \/ DisableFactor(c) \/ SignInWithGoogle(c)
               \/ VerifyEmail(c) \/ VerifyLogIn(c) \/ VerifyConsole(c) \/ ResetPassword(c) \/ ConfirmFactor(c)
        PROVE  user' = user
    BY <1>6 DEF SignUp, ResendCode, LogIn, ConsoleLogIn, Forgot, StartFactor, DisableFactor,
                SignInWithGoogle, VerifyEmail, VerifyLogIn, VerifyConsole, ResetPassword, ConfirmFactor,
                Begin, ListCodes
  <1>7. ASSUME NEW c \in Calls,
               CountActive(c) \/ CreateCode(c) \/ TryCode(c) \/ NoCodeMatches(c) \/ LetIn(c)
        PROVE  user' = user
    BY <1>7 DEF CountActive, CreateCode, TryCode, NoCodeMatches, LetIn
  <1>8. ASSUME NEW c \in Calls,
               MarkVerified(c) \/ TurnFactorOn(c) \/ LinkGoogle(c) \/ TurnFactorOff(c) \/ ComparePassword(c)
        PROVE  user'.password = user.password
    BY <1>5, <1>8 DEF MarkVerified, TurnFactorOn, LinkGoogle, TurnFactorOff, ComparePassword, Rows
  <1>9. CASE LockExpires
    BY <1>4, <1>5, <1>9 DEF LockExpires, Rows
  <1>10. ASSUME NEW i \in DOMAIN codes, CodeExpires(i)
         PROVE  user' = user
    BY <1>10 DEF CodeExpires
  <1> QED
    BY <1>1, <1>2, <1>3, <1>4, <1>5, <1>6, <1>7, <1>8, <1>9, <1>10 DEF Next

\* The password of a verified account changes by a reset only, unless the sign-up
\* that writes it overlapped the verification.
THEOREM PasswordOfVerifiedStays == Spec => VerifiedPasswordStays
  <1>1. IInv /\ [Next]_vars => [PasswordStays]_vars
    BY PasswordStep
  <1> QED
    BY <1>1, InvariantHolds, PTL DEF Spec, VerifiedPasswordStays, PasswordStays
===============================================================================

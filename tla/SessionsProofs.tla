---------------------------- MODULE SessionsProofs ----------------------------
(***************************************************************************)
(* Proofs about Sessions, for any number of browsers, tabs, rows, sign-ins *)
(* and requests in flight: a session that was ended stays ended, no live   *)
(* refresh token is left that rotation forgot, and nobody is signed out    *)
(* but for calls that crossed or an answer that was lost.                  *)
(***************************************************************************)
EXTENDS Sessions, SequenceTheorems, TLAPS

LEMMA RowsAre ==
    ASSUME TypeOK
    PROVE  /\ Len(rows) \in Nat /\ DOMAIN rows = 1 .. Len(rows)
           /\ \A r \in 1 .. Len(rows) : rows[r] \in RowRecord
<1>1. rows \in Seq(RowRecord)
  BY DEF TypeOK
<1> QED
  BY <1>1, LenProperties, ElementOfSeq

\* A function on the same domain is a sequence of the same length.
LEMMA SameLength ==
    ASSUME NEW S, NEW s \in Seq(S), NEW T, NEW t, DOMAIN t = DOMAIN s,
           t = [r \in DOMAIN s |-> t[r]], \A r \in DOMAIN s : t[r] \in T
    PROVE  t \in Seq(T) /\ Len(t) = Len(s)
<1>1. Len(s) \in Nat /\ DOMAIN s = 1 .. Len(s)
  BY LenProperties
<1>2. t \in [1 .. Len(s) -> T]
  BY <1>1
<1>3. t \in Seq(T)
  BY <1>1, <1>2, SeqDef
<1>4. Len(t) \in Nat /\ DOMAIN t = 1 .. Len(t)
  BY <1>3, LenProperties
<1>5. Len(t) = Len(s)
  BY <1>1, <1>4
<1> QED
  BY <1>3, <1>5

LEMMA IdleIs ==
    /\ Idle \in CallRecord /\ Idle.op = "none" /\ Idle.step = "idle"
    /\ Idle.raw = 0 /\ Idle.new = 0 /\ Idle.line = 0 /\ Idle.lines = {} /\ Idle.seen = 0
    /\ RequestInv(Idle)
<1>1. (CHOOSE t \in Tabs : TRUE) \in Tabs
  BY SessionsAssumption
<1> QED
  BY <1>1 DEF Idle, CallRecord, Ops, Steps, Refreshes, RequestInv

LEMMA InitIInv == Init => IInv
<1> SUFFICES ASSUME Init PROVE IInv
  OBVIOUS
<1>1. rows \in Seq(RowRecord) /\ Len(rows) = 0 /\ DOMAIN rows = {}
  <2>1. rows = <<>>
    BY DEF Init
  <2> QED
    BY <2>1, EmptySeq, LenProperties
<1>2. \A c \in Calls : call[c] = Idle
  BY DEF Init
<1>3. TypeOK
  <2>1. /\ jar \in [Browsers -> 0 .. Len(rows)] /\ call \in [Calls -> CallRecord]
        /\ \A r \in DOMAIN rows : rows[r].line \in 1 .. signIns
    BY <1>1, IdleIs DEF Init
  <2>2. \A c \in Calls : /\ call[c].raw \in 0 .. Len(rows) /\ call[c].new \in 0 .. Len(rows)
                         /\ call[c].seen \in 0 .. Len(rows) /\ call[c].line \in 0 .. signIns
                         /\ call[c].lines \subseteq 1 .. signIns
    BY <1>1, <1>2, IdleIs DEF Init
  <2>3. /\ access \subseteq Browsers /\ signIns \in 0 .. MaxSignIns /\ ended \subseteq 1 .. signIns
        /\ suspended \in BOOLEAN /\ deleted \in BOOLEAN /\ lost \in 0 .. MaxLost
    <3>1. 0 \in 0 .. MaxSignIns /\ 0 \in 0 .. MaxLost
      BY SessionsAssumption
    <3> QED
      BY <3>1 DEF Init
  <2> QED
    BY <1>1, <2>1, <2>2, <2>3 DEF TypeOK
<1>4. \A c \in Calls : RequestInv(call[c])
  BY <1>2, IdleIs
<1>5. CarriedOnce /\ LeftIsGone
  BY <1>1, <1>2, IdleIs DEF Init, CarriedOnce, LeftIsGone, Carries
<1>6. OverStaysOver /\ IssuersAreHit /\ FoundAlone /\ NoStraySessions
  BY <1>1, <1>2, IdleIs DEF OverStaysOver, IssuersAreHit, FoundAlone, NoStraySessions, LiveRows, At
<1> QED
  BY <1>3, <1>4, <1>5, <1>6 DEF IInv

-------------------------------------------------------------------------------
(* Steps of one request that leave the rows and the cookies alone.         *)

LEMMA CallStep ==
    ASSUME IInv, NEW c \in Calls, NEW q \in CallRecord,
           call' = [call EXCEPT ![c] = q],
           UNCHANGED <<rows, jar, access, ended, suspended, deleted, lost>>,
           signIns' \in signIns .. MaxSignIns,
           q.raw \in 0 .. Len(rows), q.new \in 0 .. Len(rows), q.seen \in 0 .. Len(rows),
           q.line \in 0 .. signIns', q.lines \subseteq 1 .. signIns',
           RequestInv(q), q.step # "bye", call[c].step # "bye",
           q.op # "one" /\ q.new # 0 => Carries(c, q.new),
           call[c].op # "one" /\ call[c].new # 0 => q.op # "one" /\ q.new = call[c].new,
           q.step \in {"read", "revoke", "issue"} /\ Over(q.line) =>
               q.hit \/ (q.step = "read" /\ (Live(q.raw) => rows[q.raw].late)),
           q.op = "one" /\ q.step = "end" =>
               \A r \in LiveRows : r <= q.seen /\ rows[r].line \in q.lines => r = q.new
    PROVE  IInv'
<1>0. /\ \A d \in Calls : call'[d] = IF d = c THEN q ELSE call[d]
      /\ call' \in [Calls -> CallRecord]
  BY DEF IInv, TypeOK
<1>1. TypeOK'
  BY <1>0 DEF IInv, TypeOK
<1>2. \A d \in Calls : RequestInv(call[d])'
  <2> TAKE d \in Calls
  <2>1. RequestInv(call'[d])
    BY <1>0 DEF IInv
  <2> QED
    BY <2>1 DEF RequestInv, Live
<1>3. \A d \in Calls, r \in Nat \ {0} : Carries(d, r)' <=> Carries(d, r)
  BY <1>0 DEF Carries, IInv, TypeOK, CallRecord
<1>4. CarriedOnce'
  <2>1. \A b \in Browsers : jar[b] # 0 => jar[b] \in Nat \ {0}
    BY RowsAre DEF IInv, TypeOK
  <2>2. \A d \in Calls, b \in Browsers : jar'[b] # 0 => ~Carries(d, jar[b])'
    BY <1>3, <2>1 DEF IInv, CarriedOnce
  <2>3. \A d, e \in Calls : call'[d].new # 0 /\ call'[d].op # "one"
                             /\ Carries(e, call[d].new)' => d = e
    <3> TAKE d, e \in Calls
    <3> HAVE call'[d].new # 0 /\ call'[d].op # "one" /\ Carries(e, call[d].new)'
    <3>1. call'[d].new \in Nat \ {0}
      BY <1>0 DEF CallRecord
    <3>2. Carries(d, call'[d].new) /\ Carries(e, call'[d].new)
      BY <1>3, <3>1 DEF Carries
    <3> QED
      BY <3>1, <3>2 DEF IInv, CarriedOnce, Carries
  <2> QED
    BY <2>2, <2>3 DEF IInv, CarriedOnce
<1>5. LeftIsGone'
  BY <1>3, RowsAre DEF IInv, LeftIsGone
<1>6. \A line : Over(line)' => Over(line)
  BY <1>0 DEF Over
<1>7. OverStaysOver'
  BY <1>6 DEF IInv, OverStaysOver, LiveRows, Live
<1>8. IssuersAreHit'
  BY <1>0, <1>6 DEF IInv, IssuersAreHit, Live
<1>9. FoundAlone'
  BY <1>0 DEF IInv, FoundAlone, LiveRows, Live, At
<1>10. NoStraySessions'
  <2> SUFFICES ASSUME NEW r \in LiveRows, ~rows[r].left, \A b \in Browsers : jar[b] # r
               PROVE  \E d \in Calls : call'[d].step # "idle" /\ call'[d].op # "one" /\ r = call'[d].new
    BY DEF NoStraySessions, LiveRows, Live, Held, Busy
  <2>1. PICK d \in Calls : call[d].op # "one" /\ r = call[d].new
    BY DEF IInv, NoStraySessions, Held, Busy
  <2>2. r # 0
    BY DEF LiveRows, Live
  <2>3. call'[d].op # "one" /\ r = call'[d].new
    BY <1>0, <2>1, <2>2
  <2>4. call'[d].step # "idle"
    BY <2>2, <2>3, <1>2 DEF RequestInv
  <2> QED
    BY <2>3, <2>4
<1> QED
  BY <1>1, <1>2, <1>4, <1>5, <1>7, <1>8, <1>9, <1>10 DEF IInv

-------------------------------------------------------------------------------
(* Steps that end sign-ins.                                                *)

\* A request goes on, and knows when its line was ended under it.
Kept(d, lines) ==
    /\ call'[d].op = call[d].op /\ call'[d].step = call[d].step /\ call'[d].raw = call[d].raw
    /\ call'[d].new = call[d].new /\ call'[d].line = call[d].line
    /\ call'[d].lines = call[d].lines /\ call'[d].seen = call[d].seen
    /\ call[d].hit \/ d \in Pending(lines) => call'[d].hit

\* The request that ends them is over, or waits for its answer.
Done(d, lines) ==
    /\ call[d].new = 0 \/ call[d].op = "one"
    /\ call'[d].op \in {"none", "logout"} /\ call'[d].step \in {"idle", "bye"}
    /\ call'[d].new = 0 /\ call'[d].line \in lines \cup {0}
    /\ call'[d].raw \in 0 .. Len(rows) /\ call'[d].seen \in 0 .. Len(rows)
    /\ call'[d].lines \subseteq 1 .. signIns
    /\ RequestInv(call[d])'

RowsFade(lines) ==
    /\ rows' \in Seq(RowRecord) /\ Len(rows') = Len(rows)
    /\ \A r \in 1 .. Len(rows) :
           /\ rows'[r].line = rows[r].line
           /\ rows'[r].left => rows[r].left
           /\ Live(r)' => /\ Live(r) /\ rows'[r].left = rows[r].left
                          /\ rows[r].late => rows'[r].late
                          /\ rows[r].line \in lines => rows'[r].late \/ rows[r].left

LEMMA EndStep ==
    ASSUME IInv, NEW lines \in SUBSET (1 .. signIns), RowsFade(lines),
           call' \in [Calls -> CallRecord], \A d \in Calls : Kept(d, lines) \/ Done(d, lines),
           ended' \subseteq ended \cup lines,
           UNCHANGED <<jar, access, signIns, suspended, lost>>, deleted' \in BOOLEAN
    PROVE  IInv'
<1>1. /\ Len(rows) \in Nat /\ DOMAIN rows = 1 .. Len(rows) /\ DOMAIN rows' = 1 .. Len(rows)
      /\ Len(rows') = Len(rows)
  BY RowsAre, LenProperties DEF RowsFade, IInv
<1>2. TypeOK'
  <2>1. \A d \in Calls : /\ call'[d].raw \in 0 .. Len(rows) /\ call'[d].new \in 0 .. Len(rows)
                         /\ call'[d].seen \in 0 .. Len(rows)
                         /\ call'[d].line \in 0 .. signIns /\ call'[d].lines \subseteq 1 .. signIns
    <3> TAKE d \in Calls
    <3>1. /\ call[d].raw \in 0 .. Len(rows) /\ call[d].new \in 0 .. Len(rows)
          /\ call[d].seen \in 0 .. Len(rows)
          /\ call[d].line \in 0 .. signIns /\ call[d].lines \subseteq 1 .. signIns
      BY DEF IInv, TypeOK
    <3>2. CASE Kept(d, lines)
      BY <3>1, <3>2 DEF Kept
    <3>3. CASE Done(d, lines)
      <4>1. 0 \in 0 .. Len(rows) /\ lines \cup {0} \subseteq 0 .. signIns
        BY <1>1 DEF IInv, TypeOK
      <4> QED
        BY <3>3, <4>1 DEF Done
    <3> QED
      BY <3>2, <3>3
  <2>2. \A r \in DOMAIN rows' : rows'[r].line \in 1 .. signIns
    BY <1>1 DEF RowsFade, IInv, TypeOK
  <2>3. rows' \in Seq(RowRecord) /\ ended' \subseteq 1 .. signIns
    BY DEF RowsFade, IInv, TypeOK
  <2> QED
    BY <1>1, <2>1, <2>2, <2>3 DEF IInv, TypeOK
<1>3. \A r \in DOMAIN rows : Live(r)' => Live(r)
  BY <1>1 DEF RowsFade
<1>4. \A d \in Calls : RequestInv(call[d])'
  <2> SUFFICES ASSUME NEW d \in Calls, Kept(d, lines) PROVE RequestInv(call[d])'
    BY DEF Done
  <2>1. RequestInv(call[d]) /\ call[d].raw \in 0 .. Len(rows)
    BY DEF IInv, TypeOK
  <2>2. Live(call[d].raw)' => Live(call[d].raw)
    <3>1. call'[d].raw = call[d].raw /\ (call[d].raw # 0 => call[d].raw \in DOMAIN rows)
      BY <1>1, <2>1 DEF Kept
    <3>2. call[d].raw # 0 => (Live(call[d].raw)' => Live(call[d].raw))
      BY <1>3, <3>1 DEF Live
    <3> QED
      BY <3>1, <3>2 DEF Live
  <2>3. call[d].raw # 0 => rows'[call[d].raw].line = rows[call[d].raw].line
    BY <1>1, <2>1 DEF RowsFade
  <2> QED
    <3>1. call'[d].raw # 0 => rows'[call'[d].raw].line = rows[call[d].raw].line
      BY <2>3 DEF Kept
    <3> QED
      BY <2>1, <2>2, <3>1 DEF Kept, RequestInv
<1>5. \A d \in Calls, r \in Nat \ {0} : Carries(d, r)' <=> Carries(d, r)
  BY DEF Kept, Done, Carries
<1>6. CarriedOnce'
  <2>1. \A b \in Browsers : jar[b] # 0 => jar[b] \in Nat \ {0}
    BY <1>1 DEF IInv, TypeOK
  <2>2. \A d \in Calls, b \in Browsers : jar'[b] # 0 => ~Carries(d, jar[b])'
    BY <1>5, <2>1 DEF IInv, CarriedOnce
  <2>3. \A d, e \in Calls : call'[d].new # 0 /\ call'[d].op # "one"
                             /\ Carries(e, call[d].new)' => d = e
    <3> TAKE d, e \in Calls
    <3> HAVE call'[d].new # 0 /\ call'[d].op # "one" /\ Carries(e, call[d].new)'
    <3>1. call'[d].new \in Nat \ {0}
      BY DEF CallRecord
    <3>2. Carries(d, call'[d].new) /\ Carries(e, call'[d].new)
      BY <1>5, <3>1 DEF Carries
    <3> QED
      BY <3>1, <3>2 DEF IInv, CarriedOnce, Carries
  <2> QED
    BY <2>2, <2>3 DEF IInv, CarriedOnce
<1>7. LeftIsGone'
  BY <1>1, <1>5 DEF RowsFade, IInv, LeftIsGone
<1>8. \A line \in Nat \ {0} : Over(line)' => Over(line) \/ line \in lines
  BY DEF Over, Kept, Done
<1>9. OverStaysOver'
  <2> SUFFICES ASSUME NEW r \in DOMAIN rows, Live(r)', Over(rows[r].line)'
               PROVE  rows'[r].late \/ rows'[r].left
    BY <1>1 DEF OverStaysOver, LiveRows
  <2>1. r \in LiveRows /\ rows[r].line \in Nat \ {0} /\ rows'[r].line = rows[r].line
    BY <1>1, <1>3 DEF LiveRows, IInv, TypeOK, RowsFade
  <2>2. CASE Over(rows[r].line)
    BY <1>1, <2>1, <2>2 DEF IInv, OverStaysOver, RowsFade
  <2>3. CASE rows[r].line \in lines
    BY <1>1, <2>1, <2>3 DEF RowsFade
  <2> QED
    BY <1>8, <2>1, <2>2, <2>3
<1>10. IssuersAreHit'
  <2> SUFFICES ASSUME NEW d \in Calls, call'[d].step \in {"read", "revoke", "issue"},
                      Over(call[d].line)'
               PROVE  \/ call'[d].hit
                      \/ call'[d].step = "read" /\ (Live(call[d].raw)' => rows'[call'[d].raw].late)
    BY DEF IssuersAreHit
  <2>1. Kept(d, lines)
    BY DEF Done
  <2>2. /\ call[d].op \in Refreshes \cup {"signin"} /\ call[d].line \in Nat \ {0}
        /\ call[d].raw \in 0 .. Len(rows) /\ d \in Busy
    <3>1. RequestInv(call[d]) /\ call[d] \in CallRecord /\ call[d].raw \in 0 .. Len(rows)
      BY DEF IInv, TypeOK
    <3>2. call[d].op \in Refreshes \cup {"signin"}
      BY <2>1, <3>1 DEF RequestInv, Kept, CallRecord, Ops
    <3>3. call[d].op \in Refreshes => call[d].line \in Nat \ {0}
      BY <1>1, <3>1 DEF RequestInv, IInv, TypeOK
    <3>4. call[d].line \in Nat \ {0}
      BY <3>1, <3>2, <3>3 DEF RequestInv, CallRecord
    <3> QED
      BY <2>1, <3>1, <3>2, <3>4 DEF Busy, Kept
  <2>3. CASE Over(call[d].line)
    <3>1. CASE call[d].hit
      BY <2>1, <3>1 DEF Kept
    <3>2. CASE call[d].step = "read" /\ (Live(call[d].raw) => rows[call[d].raw].late)
      BY <1>1, <2>1, <2>2, <3>2 DEF Kept, RowsFade, Live
    <3> QED
      BY <2>1, <2>3, <3>1, <3>2 DEF IInv, IssuersAreHit, Kept
  <2>4. CASE call[d].line \in lines
    BY <2>1, <2>2, <2>4 DEF Kept, Pending
  <2> QED
    BY <1>8, <2>1, <2>2, <2>3, <2>4 DEF Kept
<1>11. FoundAlone'
  <2>1. \A r \in LiveRows' : r \in LiveRows /\ rows'[r].line = rows[r].line
    BY <1>1, <1>3 DEF LiveRows, RowsFade
  <2> QED
    BY <2>1 DEF IInv, FoundAlone, At, Kept, Done
<1>12. NoStraySessions'
  <2> SUFFICES ASSUME NEW r \in DOMAIN rows, Live(r)', ~rows'[r].left, \A b \in Browsers : jar[b] # r
               PROVE  \E d \in Calls : call'[d].step # "idle" /\ call'[d].op # "one" /\ r = call'[d].new
    BY <1>1 DEF NoStraySessions, LiveRows, Held, Busy
  <2>1. r \in LiveRows /\ ~rows[r].left
    BY <1>1, <1>3 DEF LiveRows, RowsFade
  <2>2. PICK d \in Calls : call[d].op # "one" /\ r = call[d].new
    BY <2>1 DEF IInv, NoStraySessions, Held, Busy
  <2>3. r \in Nat \ {0}
    BY <1>1
  <2>4. call'[d].op # "one" /\ r = call'[d].new
    BY <1>5, <2>2, <2>3 DEF Carries
  <2>5. call'[d].step # "idle"
    BY <2>3, <2>4, <1>4 DEF RequestInv
  <2> QED
    BY <2>4, <2>5
<1> QED
  BY <1>2, <1>4, <1>6, <1>7, <1>9, <1>10, <1>11, <1>12 DEF IInv

-------------------------------------------------------------------------------
(* Requests that are sent.                                                 *)

LEMMA RequestIs ==
    ASSUME IInv, NEW t \in Tabs, NEW op \in Ops, NEW step \in Steps
    PROVE  LET q == Request(op, step, t) IN
           /\ q \in CallRecord /\ q.op = op /\ q.step = step /\ q.tab = t
           /\ q.raw = jar[BrowserOf[t]] /\ q.raw \in 0 .. Len(rows)
           /\ q.new = 0 /\ q.lines = {} /\ q.seen = 0
           /\ q.line \in 0 .. signIns
           /\ q.line = IF q.raw = 0 THEN 0 ELSE rows[q.raw].line
<1>1. BrowserOf[t] \in Browsers
  BY SessionsAssumption
<1>2. jar[BrowserOf[t]] \in 0 .. Len(rows)
  BY <1>1 DEF IInv, TypeOK
<1>3. /\ Len(rows) \in Nat /\ signIns \in Nat
      /\ jar[BrowserOf[t]] # 0 => rows[jar[BrowserOf[t]]].line \in 1 .. signIns
  BY <1>2, RowsAre DEF IInv, TypeOK
<1> DEFINE raw == jar[BrowserOf[t]]
           line == IF raw = 0 THEN 0 ELSE rows[raw].line
           q == [Idle EXCEPT !.op = op, !.step = step, !.tab = t, !.raw = raw, !.line = line]
<1>4. line \in 0 .. signIns /\ raw \in 0 .. Len(rows) /\ raw \in Nat /\ line \in Nat
  BY <1>2, <1>3
<1>5. Request(op, step, t) = q
  BY DEF Request
<1>6. /\ q \in CallRecord /\ q.op = op /\ q.step = step /\ q.tab = t /\ q.raw = raw
      /\ q.new = 0 /\ q.lines = {} /\ q.seen = 0 /\ q.line = line
  <2> HIDE DEF raw, line
  <2> QED
    BY <1>4, IdleIs DEF CallRecord
<1> HIDE DEF q
<1> QED
  BY <1>4, <1>5, <1>6

LEMMA SentFromIdle ==
    ASSUME IInv, NEW c \in Calls, call[c].step = "idle"
    PROVE  call[c].op = "none" /\ call[c].new = 0
  BY DEF IInv, RequestInv

LEMMA RefreshSafe ==
    ASSUME IInv, NEW c \in Calls, NEW t \in Tabs, NEW op \in Refreshes, Refresh(c, t, op)
    PROVE  IInv'
<1> DEFINE q == Request(op, "read", t)
<1>1. /\ q \in CallRecord /\ q.op = op /\ q.step = "read" /\ q.raw = jar[BrowserOf[t]]
      /\ q.raw \in 0 .. Len(rows) /\ q.new = 0 /\ q.lines = {} /\ q.seen = 0
      /\ q.line \in 0 .. signIns /\ q.line = IF q.raw = 0 THEN 0 ELSE rows[q.raw].line
  BY RequestIs DEF Ops, Steps, Refreshes
<1>2. call[c].step = "idle" /\ call' = [call EXCEPT ![c] = q] /\ q.raw # 0
  BY <1>1 DEF Refresh, Send
<1>3. RequestInv(q)
  BY <1>1, <1>2 DEF RequestInv, Refreshes
<1>4. Over(q.line) /\ Live(q.raw) => rows[q.raw].late
  <2> SUFFICES ASSUME Over(q.line), Live(q.raw) PROVE rows[q.raw].late
    OBVIOUS
  <2>1. q.raw \in LiveRows
    BY <1>1, RowsAre DEF LiveRows, Live, IInv
  <2>2. BrowserOf[t] \in Browsers
    BY SessionsAssumption
  <2>3. ~rows[q.raw].left
    BY <1>1, <2>1, <2>2 DEF IInv, LeftIsGone, LiveRows
  <2> QED
    BY <1>1, <1>2, <2>1, <2>3 DEF IInv, OverStaysOver
<1>5. UNCHANGED <<rows, jar, access, signIns, ended, suspended, deleted, lost>>
  BY DEF Refresh, Send, session, account
<1>6. signIns' \in signIns .. MaxSignIns /\ 0 \in 0 .. Len(rows)
  BY <1>5, RowsAre, SessionsAssumption DEF IInv, TypeOK
<1> HIDE DEF q
<1> QED
  BY <1>1, <1>2, <1>3, <1>4, <1>5, <1>6, SentFromIdle, CallStep DEF Refreshes

\* The other requests carry the cookie and nothing else that matters.
LEMMA SendSafe ==
    ASSUME IInv, NEW c \in Calls, NEW t \in Tabs, NEW q \in CallRecord,
           call[c].step = "idle", call' = [call EXCEPT ![c] = q],
           UNCHANGED <<rows, jar, access, ended, suspended, deleted, lost>>,
           signIns' \in signIns .. MaxSignIns,
           q.raw \in 0 .. Len(rows), q.new \in 0 .. Len(rows), q.seen \in 0 .. Len(rows),
           q.line \in 0 .. signIns', q.lines \subseteq 1 .. signIns', RequestInv(q),
           q.op = "one" \/ q.new = 0, q.step \notin {"bye", "read", "revoke", "end"},
           q.step = "issue" => ~Over(q.line)
    PROVE  IInv'
<1>1. call[c].op = "none" /\ call[c].new = 0
  BY SentFromIdle
<1> QED
  BY <1>1, CallStep

LEMMA StartSafe ==
    ASSUME IInv, NEW c \in Calls, NEW t \in Tabs, Start(c, t)
    PROVE  IInv'
<1>0. /\ Len(rows) \in Nat /\ 0 \in 0 .. Len(rows) /\ DOMAIN rows = 1 .. Len(rows)
      /\ signIns \in Nat /\ signIns \in signIns .. MaxSignIns
  BY RowsAre, SessionsAssumption DEF IInv, TypeOK
<1>1. CASE SignIn(c, t)
  <2> DEFINE p == Request("signin", "issue", t)
             q == [p EXCEPT !.line = signIns + 1]
  <2>1. /\ p \in CallRecord /\ p.op = "signin" /\ p.step = "issue" /\ p.raw \in 0 .. Len(rows)
        /\ p.new = 0 /\ p.lines = {} /\ p.seen = 0
    BY RequestIs DEF Ops, Steps
  <2>2. /\ q \in CallRecord /\ q.op = "signin" /\ q.step = "issue" /\ q.raw \in 0 .. Len(rows)
        /\ q.new = 0 /\ q.lines = {} /\ q.seen = 0 /\ q.line = signIns + 1
    BY <1>0, <2>1 DEF CallRecord
  <2>3. call[c].step = "idle" /\ call' = [call EXCEPT ![c] = q] /\ signIns' = signIns + 1
        /\ signIns < MaxSignIns
    BY <1>1 DEF SignIn, Send
  <2>4. UNCHANGED <<rows, jar, access, ended, suspended, deleted, lost>>
    BY <1>1 DEF SignIn, Send, account
  <2> HIDE DEF q
  <2>5. RequestInv(q)
    BY <1>0, <2>2 DEF RequestInv, Refreshes
  <2>6. ~Over(q.line)
    BY <1>0, <2>2 DEF Over, IInv, TypeOK
  <2>7. signIns' \in signIns .. MaxSignIns /\ q.line \in 0 .. signIns'
    BY <1>0, <2>2, <2>3, SessionsAssumption
  <2> QED
    BY <1>0, <2>2, <2>3, <2>4, <2>5, <2>6, <2>7, SendSafe
<1>2. CASE Logout(c, t)
  <2> DEFINE q == Request("logout", "logout", t)
  <2>1. /\ q \in CallRecord /\ q.op = "logout" /\ q.step = "logout" /\ q.raw \in 0 .. Len(rows)
        /\ q.new = 0 /\ q.lines = {} /\ q.seen = 0 /\ q.line \in 0 .. signIns
    BY RequestIs DEF Ops, Steps
  <2>2. call[c].step = "idle" /\ call' = [call EXCEPT ![c] = q]
        /\ UNCHANGED <<rows, jar, access, signIns, ended, suspended, deleted, lost>>
    BY <1>2 DEF Logout, Send, session, account
  <2> HIDE DEF q
  <2>3. RequestInv(q)
    BY <2>1 DEF RequestInv, Refreshes
  <2> QED
    BY <1>0, <2>1, <2>2, <2>3, SendSafe
<1>3. CASE RevokeOthers(c, t)
  <2> DEFINE q == Request("others", "others", t)
  <2>1. /\ q \in CallRecord /\ q.op = "others" /\ q.step = "others" /\ q.raw \in 0 .. Len(rows)
        /\ q.new = 0 /\ q.lines = {} /\ q.seen = 0 /\ q.line \in 0 .. signIns
        /\ q.raw = jar[BrowserOf[t]] /\ q.line = IF q.raw = 0 THEN 0 ELSE rows[q.raw].line
    BY RequestIs DEF Ops, Steps
  <2>2. call[c].step = "idle" /\ call' = [call EXCEPT ![c] = q] /\ q.raw # 0
        /\ UNCHANGED <<rows, jar, access, signIns, ended, suspended, deleted, lost>>
    BY <1>3, <2>1 DEF RevokeOthers, Send, session, account
  <2> HIDE DEF q
  <2>3. RequestInv(q)
    BY <2>1, <2>2 DEF RequestInv, Refreshes
  <2> QED
    BY <1>0, <2>1, <2>2, <2>3, SendSafe
<1>4. CASE Reset(c, t)
  <2> DEFINE q == Request("reset", "password", t)
  <2>1. /\ q \in CallRecord /\ q.op = "reset" /\ q.step = "password" /\ q.raw \in 0 .. Len(rows)
        /\ q.new = 0 /\ q.lines = {} /\ q.seen = 0 /\ q.line \in 0 .. signIns
    BY RequestIs DEF Ops, Steps
  <2>2. call[c].step = "idle" /\ call' = [call EXCEPT ![c] = q]
        /\ UNCHANGED <<rows, jar, access, signIns, ended, suspended, deleted, lost>>
    BY <1>4 DEF Reset, Send, session, account
  <2> HIDE DEF q
  <2>3. RequestInv(q)
    BY <2>1 DEF RequestInv, Refreshes
  <2> QED
    BY <1>0, <2>1, <2>2, <2>3, SendSafe
<1>5. ASSUME NEW r \in DOMAIN rows, EndOne(c, t, r) PROVE IInv'
  <2> DEFINE p == Request("one", "find", t)
             q == [p EXCEPT !.new = r]
  <2>1. /\ p \in CallRecord /\ p.op = "one" /\ p.step = "find" /\ p.raw \in 0 .. Len(rows)
        /\ p.lines = {} /\ p.seen = 0 /\ p.line \in 0 .. signIns
    BY RequestIs DEF Ops, Steps
  <2>2. /\ q \in CallRecord /\ q.op = "one" /\ q.step = "find" /\ q.raw \in 0 .. Len(rows)
        /\ q.new = r /\ q.lines = {} /\ q.seen = 0 /\ q.line \in 0 .. signIns
    BY <1>0, <2>1 DEF CallRecord
  <2>3. call[c].step = "idle" /\ call' = [call EXCEPT ![c] = q]
        /\ UNCHANGED <<rows, jar, access, signIns, ended, suspended, deleted, lost>>
    BY <1>5 DEF EndOne, Send, session, account
  <2> HIDE DEF q
  <2>4. RequestInv(q) /\ q.new \in 0 .. Len(rows)
    BY <1>0, <2>2 DEF RequestInv, Refreshes
  <2> QED
    BY <1>0, <2>2, <2>3, <2>4, SendSafe
<1> QED
  BY <1>1, <1>2, <1>3, <1>4, <1>5, RefreshSafe DEF Start

-------------------------------------------------------------------------------
(* Steps of a request that touch neither rows nor cookies.                 *)

LEMMA ReadSafe ==
    ASSUME IInv, NEW c \in Calls,
           RotateRead(c) \/ ReadRole(c) \/ FindOne(c) \/ SetPassword(c)
    PROVE  IInv'
<1>0. /\ Len(rows) \in Nat /\ DOMAIN rows = 1 .. Len(rows) /\ signIns \in signIns .. MaxSignIns
      /\ 0 \in 0 .. Len(rows) /\ 0 \in 0 .. signIns
  BY RowsAre, SessionsAssumption DEF IInv, TypeOK
<1>1. /\ call[c] \in CallRecord /\ RequestInv(call[c])
      /\ call[c].raw \in 0 .. Len(rows) /\ call[c].new \in 0 .. Len(rows)
      /\ call[c].seen \in 0 .. Len(rows) /\ call[c].line \in 0 .. signIns
      /\ call[c].lines \subseteq 1 .. signIns /\ call \in [Calls -> CallRecord]
  BY DEF IInv, TypeOK
<1>2. UNCHANGED <<rows, jar, access, signIns, ended, suspended, deleted, lost>>
  BY DEF RotateRead, ReadRole, FindOne, SetPassword, session, account, history
<1>3. CASE RotateRead(c)
  <2> DEFINE q == [call[c] EXCEPT !.step = IF Live(call[c].raw) THEN "revoke" ELSE "expired",
                                  !.hit = @ \/ rows[call[c].raw].late]
  <2>1. call' = [call EXCEPT ![c] = q]
    BY <1>1, <1>3 DEF RotateRead
  <2>2. call[c].step = "read" /\ call[c].op \in Refreshes /\ call[c].raw # 0
    BY <1>1, <1>3 DEF RotateRead, RequestInv
  <2>3. /\ q.op = call[c].op /\ q.raw = call[c].raw /\ q.new = call[c].new
        /\ q.line = call[c].line /\ q.lines = call[c].lines /\ q.seen = call[c].seen
        /\ q.step = IF Live(call[c].raw) THEN "revoke" ELSE "expired"
        /\ q.hit = (call[c].hit \/ rows[call[c].raw].late)
    BY <1>1 DEF CallRecord
  <2>4. q \in CallRecord
    BY <1>1 DEF CallRecord, Steps
  <2> HIDE DEF q
  <2>5. RequestInv(q)
    BY <1>1, <2>2, <2>3 DEF RequestInv, Refreshes
  <2>6. q.step \in {"read", "revoke", "issue"} /\ Over(q.line) => q.hit
    BY <2>2, <2>3 DEF IInv, IssuersAreHit
  <2>7. call[c].new = 0 /\ q.op # "one"
    BY <1>1, <2>2, <2>3 DEF RequestInv, Refreshes
  <2>8. q.step # "bye"
    BY <2>3
  <2> QED
    BY <1>0, <1>1, <1>2, <2>1, <2>2, <2>3, <2>4, <2>5, <2>6, <2>7, <2>8, CallStep
<1>4. CASE ReadRole(c)
  <2> DEFINE q == [call[c] EXCEPT !.step = IF suspended THEN "cutOff" ELSE "welcome"]
  <2>1. call' = [call EXCEPT ![c] = q] /\ call[c].step = "role"
    BY <1>1, <1>4 DEF ReadRole, Proceed
  <2>2. /\ q.op = call[c].op /\ q.raw = call[c].raw /\ q.new = call[c].new
        /\ q.line = call[c].line /\ q.lines = call[c].lines /\ q.seen = call[c].seen
        /\ q.step \in {"cutOff", "welcome"} /\ q \in CallRecord
    BY <1>1 DEF CallRecord, Steps
  <2> HIDE DEF q
  <2>3. call[c].op \in Refreshes
    BY <1>1, <2>1 DEF RequestInv, CallRecord, Ops
  <2>4. RequestInv(q) /\ q.op # "one"
    BY <1>1, <2>1, <2>2, <2>3 DEF RequestInv, Refreshes
  <2> QED
    BY <1>0, <1>1, <1>2, <2>1, <2>2, <2>4, CallStep DEF Carries
<1>5. CASE FindOne(c)
  <2>1. call[c].op = "one" /\ call[c].step = "find" /\ call[c].new # 0
    BY <1>1, <1>5 DEF FindOne, At, RequestInv
  <2>2. CASE Live(call[c].new)
    <3> DEFINE r == call[c].new
               lines == IF \A o \in LiveRows \ {r} : rows[o].line # rows[r].line
                        THEN {rows[r].line} ELSE {}
               q == [call[c] EXCEPT !.step = "end", !.seen = Len(rows), !.lines = lines]
    <3>1. call' = [call EXCEPT ![c] = q]
      BY <1>1, <1>5, <2>2 DEF FindOne
    <3>2. lines \subseteq 1 .. signIns
      BY <1>0, <1>1, <2>1 DEF IInv, TypeOK
    <3>4. \A o \in LiveRows : rows[o].line \in lines => o = r
      OBVIOUS
    <3> HIDE DEF lines
    <3>6. lines \in SUBSET Nat
      BY <1>0, <3>2
    <3>3. /\ q.op = "one" /\ q.raw = call[c].raw /\ q.new = r /\ q.step = "end"
          /\ q.line = call[c].line /\ q.lines = lines /\ q.seen = Len(rows) /\ q \in CallRecord
      BY <1>0, <1>1, <2>1, <3>6 DEF CallRecord, Steps
    <3> HIDE DEF q
    <3>5. RequestInv(q)
      BY <2>1, <3>3 DEF RequestInv, Refreshes
    <3>7. \A o \in LiveRows : o <= q.seen /\ rows[o].line \in q.lines => o = q.new
      BY <3>3, <3>4
    <3>8. q.new \in 0 .. Len(rows) /\ q.seen \in 0 .. Len(rows) /\ q.lines \subseteq 1 .. signIns'
      BY <1>0, <1>1, <1>2, <3>2, <3>3
    <3> HIDE DEF r
    <3> QED
      BY <1>0, <1>1, <1>2, <2>1, <3>1, <3>3, <3>5, <3>7, <3>8, CallStep
  <2>3. CASE ~Live(call[c].new)
    <3>1. call' = [call EXCEPT ![c] = Idle]
      BY <1>5, <2>3 DEF FindOne, Finish
    <3> QED
      BY <1>0, <1>2, <2>1, <3>1, IdleIs, CallStep
  <2> QED
    BY <2>2, <2>3
<1>6. CASE SetPassword(c)
  <2>1. call[c].op = "reset" /\ call[c].step = "password" /\ call[c].new = 0
    BY <1>1, <1>6 DEF SetPassword, At, RequestInv
  <2>2. CASE deleted
    <3>1. call' = [call EXCEPT ![c] = Idle]
      BY <1>6, <2>2 DEF SetPassword, Finish
    <3> QED
      BY <1>0, <1>2, <2>1, <3>1, IdleIs, CallStep
  <2>3. CASE ~deleted
    <3> DEFINE q == [call[c] EXCEPT !.step = "purge", !.lines = 1 .. signIns]
    <3>1. call' = [call EXCEPT ![c] = q]
      BY <1>1, <1>6, <2>3 DEF SetPassword
    <3>2. /\ q.op = "reset" /\ q.raw = call[c].raw /\ q.new = 0 /\ q.step = "purge"
          /\ q.line = call[c].line /\ q.lines = 1 .. signIns /\ q.seen = call[c].seen
          /\ q \in CallRecord
      <4>1. 1 .. signIns \in SUBSET Nat
        BY <1>0
      <4> QED
        BY <1>1, <2>1, <4>1 DEF CallRecord, Steps
    <3> HIDE DEF q
    <3>3. RequestInv(q)
      BY <2>1, <3>2 DEF RequestInv, Refreshes
    <3> QED
      BY <1>0, <1>1, <1>2, <2>1, <3>1, <3>2, <3>3, CallStep
  <2> QED
    BY <2>2, <2>3
<1> QED
  BY <1>3, <1>4, <1>5, <1>6

-------------------------------------------------------------------------------
(* What the steps that end sign-ins do to the rows and to other requests.  *)

LEMMA RevokeIs ==
    ASSUME TypeOK, NEW rs, NEW lines, NEW seen, rows' = Revoke(rs, lines, seen)
    PROVE  /\ rows' \in Seq(RowRecord) /\ Len(rows') = Len(rows)
           /\ \A r \in 1 .. Len(rows) :
                  /\ rows'[r].line = rows[r].line
                  /\ rows'[r].left => rows[r].left
                  /\ Live(r)' => /\ Live(r) /\ r \notin rs
                                 /\ rows'[r].left = rows[r].left
                                 /\ rows[r].late => rows'[r].late
                                 /\ rows[r].line \in lines /\ (r > seen \/ \E d \in Pending(lines) : call[d].new = r)
                                        => rows'[r].late
<1> DEFINE Hit(r) == rows[r].line \in lines /\ (r > seen \/ \E d \in Pending(lines) : call[d].new = r)
           New(r) == IF ~Live(r) THEN rows[r]
                     ELSE IF r \in rs THEN Dead("ended", rows[r].line)
                     ELSE IF Hit(r)
                     THEN [rows[r] EXCEPT !.late = TRUE] ELSE rows[r]
<1>1. rows' = [r \in DOMAIN rows |-> New(r)]
  BY DEF Revoke
<1>2. Len(rows) \in Nat /\ DOMAIN rows = 1 .. Len(rows) /\ rows \in Seq(RowRecord)
      /\ \A r \in 1 .. Len(rows) : rows[r] \in RowRecord
  BY RowsAre DEF TypeOK
<1>3. \A r \in 1 .. Len(rows) : rows'[r] = New(r)
  BY <1>1, <1>2
<1>4. \A r \in 1 .. Len(rows) : New(r) \in RowRecord
  BY <1>2 DEF RowRecord, Dead, States
<1>5. rows' \in Seq(RowRecord) /\ Len(rows') = Len(rows)
  <2> HIDE DEF New
  <2> QED
    BY <1>1, <1>2, <1>3, <1>4, SameLength
<1>6. ASSUME NEW r \in 1 .. Len(rows)
      PROVE  /\ rows'[r].line = rows[r].line
             /\ rows'[r].left => rows[r].left
             /\ Live(r)' => /\ Live(r) /\ r \notin rs
                            /\ rows'[r].left = rows[r].left
                            /\ rows[r].late => rows'[r].late
                            /\ Hit(r) => rows'[r].late
  <2> HIDE DEF Hit
  <2> QED
    <3>1. /\ rows[r] \in RowRecord /\ r # 0 /\ rows'[r] = New(r)
      BY <1>2, <1>3
    <3>2. CASE ~Live(r)
      <4>1. rows'[r] = rows[r]
        BY <3>1, <3>2
      <4> QED
        BY <3>2, <4>1 DEF Live
    <3>3. CASE Live(r) /\ r \in rs
      <4>1. rows'[r] = Dead("ended", rows[r].line)
        BY <3>1, <3>3
      <4> QED
        BY <4>1 DEF Dead, Live
    <3>4. CASE Live(r) /\ r \notin rs /\ Hit(r)
      <4>1. rows'[r] = [rows[r] EXCEPT !.late = TRUE]
        BY <3>1, <3>4
      <4> QED
        BY <3>1, <3>4, <4>1 DEF RowRecord, Live
    <3>5. CASE Live(r) /\ r \notin rs /\ ~Hit(r)
      <4>1. rows'[r] = rows[r]
        BY <3>1, <3>5
      <4> QED
        BY <3>5, <4>1 DEF Live
    <3> QED
      BY <3>2, <3>3, <3>4, <3>5
<1> QED
  BY <1>5, <1>6

\* Revoking the rows that were seen ends a line: the others come late.
LEMMA RevokeFades ==
    ASSUME TypeOK, NEW rs, NEW lines, NEW seen, rows' = Revoke(rs, lines, seen),
           \A r \in LiveRows : rows[r].line \in lines => r \in rs \/ r > seen
    PROVE  RowsFade(lines)
<1>1. DOMAIN rows = 1 .. Len(rows)
  BY RowsAre
<1>2. ASSUME NEW r \in 1 .. Len(rows), Live(r)', rows[r].line \in lines PROVE rows'[r].late
  <2>1. Live(r) /\ r \notin rs
    BY <1>2, RevokeIs
  <2>2. r > seen
    BY <1>1, <1>2, <2>1 DEF LiveRows
  <2> QED
    BY <1>2, <2>2, RevokeIs
<1>3. ASSUME NEW r \in 1 .. Len(rows)
      PROVE  /\ rows'[r].line = rows[r].line
             /\ rows'[r].left => rows[r].left
             /\ Live(r)' => /\ Live(r) /\ rows'[r].left = rows[r].left
                            /\ rows[r].late => rows'[r].late
  BY <1>3, RevokeIs
<1>4. rows' \in Seq(RowRecord) /\ Len(rows') = Len(rows)
  BY RevokeIs
<1> QED
  BY <1>2, <1>3, <1>4 DEF RowsFade

LEMMA OvertakeIs ==
    ASSUME TypeOK, NEW lines
    PROVE  /\ Overtake(lines) \in [Calls -> CallRecord]
           /\ \A d \in Calls : LET q == Overtake(lines)[d] IN
                  /\ q.op = call[d].op /\ q.step = call[d].step /\ q.raw = call[d].raw
                  /\ q.tab = call[d].tab
                  /\ q.new = call[d].new /\ q.line = call[d].line
                  /\ q.lines = call[d].lines /\ q.seen = call[d].seen
                  /\ call[d].hit \/ d \in Pending(lines) => q.hit
<1>1. \A d \in Calls : call[d] \in CallRecord
  BY DEF TypeOK
<1> QED
  BY <1>1 DEF Overtake, CallRecord

\* The five ways a sign-in ends.
LEMMA EndsSafe ==
    ASSUME IInv,
           (\E c \in Calls : LogoutRevoke(c) \/ KeepOnly(c) \/ EndFound(c) \/ SignOutAll(c))
               \/ EraseAccount
    PROVE  IInv'
<1>0. /\ TypeOK /\ Len(rows) \in Nat /\ DOMAIN rows = 1 .. Len(rows) /\ signIns \in Nat
      /\ 0 \in 0 .. Len(rows) /\ \A r \in 1 .. Len(rows) : rows[r] \in RowRecord
  BY RowsAre DEF IInv, TypeOK
<1>1. \A c \in Calls : /\ call[c] \in CallRecord /\ RequestInv(call[c])
                       /\ call[c].raw \in 0 .. Len(rows) /\ call[c].seen \in 0 .. Len(rows)
                       /\ call[c].line \in 0 .. signIns /\ call[c].lines \subseteq 1 .. signIns
  BY DEF IInv, TypeOK
<1>2. \A r \in LiveRows : r \in 1 .. Len(rows) /\ rows[r].line \in 1 .. signIns
  BY <1>0 DEF LiveRows, TypeOK
<1>3. RequestInv(Idle)'
  BY IdleIs DEF RequestInv, Refreshes
<1>4. ASSUME NEW c \in Calls, NEW lines, call' = [Overtake(lines) EXCEPT ![c] = Idle],
             call[c].new = 0 \/ call[c].op = "one"
      PROVE  call' \in [Calls -> CallRecord] /\ \A d \in Calls : Kept(d, lines) \/ Done(d, lines)
  <2>1. \A d \in Calls : call'[d] = IF d = c THEN Idle ELSE Overtake(lines)[d]
    BY <1>0, <1>4, OvertakeIs
  <2>2. call' \in [Calls -> CallRecord]
    BY <1>0, <1>4, OvertakeIs, IdleIs
  <2>3. \A d \in Calls \ {c} : Kept(d, lines)
    BY <1>0, <2>1, OvertakeIs DEF Kept
  <2>4. Done(c, lines)
    BY <1>0, <1>3, <1>4, <2>1, IdleIs DEF Done
  <2> QED
    BY <2>2, <2>3, <2>4
<1>5. ASSUME NEW c \in Calls, LogoutRevoke(c) PROVE IInv'
  <2> DEFINE lines == {call[c].line} \ {0}
  <2>1. /\ call[c].op = "logout" /\ call[c].step = "logout" /\ call[c].new = 0
        /\ rows' = Revoke({call[c].raw}, lines, 0)
        /\ call' = [Overtake(lines) EXCEPT ![c].step = "bye"]
        /\ UNCHANGED <<jar, access, signIns, ended, suspended, deleted, lost>>
    BY <1>1, <1>5 DEF LogoutRevoke, At, RequestInv, account, history
  <2>2. lines \in SUBSET (1 .. signIns)
    BY <1>0, <1>1
  <2> HIDE DEF lines
  <2>3. RowsFade(lines)
    <3>1. \A r \in LiveRows : r > 0
      BY <1>2
    <3> QED
      BY <1>0, <2>1, <3>1, RevokeFades
  <2>4. \A d \in Calls : /\ call'[d] \in CallRecord
                         /\ d # c => call'[d] = Overtake(lines)[d]
    <3> TAKE d \in Calls
    <3>1. Overtake(lines)[d] \in CallRecord /\ Overtake(lines) \in [Calls -> CallRecord]
      BY <1>0, OvertakeIs
    <3>2. CASE d # c
      BY <2>1, <3>1, <3>2
    <3>3. CASE d = c
      <4>1. call'[d] = [Overtake(lines)[d] EXCEPT !.step = "bye"]
        BY <2>1, <3>1, <3>3
      <4> QED
        BY <3>1, <3>3, <4>1 DEF CallRecord, Steps
    <3> QED
      BY <3>2, <3>3
  <2>5. call' \in [Calls -> CallRecord]
    BY <1>0, <2>1, <2>4, OvertakeIs
  <2>6. \A d \in Calls \ {c} : Kept(d, lines)
    BY <1>0, <2>4, OvertakeIs DEF Kept
  <2>7. /\ call'[c].op = "logout" /\ call'[c].step = "bye" /\ call'[c].raw = call[c].raw
        /\ call'[c].new = 0 /\ call'[c].line = call[c].line /\ call'[c].lines = call[c].lines
        /\ call'[c].seen = call[c].seen
    BY <1>0, <2>1, OvertakeIs DEF CallRecord
  <2>8. ~Live(call[c].raw)'
    <3>1. ASSUME call[c].raw # 0, Live(call[c].raw)' PROVE FALSE
      <4> DEFINE r == call[c].raw
      <4>1. r \in 1 .. Len(rows)
        BY <1>0, <1>1, <3>1
      <4>2. call'[c].raw = r /\ r # 0
        BY <2>7, <3>1
      <4> HIDE DEF r
      <4>3. rows'[r].state = "live"
        BY <3>1, <4>2 DEF Live
      <4>4. ~(r # 0 /\ rows'[r].state = "live")
        BY <1>0, <2>1, <4>1, RevokeIs DEF Live, r
      <4> QED
        BY <4>2, <4>3, <4>4
    <3> QED
      BY <2>7, <3>1 DEF Live
  <2>9. RequestInv(call[c])'
    BY <2>7, <2>8 DEF RequestInv, Refreshes
  <2>10. Done(c, lines)
    BY <1>0, <1>1, <2>1, <2>7, <2>9 DEF Done, lines
  <2> QED
    BY <1>0, <2>1, <2>2, <2>3, <2>5, <2>6, <2>10, EndStep DEF TypeOK
<1>6. ASSUME NEW c \in Calls, KeepOnly(c) PROVE IInv'
  <2> DEFINE others == LiveRows \ {call[c].raw}
             lines == {rows[r].line : r \in others} \ {call[c].line}
  <2>1. /\ call[c].op = "others" /\ call[c].new = 0 /\ call[c].raw # 0
        /\ call[c].line = rows[call[c].raw].line
        /\ rows' = Revoke(others, lines, Len(rows))
        /\ call' = [Overtake(lines) EXCEPT ![c] = Idle] /\ ended' = ended \cup lines
        /\ UNCHANGED <<jar, access, signIns, suspended, deleted, lost>>
    BY <1>1, <1>6 DEF KeepOnly, At, RequestInv, account
  <2>2. lines \in SUBSET (1 .. signIns)
    BY <1>2
  <2>3. \A r \in LiveRows : rows[r].line \in lines => r \in others
    BY <2>1
  <2> HIDE DEF lines, others
  <2>4. RowsFade(lines)
    BY <1>0, <2>1, <2>3, RevokeFades
  <2> QED
    BY <1>0, <1>4, <2>1, <2>2, <2>4, EndStep DEF TypeOK
<1>7. ASSUME NEW c \in Calls, EndFound(c) PROVE IInv'
  <2>1. /\ call[c].op = "one" /\ call[c].step = "end"
        /\ UNCHANGED <<jar, access, signIns, suspended, deleted, lost>>
    BY <1>7 DEF EndFound, At, account, history
  <2>2. CASE rows[call[c].new].state = "gone"
    <3>1. call' = [call EXCEPT ![c] = Idle] /\ UNCHANGED <<rows, ended>>
      BY <1>7, <2>2 DEF EndFound, Finish
    <3>2. signIns' \in signIns .. MaxSignIns
      BY <1>0, <2>1, SessionsAssumption DEF TypeOK
    <3>3. Idle.raw \in 0 .. Len(rows) /\ Idle.new \in 0 .. Len(rows) /\ Idle.seen \in 0 .. Len(rows)
          /\ Idle.line \in 0 .. signIns' /\ Idle.lines \subseteq 1 .. signIns'
      BY <1>0, <2>1, IdleIs
    <3> QED
      BY <2>1, <3>1, <3>2, <3>3, IdleIs, CallStep
  <2>3. CASE rows[call[c].new].state # "gone"
    <3> DEFINE lines == call[c].lines
    <3>1. /\ rows' = Revoke({call[c].new}, lines, call[c].seen)
          /\ call' = [Overtake(lines) EXCEPT ![c] = Idle] /\ ended' = ended \cup lines
      BY <1>7, <2>3 DEF EndFound
    <3>2. \A r \in LiveRows : r <= call[c].seen /\ rows[r].line \in lines => r = call[c].new
      BY <2>1 DEF IInv, FoundAlone, At
    <3>3. \A r \in LiveRows : rows[r].line \in lines => r \in {call[c].new} \/ r > call[c].seen
      BY <1>0, <1>1, <1>2, <3>2
    <3>4. lines \in SUBSET (1 .. signIns)
      BY <1>1
    <3> HIDE DEF lines
    <3>5. RowsFade(lines)
      BY <1>0, <3>1, <3>3, RevokeFades
    <3> QED
      BY <1>0, <1>4, <2>1, <3>1, <3>4, <3>5, EndStep DEF TypeOK
  <2> QED
    BY <2>2, <2>3
<1>8. ASSUME NEW c \in Calls, SignOutAll(c) PROVE IInv'
  <2> DEFINE lines == call[c].lines
  <2>1. /\ call[c].op = "reset" /\ call[c].new = 0
        /\ rows' = Revoke(LiveRows, lines, Len(rows))
        /\ call' = [Overtake(lines) EXCEPT ![c] = Idle] /\ ended' = ended \cup lines
        /\ UNCHANGED <<jar, access, signIns, suspended, deleted, lost>>
    BY <1>1, <1>8 DEF SignOutAll, At, RequestInv, account, history
  <2>2. lines \in SUBSET (1 .. signIns)
    BY <1>1
  <2> HIDE DEF lines
  <2>3. RowsFade(lines)
    BY <1>0, <2>1, RevokeFades
  <2> QED
    BY <1>0, <1>4, <2>1, <2>2, <2>3, EndStep DEF TypeOK
<1>9. CASE EraseAccount
  <2> DEFINE lines == 1 .. signIns
  <2>1. /\ rows' = [r \in DOMAIN rows |-> Dead("gone", rows[r].line)]
        /\ call' = Overtake(lines) /\ ended' = lines /\ deleted' = TRUE
        /\ UNCHANGED <<jar, access, signIns, suspended, lost>>
    BY <1>9 DEF EraseAccount, history
  <2>2. \A r \in DOMAIN rows : rows'[r] = Dead("gone", rows[r].line)
    BY <2>1
  <2>3. \A r \in DOMAIN rows : rows'[r] \in RowRecord /\ rows'[r].line = rows[r].line
                               /\ rows'[r].left = FALSE /\ rows'[r].state = "gone"
    <3> TAKE r \in DOMAIN rows
    <3>1. rows[r].line \in Nat
      BY <1>0 DEF RowRecord
    <3>2. \A line \in Nat : LET row == Dead("gone", line) IN
              row \in RowRecord /\ row.line = line /\ row.left = FALSE /\ row.state = "gone"
      BY DEF RowRecord, Dead, States
    <3> QED
      BY <2>2, <3>1, <3>2
  <2>4. rows' \in Seq(RowRecord) /\ Len(rows') = Len(rows)
    BY <1>0, <2>1, <2>3, SameLength DEF TypeOK
  <2>5. RowsFade(lines)
    BY <1>0, <2>3, <2>4 DEF RowsFade, Live
  <2>6. call' \in [Calls -> CallRecord] /\ \A d \in Calls : Kept(d, lines)
    BY <1>0, <2>1, OvertakeIs DEF Kept
  <2>7. lines \in SUBSET (1 .. signIns) /\ ended' \subseteq ended \cup lines /\ deleted' \in BOOLEAN
    BY <2>1
  <2> QED
    BY <2>1, <2>5, <2>6, <2>7, EndStep
<1> QED
  BY <1>5, <1>6, <1>7, <1>8, <1>9

-------------------------------------------------------------------------------
(* Rotation, answers and lost answers.                                     *)

\* A request goes one step on or is over; what it carried reached its browser
\* or is left behind, and so is the cookie that was replaced.
LEMMA AnswerStep ==
    ASSUME IInv, NEW c \in Calls, NEW q \in CallRecord,
           call' = [call EXCEPT ![c] = q],
           q.raw \in 0 .. Len(rows), q.seen \in 0 .. Len(rows), q.new = 0,
           q.line \in 0 .. signIns, q.lines \subseteq 1 .. signIns,
           q.step \notin {"bye", "end", "read", "revoke"}, RequestInv(call[c])',
           q.step = "issue" /\ Over(q.line) => q.hit,
           rows' \in Seq(RowRecord), Len(rows') = Len(rows),
           \A r \in 1 .. Len(rows) :
               /\ rows'[r].line = rows[r].line
               /\ Live(r)' => Live(r) /\ rows'[r].late = rows[r].late /\ (rows[r].left => rows'[r].left)
               /\ rows'[r].left /\ ~rows[r].left =>
                      (\A b \in Browsers : jar'[b] # r) /\ \A d \in Calls \ {c} : ~Carries(d, r)
               /\ Live(r)' /\ Carries(c, r) => rows'[r].left \/ \E b \in Browsers : jar'[b] = r
               /\ Live(r)' /\ (\E b \in Browsers : jar[b] = r /\ jar'[b] # r) => rows'[r].left,
           jar' \in [Browsers -> 0 .. Len(rows)],
           \A b \in Browsers : jar'[b] \in {0, jar[b]} \/ (Carries(c, jar'[b]) /\ b = Of(c)),
           access' \subseteq Browsers,
           ended' \subseteq ended \cup IF call[c].step = "bye" THEN {call[c].line} \ {0} ELSE {},
           UNCHANGED <<signIns, suspended, deleted>>, lost' \in 0 .. MaxLost
    PROVE  IInv'
<1>0. /\ Len(rows) \in Nat /\ DOMAIN rows = 1 .. Len(rows) /\ DOMAIN rows' = 1 .. Len(rows)
      /\ \A d \in Calls : call'[d] = IF d = c THEN q ELSE call[d]
      /\ call' \in [Calls -> CallRecord] /\ call \in [Calls -> CallRecord]
      /\ \A r \in DOMAIN rows : Live(r)' => Live(r)
  BY RowsAre, LenProperties DEF IInv, TypeOK
<1>1. TypeOK'
  <2>1. \A d \in Calls : /\ call'[d].raw \in 0 .. Len(rows) /\ call'[d].new \in 0 .. Len(rows)
                         /\ call'[d].seen \in 0 .. Len(rows)
                         /\ call'[d].line \in 0 .. signIns /\ call'[d].lines \subseteq 1 .. signIns
    BY <1>0 DEF IInv, TypeOK
  <2>2. \A r \in DOMAIN rows' : rows'[r].line \in 1 .. signIns
    BY <1>0 DEF IInv, TypeOK
  <2>3. ended' \subseteq 1 .. signIns
    <3>1. ended \subseteq 1 .. signIns /\ {call[c].line} \ {0} \subseteq 1 .. signIns
      BY DEF IInv, TypeOK
    <3> QED
      BY <3>1
  <2> QED
    BY <1>0, <2>1, <2>2, <2>3 DEF IInv, TypeOK
<1>2. \A d \in Calls : RequestInv(call[d])'
  <2> SUFFICES ASSUME NEW d \in Calls \ {c} PROVE RequestInv(call[d])'
    OBVIOUS
  <2>1. RequestInv(call[d]) /\ call'[d] = call[d] /\ call[d].raw \in 0 .. Len(rows)
    BY <1>0 DEF IInv, TypeOK
  <2>2. Live(call[d].raw)' => Live(call[d].raw)
    <3>1. call[d].raw # 0 => call[d].raw \in DOMAIN rows
      BY <1>0, <2>1
    <3>2. call[d].raw # 0 => (Live(call[d].raw)' => Live(call[d].raw))
      BY <1>0, <2>1, <3>1 DEF Live
    <3> QED
      BY <2>1, <3>2 DEF Live
  <2>3. call[d].raw # 0 => rows'[call[d].raw].line = rows[call[d].raw].line
    BY <1>0, <2>1
  <2> QED
    BY <2>1, <2>2, <2>3 DEF RequestInv
<1>3. \A d \in Calls, r \in Nat \ {0} : Carries(d, r)' <=> d # c /\ Carries(d, r)
  BY <1>0 DEF Carries
<1>4. \A b \in Browsers : jar'[b] \in Nat /\ jar[b] \in Nat
  BY <1>0 DEF IInv, TypeOK
<1>5. CarriedOnce'
  <2>1. \A d \in Calls, b \in Browsers : jar'[b] # 0 => ~Carries(d, jar[b])'
    <3> SUFFICES ASSUME NEW d \in Calls \ {c}, NEW b \in Browsers, jar'[b] # 0, Carries(d, jar'[b])
                 PROVE FALSE
      BY <1>3, <1>4 DEF Carries
    <3>1. CASE jar'[b] = jar[b]
      BY <3>1 DEF IInv, CarriedOnce
    <3>2. CASE Carries(c, jar'[b])
      BY <3>2 DEF IInv, CarriedOnce, Carries
    <3> QED
      BY <3>1, <3>2
  <2>2. \A a, b \in Browsers : jar'[a] # 0 /\ jar'[a] = jar'[b] => a = b
    BY DEF IInv, CarriedOnce
  <2>3. \A d, e \in Calls : call'[d].new # 0 /\ call'[d].op # "one"
                             /\ Carries(e, call[d].new)' => d = e
    <3> TAKE d, e \in Calls
    <3> HAVE call'[d].new # 0 /\ call'[d].op # "one" /\ Carries(e, call[d].new)'
    <3>1. call'[d].new \in Nat \ {0}
      BY <1>0 DEF CallRecord
    <3>2. Carries(d, call'[d].new) /\ Carries(e, call'[d].new)
      BY <1>3, <3>1 DEF Carries
    <3> QED
      BY <3>1, <3>2 DEF IInv, CarriedOnce, Carries
  <2> QED
    BY <2>1, <2>2, <2>3 DEF CarriedOnce
<1>6. LeftIsGone'
  <2> SUFFICES ASSUME NEW r \in 1 .. Len(rows), rows'[r].left
               PROVE  (\A b \in Browsers : jar'[b] # r) /\ \A d \in Calls : ~Carries(d, r)'
    BY <1>0 DEF LeftIsGone
  <2>1. CASE rows[r].left
    <3>1. (\A b \in Browsers : jar[b] # r) /\ \A d \in Calls : ~Carries(d, r)
      BY <1>0, <2>1 DEF IInv, LeftIsGone
    <3> QED
      BY <1>0, <1>3, <3>1
  <2>2. CASE ~rows[r].left
    BY <1>0, <1>3, <2>2
  <2> QED
    BY <2>1, <2>2
<1>7. \A line : line # 0 /\ Over(line)' => Over(line)
  BY <1>0 DEF Over
<1>8. OverStaysOver'
  <2> SUFFICES ASSUME NEW r \in 1 .. Len(rows), Live(r)', Over(rows[r].line)'
               PROVE  rows'[r].late \/ rows'[r].left
    BY <1>0 DEF OverStaysOver, LiveRows
  <2>1. r \in LiveRows /\ rows[r].line # 0 /\ rows'[r].line = rows[r].line
    BY <1>0 DEF LiveRows, IInv, TypeOK
  <2> QED
    BY <1>7, <2>1 DEF IInv, OverStaysOver
<1>9. IssuersAreHit'
  <2> SUFFICES ASSUME NEW d \in Calls, call'[d].step \in {"read", "revoke", "issue"},
                      Over(call[d].line)'
               PROVE  \/ call'[d].hit
                      \/ call'[d].step = "read" /\ (Live(call[d].raw)' => rows'[call'[d].raw].late)
    BY DEF IssuersAreHit
  <2>1. call'[d].line # 0
    <3>1. RequestInv(call[d])' /\ call'[d] \in CallRecord /\ call'[d].raw \in 0 .. Len(rows)
      BY <1>0, <1>1, <1>2 DEF TypeOK
    <3>2. call'[d].op \in Refreshes \cup {"signin"}
      BY <3>1 DEF RequestInv, CallRecord, Ops
    <3>3. call'[d].op \in Refreshes => call'[d].line \in 1 .. signIns
      BY <1>0, <1>1, <3>1 DEF RequestInv, TypeOK
    <3> QED
      BY <3>1, <3>2, <3>3 DEF RequestInv
  <2>2. CASE d = c
    BY <1>0, <1>7, <2>1, <2>2
  <2>3. CASE d # c
    <3>1. call'[d] = call[d] /\ Over(call[d].line) /\ call[d].raw \in 0 .. Len(rows)
      BY <1>0, <1>7, <2>1, <2>3 DEF IInv, TypeOK
    <3>2. CASE call[d].hit
      BY <3>1, <3>2
    <3>3. CASE call[d].step = "read" /\ (Live(call[d].raw) => rows[call[d].raw].late)
      <4>1. call[d].raw # 0 => call[d].raw \in 1 .. Len(rows)
        BY <1>0, <3>1
      <4> QED
        BY <3>1, <3>3, <4>1 DEF Live
    <3> QED
      BY <3>1, <3>2, <3>3 DEF IInv, IssuersAreHit
  <2> QED
    BY <2>2, <2>3
<1>10. FoundAlone'
  <2>1. \A r \in LiveRows' : r \in LiveRows /\ rows'[r].line = rows[r].line
    BY <1>0 DEF LiveRows
  <2> QED
    BY <1>0, <2>1 DEF IInv, FoundAlone, At
<1>11. NoStraySessions'
  <2> SUFFICES ASSUME NEW r \in 1 .. Len(rows), Live(r)', ~rows'[r].left, \A b \in Browsers : jar'[b] # r
               PROVE  \E d \in Calls : call'[d].step # "idle" /\ call'[d].op # "one" /\ r = call'[d].new
    BY <1>0 DEF NoStraySessions, LiveRows, Held, Busy
  <2>1. r \in LiveRows /\ ~rows[r].left /\ r # 0
    BY <1>0 DEF LiveRows
  <2>2. \A b \in Browsers : jar[b] # r
    BY <2>1
  <2>3. PICK d \in Calls : Carries(d, r)
    BY <2>1, <2>2 DEF IInv, NoStraySessions, Held, Busy, Carries
  <2>4. d # c
    BY <2>3
  <2>5. call'[d].op # "one" /\ r = call'[d].new
    BY <1>0, <2>3, <2>4 DEF Carries
  <2>6. call'[d].step # "idle"
    BY <1>2, <2>1, <2>5 DEF RequestInv
  <2> QED
    BY <2>5, <2>6
<1> QED
  BY <1>1, <1>2, <1>5, <1>6, <1>8, <1>9, <1>10, <1>11 DEF IInv

LEMMA AbandonIs ==
    ASSUME TypeOK, NEW rs, rows' = Abandon(rs)
    PROVE  /\ rows' \in Seq(RowRecord) /\ Len(rows') = Len(rows)
           /\ \A r \in 1 .. Len(rows) :
                  /\ rows'[r].line = rows[r].line /\ rows'[r].late = rows[r].late
                  /\ rows'[r].state = rows[r].state
                  /\ rows'[r].left = (rows[r].left \/ (r \in rs /\ rows[r].state = "live"))
<1>1. /\ Len(rows) \in Nat /\ DOMAIN rows = 1 .. Len(rows) /\ rows \in Seq(RowRecord)
      /\ \A r \in 1 .. Len(rows) : rows[r] \in RowRecord
  BY RowsAre DEF TypeOK
<1> DEFINE New(r) == IF r \in rs /\ rows[r].state = "live" THEN [rows[r] EXCEPT !.left = TRUE] ELSE rows[r]
<1>2. rows' = [r \in DOMAIN rows |-> New(r)]
  BY DEF Abandon
<1>3. \A r \in 1 .. Len(rows) : rows'[r] = New(r)
  BY <1>1, <1>2
<1>4. \A r \in 1 .. Len(rows) :
          /\ New(r) \in RowRecord
          /\ New(r).line = rows[r].line /\ New(r).late = rows[r].late /\ New(r).state = rows[r].state
          /\ New(r).left = (rows[r].left \/ (r \in rs /\ rows[r].state = "live"))
  BY <1>1 DEF RowRecord
<1> HIDE DEF New
<1>5. rows' \in Seq(RowRecord) /\ Len(rows') = Len(rows)
  BY <1>1, <1>2, <1>3, <1>4, SameLength
<1> QED
  BY <1>3, <1>4, <1>5

LEMMA AnswerSafe ==
    ASSUME IInv, NEW c \in Calls, Welcome(c) \/ Clear(c) \/ Drop(c)
    PROVE  IInv'
<1>0. /\ TypeOK /\ Len(rows) \in Nat /\ DOMAIN rows = 1 .. Len(rows) /\ 0 \in 0 .. Len(rows)
      /\ signIns \in Nat /\ 0 \in 0 .. signIns
      /\ call[c] \in CallRecord /\ call[c].new \in 0 .. Len(rows) /\ RequestInv(call[c])
      /\ jar \in [Browsers -> 0 .. Len(rows)] /\ access \subseteq Browsers
      /\ lost \in 0 .. MaxLost /\ Of(c) \in Browsers
  BY RowsAre, SessionsAssumption DEF IInv, TypeOK, CallRecord, Of
<1>1. call' = [call EXCEPT ![c] = Idle] /\ UNCHANGED <<signIns, suspended, deleted>>
  BY DEF Welcome, Clear, Drop, Finish, account
<1>2. RequestInv(call[c])'
  <2>1. call'[c] = Idle
    BY <1>0, <1>1 DEF IInv, TypeOK
  <2> QED
    BY <2>1, IdleIs DEF RequestInv, Refreshes
\* Nobody else holds what the request carries, or the cookie of its browser.
<1>3. ASSUME NEW r \in 1 .. Len(rows), Carries(c, r)
      PROVE  (\A b \in Browsers : jar[b] # r) /\ \A d \in Calls \ {c} : ~Carries(d, r)
  BY <1>3 DEF IInv, CarriedOnce, Carries
<1>4. ASSUME NEW r \in 1 .. Len(rows), jar[Of(c)] = r
      PROVE  (\A b \in Browsers \ {Of(c)} : jar[b] # r) /\ \A d \in Calls : ~Carries(d, r)
  BY <1>0, <1>4 DEF IInv, CarriedOnce
<1>5. ASSUME NEW rs, rows' = Abandon(rs),
             jar' \in [Browsers -> 0 .. Len(rows)], access' \subseteq Browsers, lost' \in 0 .. MaxLost,
             \A b \in Browsers : jar'[b] \in {0, jar[b]} \/ (Carries(c, jar'[b]) /\ b = Of(c)),
             ended' \subseteq ended \cup IF call[c].step = "bye" THEN {call[c].line} \ {0} ELSE {},
             \A r \in 1 .. Len(rows) :
                 /\ r \in rs => jar'[Of(c)] # r /\ (jar[Of(c)] = r \/ Carries(c, r))
                 /\ Live(r) /\ Carries(c, r) => r \in rs \/ \E b \in Browsers : jar'[b] = r
                 /\ Live(r) /\ (\E b \in Browsers : jar[b] = r /\ jar'[b] # r) => r \in rs
      PROVE  IInv'
  <2>1. ASSUME NEW r \in 1 .. Len(rows)
        PROVE  /\ rows'[r].line = rows[r].line
               /\ Live(r)' => Live(r) /\ rows'[r].late = rows[r].late /\ (rows[r].left => rows'[r].left)
               /\ rows'[r].left /\ ~rows[r].left => r \in rs
               /\ r \in rs /\ Live(r)' => rows'[r].left
    BY <1>0, <1>5, AbandonIs DEF Live
  <2>2. ASSUME NEW r \in 1 .. Len(rows), r \in rs
        PROVE  (\A b \in Browsers : jar'[b] # r) /\ \A d \in Calls \ {c} : ~Carries(d, r)
    <3>1. jar'[Of(c)] # r /\ \A b \in Browsers \ {Of(c)} : jar'[b] \in {0, jar[b]}
      BY <1>5, <2>2
    <3>2. (\A b \in Browsers \ {Of(c)} : jar[b] # r) /\ \A d \in Calls \ {c} : ~Carries(d, r)
      BY <1>3, <1>4, <1>5, <2>2
    <3>3. r # 0
      BY <1>0
    <3> QED
      BY <3>1, <3>2, <3>3
  <2>3. rows' \in Seq(RowRecord) /\ Len(rows') = Len(rows)
    BY <1>0, <1>5, AbandonIs
  <2>4. ASSUME NEW r \in 1 .. Len(rows)
        PROVE  /\ rows'[r].line = rows[r].line
               /\ Live(r)' => Live(r) /\ rows'[r].late = rows[r].late /\ (rows[r].left => rows'[r].left)
               /\ rows'[r].left /\ ~rows[r].left =>
                      (\A b \in Browsers : jar'[b] # r) /\ \A d \in Calls \ {c} : ~Carries(d, r)
               /\ Live(r)' /\ Carries(c, r) => rows'[r].left \/ \E b \in Browsers : jar'[b] = r
               /\ Live(r)' /\ (\E b \in Browsers : jar[b] = r /\ jar'[b] # r) => rows'[r].left
    BY <1>5, <2>1, <2>2
  <2>5. /\ Idle \in CallRecord /\ Idle.raw \in 0 .. Len(rows) /\ Idle.seen \in 0 .. Len(rows)
        /\ Idle.new = 0 /\ Idle.line \in 0 .. signIns /\ Idle.lines \subseteq 1 .. signIns
        /\ Idle.step \notin {"bye", "end", "read", "revoke"} /\ Idle.step # "issue"
    BY <1>0, IdleIs
  <2> QED
    BY <1>1, <1>2, <1>5, <2>3, <2>4, <2>5, AnswerStep
<1>6. \A r \in 1 .. Len(rows) : Carries(c, r) <=> call[c].op # "one" /\ call[c].new = r
  BY DEF Carries
<1>7. CASE Welcome(c)
  <2> DEFINE b0 == Of(c)
             rs == IF call[c].op = "signin" THEN {jar[b0]} ELSE {jar[b0]} \ {call[c].raw}
  <2>1. /\ call[c].step = "welcome" /\ jar' = [jar EXCEPT ![b0] = call[c].new]
        /\ access' = access \cup {b0} /\ rows' = Abandon(rs) /\ UNCHANGED <<ended, lost>>
    BY <1>7 DEF Welcome, history
  <2>2. call[c].op \in Refreshes \cup {"signin"} /\ call[c].op # "one"
    BY <1>0, <2>1 DEF RequestInv, CallRecord, Ops, Refreshes
  <2>3. call[c].op # "signin" => ~Live(call[c].raw)
    BY <1>0, <2>1, <2>2 DEF RequestInv
  <2>4. jar' \in [Browsers -> 0 .. Len(rows)]
        /\ \A b \in Browsers : jar'[b] = IF b = b0 THEN call[c].new ELSE jar[b]
    BY <1>0, <2>1
  <2>5. ASSUME NEW r \in 1 .. Len(rows)
        PROVE  /\ r \in rs => jar'[b0] # r /\ jar[b0] = r
               /\ Carries(c, r) => jar'[b0] = r
               /\ Live(r) /\ (\E b \in Browsers : jar[b] = r /\ jar'[b] # r) => r \in rs
    <3>1. jar[b0] = r => ~Carries(c, r)
      BY <1>4
    <3> QED
      BY <1>0, <1>6, <2>2, <2>3, <2>4, <3>1
  <2>6. \A b \in Browsers : jar'[b] \in {0, jar[b]} \/ (Carries(c, jar'[b]) /\ b = b0)
    BY <1>0, <1>6, <2>2, <2>4 DEF Carries
  <2> HIDE DEF rs
  <2> QED
    BY <1>0, <1>5, <2>1, <2>4, <2>5, <2>6
<1>8. CASE Clear(c)
  <2> DEFINE b0 == Of(c)
             rs == {jar[b0], call[c].new} \ {call[c].raw}
  <2>1. /\ call[c].step \in {"expired", "cutOff", "bye"} /\ jar' = [jar EXCEPT ![b0] = 0]
        /\ access' = access \ {b0} /\ rows' = Abandon(rs) /\ UNCHANGED lost
        /\ ended' = IF call[c].step = "bye" THEN ended \cup ({call[c].line} \ {0}) ELSE ended
    BY <1>8 DEF Clear
  <2>2. call[c].op # "one" /\ ~Live(call[c].raw)
    BY <1>0, <2>1 DEF RequestInv, CallRecord, Ops, Refreshes
  <2>3. jar' \in [Browsers -> 0 .. Len(rows)]
        /\ \A b \in Browsers : jar'[b] = IF b = b0 THEN 0 ELSE jar[b]
    BY <1>0, <2>1
  <2>4. ASSUME NEW r \in 1 .. Len(rows)
        PROVE  /\ r \in rs => jar'[b0] # r /\ (jar[b0] = r \/ Carries(c, r))
               /\ Live(r) /\ Carries(c, r) => r \in rs
               /\ Live(r) /\ (\E b \in Browsers : jar[b] = r /\ jar'[b] # r) => r \in rs
    BY <1>0, <1>6, <2>2, <2>3
  <2> HIDE DEF rs
  <2> QED
    BY <1>0, <1>5, <2>1, <2>3, <2>4
<1>9. CASE Drop(c)
  <2> DEFINE rs == IF call[c].op = "one" THEN {} ELSE {call[c].new}
  <2>1. rows' = Abandon(rs) /\ UNCHANGED <<jar, access, ended>> /\ lost' = lost + 1 /\ lost < MaxLost
    <3>1. call[c].op = "one" => Abandon({}) = rows
      BY <1>0 DEF Abandon, TypeOK
    <3> QED
      BY <1>9, <3>1 DEF Drop
  <2>2. lost' \in 0 .. MaxLost
    BY <1>0, <2>1, SessionsAssumption
  <2>3. ASSUME NEW r \in 1 .. Len(rows)
        PROVE  /\ r \in rs => jar'[Of(c)] # r /\ Carries(c, r)
               /\ Carries(c, r) => r \in rs
    BY <1>0, <1>3, <1>6, <2>1
  <2> HIDE DEF rs
  <2> QED
    BY <1>0, <1>5, <2>1, <2>2, <2>3
<1> QED
  BY <1>7, <1>8, <1>9

LEMMA RotateSafe ==
    ASSUME IInv, NEW c \in Calls, RotateRevoke(c)
    PROVE  IInv'
<1> DEFINE raw == call[c].raw
<1>0. /\ TypeOK /\ Len(rows) \in Nat /\ DOMAIN rows = 1 .. Len(rows) /\ 0 \in 0 .. Len(rows)
      /\ rows \in Seq(RowRecord) /\ signIns \in Nat /\ 0 \in 0 .. signIns
      /\ call[c] \in CallRecord /\ RequestInv(call[c]) /\ call \in [Calls -> CallRecord]
      /\ call[c].op \in Refreshes /\ call[c].step = "revoke" /\ call[c].new = 0
      /\ raw \in 1 .. Len(rows) /\ call[c].seen \in 0 .. Len(rows)
      /\ call[c].line \in 0 .. signIns /\ call[c].lines \subseteq 1 .. signIns
      /\ UNCHANGED <<jar, access, signIns, ended, suspended, deleted, lost>>
  BY RowsAre DEF IInv, TypeOK, RotateRevoke, RequestInv, Refreshes, account, history
<1>1. CASE rows[raw].state = "gone"
  <2>1. call' = [call EXCEPT ![c] = Idle] /\ UNCHANGED rows
    BY <1>1 DEF RotateRevoke, Finish
  <2>2. signIns' \in signIns .. MaxSignIns
    BY <1>0, SessionsAssumption DEF TypeOK
  <2>3. Idle.line \in 0 .. signIns'
    BY <1>0, IdleIs
  <2> QED
    BY <1>0, <2>1, <2>2, <2>3, IdleIs, CallStep
<1>2. CASE rows[raw].state # "gone"
  <2> DEFINE q == [call[c] EXCEPT !.step = "issue"]
             row == IF Live(raw) THEN Dead("rotated", rows[raw].line) ELSE rows[raw]
  <2>1. rows' = [rows EXCEPT ![raw] = row] /\ call' = [call EXCEPT ![c] = q]
    BY <1>0, <1>2 DEF RotateRevoke, Proceed
  <2>2. /\ q \in CallRecord /\ q.op = call[c].op /\ q.step = "issue" /\ q.raw = raw /\ q.new = 0
        /\ q.line = call[c].line /\ q.hit = call[c].hit /\ q.lines = call[c].lines
        /\ q.seen = call[c].seen
    BY <1>0 DEF CallRecord, Steps
  <2>3. /\ row \in RowRecord /\ row.line = rows[raw].line /\ row.state # "live"
        /\ row.left => rows[raw].left
    <3>1. rows[raw] \in RowRecord /\ rows[raw].line \in Nat /\ raw # 0
      BY <1>0, RowsAre DEF RowRecord
    <3> QED
      BY <3>1 DEF RowRecord, Dead, States, Live
  <2> HIDE DEF row, q
  <2>4. DOMAIN rows' = DOMAIN rows /\ \A r \in 1 .. Len(rows) : rows'[r] = IF r = raw THEN row ELSE rows[r]
    BY <1>0, <2>1
  <2>5. rows' \in Seq(RowRecord) /\ Len(rows') = Len(rows)
    <3>1. rows' = [r \in DOMAIN rows |-> rows'[r]] /\ \A r \in DOMAIN rows : rows'[r] \in RowRecord
      BY <1>0, <2>1, <2>3, <2>4, RowsAre
    <3> QED
      BY <1>0, <2>4, <3>1, SameLength
  <2>6. call'[c] = q
    BY <1>0, <2>1
  <2>7. ~Live(raw)' /\ rows'[raw].line = rows[raw].line
    <3>1. rows'[raw].state # "live" /\ rows'[raw].line = rows[raw].line
      BY <1>0, <2>3, <2>4
    <3> QED
      BY <3>1, <2>2, <2>6 DEF Live
  <2>8. RequestInv(call[c])'
    BY <1>0, <2>2, <2>6, <2>7 DEF RequestInv, Refreshes
  <2>9. Over(q.line) => q.hit
    BY <1>0, <2>2 DEF IInv, IssuersAreHit
  <2>10. ASSUME NEW r \in 1 .. Len(rows)
        PROVE  /\ rows'[r].line = rows[r].line
               /\ Live(r)' => Live(r) /\ rows'[r].late = rows[r].late /\ (rows[r].left => rows'[r].left)
               /\ rows'[r].left /\ ~rows[r].left =>
                      (\A b \in Browsers : jar'[b] # r) /\ \A d \in Calls \ {c} : ~Carries(d, r)
               /\ Live(r)' /\ Carries(c, r) => rows'[r].left \/ \E b \in Browsers : jar'[b] = r
               /\ Live(r)' /\ (\E b \in Browsers : jar[b] = r /\ jar'[b] # r) => rows'[r].left
    <3>1. r # 0 /\ ~Carries(c, r) /\ (rows'[r].left => rows[r].left)
      BY <1>0, <2>3, <2>4 DEF Carries
    <3>2. Live(r)' => rows'[r] = rows[r] /\ Live(r)
      BY <2>3, <2>4 DEF Live
    <3>3. rows'[r].line = rows[r].line
      BY <2>3, <2>4
    <3>4. \A b \in Browsers : jar'[b] = jar[b]
      BY <1>0
    <3> QED
      BY <3>1, <3>2, <3>3, <3>4
  <2>11. /\ jar' \in [Browsers -> 0 .. Len(rows)] /\ \A b \in Browsers : jar'[b] \in {0, jar[b]}
         /\ access' \subseteq Browsers /\ ended' \subseteq ended /\ lost' \in 0 .. MaxLost
    BY <1>0 DEF TypeOK
  <2>12. /\ q.raw \in 0 .. Len(rows) /\ q.seen \in 0 .. Len(rows) /\ q.line \in 0 .. signIns
         /\ q.lines \subseteq 1 .. signIns /\ q.step \notin {"bye", "end", "read", "revoke"}
    BY <1>0, <2>2
  <2> HIDE DEF raw
  <2> QED
    BY <1>0, <2>1, <2>2, <2>5, <2>8, <2>9, <2>10, <2>11, <2>12, AnswerStep
<1> QED
  BY <1>1, <1>2

LEMMA IssueSafe ==
    ASSUME IInv, NEW c \in Calls, IssueRefreshToken(c)
    PROVE  IInv'
<1> DEFINE n == Len(rows) + 1
           step == IF call[c].op = "signin" THEN "welcome" ELSE "role"
           q == [call[c] EXCEPT !.new = n, !.step = step]
           row == Row(call[c].line, call[c].hit)
<1>0. /\ TypeOK /\ Len(rows) \in Nat /\ DOMAIN rows = 1 .. Len(rows) /\ rows \in Seq(RowRecord)
      /\ call[c] \in CallRecord /\ RequestInv(call[c]) /\ call \in [Calls -> CallRecord]
      /\ call[c].step = "issue" /\ call[c].raw \in 0 .. Len(rows) /\ signIns \in Nat
      /\ call[c].line \in 0 .. signIns
      /\ UNCHANGED <<jar, access, signIns, ended, suspended, deleted, lost>>
  BY RowsAre DEF IInv, TypeOK, IssueRefreshToken, account, history
<1>1. call[c].op \in Refreshes \cup {"signin"} /\ call[c].new = 0
  BY <1>0 DEF RequestInv, CallRecord, Ops
<1>2. call[c].line \in 1 .. signIns
  <2>1. call[c].op \in Refreshes => rows[call[c].raw].line \in 1 .. signIns /\ call[c].line = rows[call[c].raw].line
    BY <1>0 DEF RequestInv, TypeOK
  <2>2. call[c].op = "signin" => call[c].line # 0
    BY <1>0 DEF RequestInv
  <2> QED
    BY <1>0, <1>1, <2>1, <2>2
<1>3. Over(call[c].line) => call[c].hit
  BY <1>0 DEF IInv, IssuersAreHit
<1>4. /\ row \in RowRecord /\ row.line = call[c].line /\ row.late = call[c].hit
      /\ row.left = FALSE /\ row.state = "live"
  BY <1>0 DEF RowRecord, Row, States, CallRecord
<1>5. rows' = Append(rows, row) /\ call' = [call EXCEPT ![c] = q]
  BY <1>0 DEF IssueRefreshToken
<1>6. /\ q \in CallRecord /\ q.op = call[c].op /\ q.step = step /\ q.raw = call[c].raw
      /\ q.new = n /\ q.line = call[c].line /\ q.lines = call[c].lines /\ q.seen = call[c].seen
      /\ step \in {"welcome", "role"} /\ (call[c].op = "signin" => step = "welcome")
  <2>1. step \in {"welcome", "role"} /\ (call[c].op = "signin" => step = "welcome") /\ n \in Nat
    BY <1>0
  <2> HIDE DEF step, n
  <2> QED
    BY <1>0, <2>1 DEF CallRecord, Steps
<1> HIDE DEF row, q, step
<1>7. /\ rows' \in Seq(RowRecord) /\ Len(rows') = n /\ DOMAIN rows' = 1 .. n
      /\ rows'[n] = row /\ \A r \in 1 .. Len(rows) : rows'[r] = rows[r]
  <2>1. /\ rows' \in Seq(RowRecord) /\ Len(rows') = n
        /\ rows'[n] = row /\ \A r \in 1 .. Len(rows) : rows'[r] = rows[r]
    BY <1>0, <1>4, <1>5, AppendProperties
  <2> QED
    BY <2>1, LenProperties
<1>8. \A d \in Calls : call'[d] = IF d = c THEN q ELSE call[d]
  BY <1>0, <1>5
<1>9. \A r \in 0 .. Len(rows) : Live(r)' <=> Live(r)
  BY <1>0, <1>7 DEF Live
<1>10. \A r \in 1 .. n : r \in 1 .. Len(rows) \/ r = n
  BY <1>0
<1>11. \A i : i \in 0 .. Len(rows) => i \in 0 .. n /\ i # n
  BY <1>0
<1>12. \A d \in Calls : call[d].new \in 0 .. Len(rows) /\ call[d].raw \in 0 .. Len(rows)
  BY <1>0 DEF TypeOK
<1>13. \A b \in Browsers : jar[b] \in 0 .. Len(rows)
  BY <1>0 DEF TypeOK
<1>14. TypeOK'
  <2>1. \A r \in DOMAIN rows' : rows'[r].line \in 1 .. signIns
    BY <1>0, <1>2, <1>4, <1>7, <1>10 DEF TypeOK
  <2>2. jar' \in [Browsers -> 0 .. Len(rows')]
    BY <1>0, <1>7, <1>11 DEF TypeOK
  <2>3. call' \in [Calls -> CallRecord]
    BY <1>0, <1>5, <1>6
  <2>4. \A d \in Calls : /\ call'[d].raw \in 0 .. Len(rows') /\ call'[d].new \in 0 .. Len(rows')
                         /\ call'[d].seen \in 0 .. Len(rows')
                         /\ call'[d].line \in 0 .. signIns /\ call'[d].lines \subseteq 1 .. signIns
    <3>1. n \in 0 .. n
      BY <1>0
    <3> QED
      BY <1>0, <1>6, <1>7, <1>8, <1>11, <3>1 DEF TypeOK
  <2> QED
    BY <1>0, <1>7, <2>1, <2>2, <2>3, <2>4 DEF TypeOK
<1>15. \A d \in Calls : RequestInv(call[d])'
  <2>1. ASSUME NEW d \in Calls \ {c} PROVE RequestInv(call[d])'
    <3>1. call'[d] = call[d] /\ RequestInv(call[d]) /\ (Live(call[d].raw)' <=> Live(call[d].raw))
      BY <1>8, <1>9, <1>12 DEF IInv, Live
    <3>2. call[d].raw # 0 => rows'[call[d].raw] = rows[call[d].raw]
      BY <1>0, <1>7, <1>12
    <3> QED
      BY <3>1, <3>2 DEF RequestInv
  <2>2. RequestInv(call[c])'
    <3>1. call'[c] = q /\ (Live(call[c].raw)' <=> Live(call[c].raw))
      BY <1>6, <1>8, <1>9, <1>12 DEF Live
    <3>2. call[c].raw # 0 => rows'[call[c].raw] = rows[call[c].raw]
      BY <1>0, <1>7, <1>12
    <3> QED
      BY <1>0, <1>1, <1>2, <1>6, <3>1, <3>2 DEF RequestInv, Refreshes
  <2> QED
    BY <2>1, <2>2
<1>16. \A d \in Calls, r \in 1 .. n : Carries(d, r)' <=> IF d = c THEN r = n ELSE Carries(d, r)
  BY <1>1, <1>6, <1>8 DEF Carries, Refreshes
<1>17. \A d \in Calls : ~Carries(d, n)
  BY <1>0, <1>11, <1>12 DEF Carries
<1>18. CarriedOnce'
  <2>1. \A d \in Calls, b \in Browsers : jar'[b] # 0 => ~Carries(d, jar[b])'
    <3> SUFFICES ASSUME NEW d \in Calls, NEW b \in Browsers, jar'[b] # 0 PROVE ~Carries(d, jar[b])'
      OBVIOUS
    <3>1. jar'[b] = jar[b] /\ jar[b] \in 1 .. n /\ jar[b] # n /\ ~Carries(d, jar[b])
      BY <1>0, <1>11, <1>13 DEF IInv, CarriedOnce
    <3> QED
      BY <1>8, <1>6, <3>1 DEF Carries
  <2>2. \A d, e \in Calls : call'[d].new # 0 /\ call'[d].op # "one"
                             /\ Carries(e, call[d].new)' => d = e
    <3> TAKE d, e \in Calls
    <3> HAVE call'[d].new # 0 /\ call'[d].op # "one" /\ Carries(e, call[d].new)'
    <3>1. CASE d = c
      BY <1>6, <1>8, <1>17, <3>1 DEF Carries
    <3>2. CASE d # c
      BY <1>6, <1>8, <1>11, <1>12, <3>2 DEF IInv, CarriedOnce, Carries
    <3> QED
      BY <3>1, <3>2
  <2> QED
    BY <1>0, <2>1, <2>2 DEF IInv, CarriedOnce
<1>19. LeftIsGone'
  <2> SUFFICES ASSUME NEW r \in 1 .. n, rows'[r].left
               PROVE  (\A b \in Browsers : jar'[b] # r) /\ \A d \in Calls : ~Carries(d, r)'
    BY <1>7 DEF LeftIsGone
  <2>1. r \in 1 .. Len(rows) /\ rows[r].left /\ r # n
    BY <1>0, <1>4, <1>7, <1>10
  <2> QED
    BY <1>0, <1>16, <2>1 DEF IInv, LeftIsGone
<1>20. \A line : Over(line)' => Over(line)
  BY <1>0, <1>6, <1>8 DEF Over
<1>21. OverStaysOver'
  <2> SUFFICES ASSUME NEW r \in 1 .. n, Live(r)', Over(rows[r].line)'
               PROVE  rows'[r].late \/ rows'[r].left
    BY <1>7 DEF OverStaysOver, LiveRows
  <2>1. CASE r \in 1 .. Len(rows)
    BY <1>0, <1>7, <1>9, <1>20, <2>1 DEF IInv, OverStaysOver, LiveRows
  <2>2. CASE r = n
    BY <1>3, <1>4, <1>7, <1>20, <2>2
  <2> QED
    BY <1>10, <2>1, <2>2
<1>22. IssuersAreHit'
  <2> SUFFICES ASSUME NEW d \in Calls, call'[d].step \in {"read", "revoke", "issue"},
                      Over(call[d].line)'
               PROVE  \/ call'[d].hit
                      \/ call'[d].step = "read" /\ (Live(call[d].raw)' => rows'[call'[d].raw].late)
    BY DEF IssuersAreHit
  <2>1. d # c /\ call'[d] = call[d] /\ Over(call[d].line)
    BY <1>6, <1>8, <1>20
  <2>2. Live(call[d].raw)' => Live(call[d].raw) /\ rows'[call[d].raw] = rows[call[d].raw]
    BY <1>0, <1>7, <1>12, <2>1 DEF Live
  <2> QED
    BY <2>1, <2>2 DEF IInv, IssuersAreHit
<1>23. FoundAlone'
  <2> SUFFICES ASSUME NEW d \in Calls, At(d, "one", "end")', NEW r \in 1 .. n, Live(r)',
                      r <= call'[d].seen, rows'[r].line \in call'[d].lines
               PROVE  r = call'[d].new
    BY <1>7 DEF FoundAlone, LiveRows
  <2>1. call'[d] = call[d] /\ At(d, "one", "end")
    BY <1>6, <1>8 DEF At
  <2>2. r \in LiveRows /\ rows'[r] = rows[r]
    BY <1>0, <1>7, <1>9, <2>1 DEF TypeOK, LiveRows
  <2> QED
    BY <2>1, <2>2 DEF IInv, FoundAlone
<1>24. NoStraySessions'
  <2> SUFFICES ASSUME NEW r \in 1 .. n, Live(r)', ~rows'[r].left, \A b \in Browsers : jar'[b] # r
               PROVE  \E d \in Calls : call'[d].step # "idle" /\ call'[d].op # "one" /\ r = call'[d].new
    BY <1>7 DEF NoStraySessions, LiveRows, Held, Busy
  <2>1. \E d \in Calls : Carries(d, r)'
    <3>1. CASE r = n
      BY <1>16, <3>1
    <3>2. CASE r # n
      <4>1. r \in LiveRows /\ ~rows[r].left /\ \A b \in Browsers : jar[b] # r
        BY <1>0, <1>7, <1>9, <1>10, <3>2 DEF LiveRows
      <4>2. PICK d \in Calls : Carries(d, r)
        BY <4>1 DEF IInv, NoStraySessions, Held, Busy, Carries
      <4>3. d # c
        BY <1>1, <4>1, <4>2 DEF Carries, LiveRows, Live
      <4> QED
        BY <1>16, <4>2, <4>3
    <3> QED
      BY <3>1, <3>2
  <2>2. PICK d \in Calls : call'[d].op # "one" /\ r = call'[d].new
    BY <2>1 DEF Carries
  <2>3. call'[d].step # "idle"
    BY <1>0, <1>15, <2>2 DEF RequestInv
  <2> QED
    BY <2>2, <2>3
<1> QED
  BY <1>14, <1>15, <1>18, <1>19, <1>21, <1>22, <1>23, <1>24 DEF IInv

-------------------------------------------------------------------------------
(* Every step.                                                             *)

LEMMA StutterSafe ==
    ASSUME IInv, UNCHANGED <<rows, jar, signIns, ended, call>>,
           access' \subseteq Browsers, suspended' \in BOOLEAN, deleted' \in BOOLEAN,
           lost' \in 0 .. MaxLost
    PROVE  IInv'
<1>1. TypeOK'
  BY DEF IInv, TypeOK
<1>2. (\A c \in Calls : RequestInv(call[c])') /\ CarriedOnce' /\ LeftIsGone'
  BY DEF IInv, RequestInv, Live, CarriedOnce, LeftIsGone, Carries
<1>3. OverStaysOver' /\ IssuersAreHit' /\ FoundAlone' /\ NoStraySessions'
  BY DEF IInv, OverStaysOver, IssuersAreHit, FoundAlone, NoStraySessions, Over, At, LiveRows, Live,
         Held, Busy
<1> QED
  BY <1>1, <1>2, <1>3 DEF IInv

LEMMA NextSafe == IInv /\ [Next]_vars => IInv'
<1> SUFFICES ASSUME IInv, [Next]_vars PROVE IInv'
  OBVIOUS
<1>0. access \subseteq Browsers /\ suspended \in BOOLEAN /\ deleted \in BOOLEAN /\ lost \in 0 .. MaxLost
  BY DEF IInv, TypeOK
<1>1. ASSUME NEW c \in Calls, Handle(c) PROVE IInv'
  <2>1. CASE RotateRead(c) \/ ReadRole(c) \/ FindOne(c) \/ SetPassword(c)
    BY <2>1, ReadSafe
  <2>2. CASE LogoutRevoke(c) \/ KeepOnly(c) \/ EndFound(c) \/ SignOutAll(c)
    BY <2>2, EndsSafe
  <2>3. CASE Welcome(c) \/ Clear(c)
    BY <2>3, AnswerSafe
  <2> QED
    BY <1>1, <2>1, <2>2, <2>3, RotateSafe, IssueSafe DEF Handle
<1>2. ASSUME NEW c \in Calls, Drop(c) PROVE IInv'
  BY <1>2, AnswerSafe
<1>3. ASSUME NEW b \in Browsers, AccessExpires(b) PROVE IInv'
  BY <1>0, <1>3, StutterSafe DEF AccessExpires, account, history
<1>4. CASE SetUserSuspended
  BY <1>0, <1>4, StutterSafe DEF SetUserSuspended, session, history
<1>5. CASE EraseAccount
  BY <1>5, EndsSafe
<1>6. CASE UNCHANGED vars
  BY <1>0, <1>6, StutterSafe DEF vars, session, account, history
<1> QED
  BY <1>1, <1>2, <1>3, <1>4, <1>5, <1>6, StartSafe DEF Next

\* What the runs of Sessions check, for every number of browsers and requests.
THEOREM InvariantHolds == Spec => []IInv
<1> QED
  BY InitIInv, NextSafe, PTL DEF Spec

\* Rows, cookies and requests in flight keep their shape: a cookie and a request
\* name a row there is, a row a sign-in that took place.
THEOREM TypeCorrect == Spec => []TypeOK
<1>1. IInv => TypeOK
  BY DEF IInv
<1> QED
  BY <1>1, InvariantHolds, PTL

\* A sign-in that somebody was told is over has no live row a browser can use,
\* but for those of requests that were half way (tokens.ts:73-93, sessions.ts).
THEOREM EndedForGood == Spec => []EndedStaysEnded
<1>1. IInv => EndedStaysEnded
  BY DEF IInv, OverStaysOver, EndedStaysEnded, Over
<1> QED
  BY <1>1, InvariantHolds, PTL

\* Rotation leaves no live row that is neither a cookie, nor under way to one,
\* nor abandoned by a lost answer, a suspension or a crossing.
THEOREM NoneForgotten == Spec => []NoStraySessions
<1>1. IInv => NoStraySessions
  BY DEF IInv
<1> QED
  BY <1>1, InvariantHolds, PTL

-------------------------------------------------------------------------------
(* Who is signed out, and why: a browser whose calls never crossed has one *)
(* call at a time that uses its cookie, so that a token that call rotates  *)
(* is replaced by its answer, unless the answer is lost.                   *)

LEMMA InitCutInv == Init => CutInv
<1> SUFFICES ASSUME Init PROVE CutInv
  OBVIOUS
<1>1. \A c \in Calls : call[c] = Idle
  BY DEF Init
<1>2. OneAtATime /\ CarriesTheCookie
  BY <1>1, IdleIs DEF OneAtATime, CarriesTheCookie, TouchesCookie, Refreshes
<1>3. OwnToken
  BY <1>1, IdleIs DEF OwnToken
<1>4. UsedOnlyByRefresh
  BY <1>1, IdleIs DEF Init, UsedOnlyByRefresh
<1>5. CutOnlyByCrossingOrLoss
  BY DEF Init, CutOnlyByCrossingOrLoss
<1> QED
  BY <1>2, <1>3, <1>4, <1>5 DEF CutInv

\* A request goes on with the token it carries, and may come to bring a new one.
GoesOn(d) ==
    /\ call'[d].op = call[d].op /\ call'[d].tab = call[d].tab /\ call'[d].raw = call[d].raw
    /\ call'[d].new # call[d].new =>
           call'[d].new > Len(rows) /\ rows'[call'[d].new].state # "rotated"
    /\ Answering(d) => Answering(d)'

Ends(d) == call'[d].op = "none" /\ call'[d].raw = 0 /\ call'[d].new = 0

\* The cookie a request leaves behind: none, or the token it brings.
Sets(d, r) == Ends(d) /\ call[d].op \in TouchesCookie /\ r \in {0, call[d].new}

LEMMA CutStep ==
    ASSUME IInv, CutInv, \A d \in Calls : GoesOn(d) \/ Ends(d),
           crossed' = crossed, robbed \subseteq robbed', cut' \subseteq crossed \cup robbed',
           \A b \in Browsers :
               jar'[b] = jar[b] \/ \E d \in Calls : Of(d) = b /\ Sets(d, jar'[b]),
           \A d \in Calls : Ends(d) /\ Answering(d) =>
               Of(d) \in robbed' \/ jar'[Of(d)] \in {0, call[d].new},
           \A r \in 1 .. Len(rows) : rows'[r].state = "rotated" =>
               \/ rows[r].state = "rotated"
               \/ \E d \in Calls : call[d].raw = r /\ GoesOn(d) /\ Answering(d)'
    PROVE  CutInv'
<1>0. /\ \A d \in Calls : call[d].new \in 0 .. Len(rows) /\ call[d].raw \in 0 .. Len(rows)
      /\ \A b \in Browsers : jar[b] \in 0 .. Len(rows)
      /\ Len(rows) \in Nat
  BY RowsAre DEF IInv, TypeOK
<1>1. \A d \in Calls : call'[d].op \in TouchesCookie =>
          GoesOn(d) /\ call[d].op \in TouchesCookie /\ Of(d)' = Of(d)
  BY DEF GoesOn, Ends, Of, TouchesCookie, Refreshes
<1>2. OneAtATime'
  BY <1>1 DEF OneAtATime, CutInv
<1>3. CarriesTheCookie'
  <2> SUFFICES ASSUME NEW c \in Calls, call'[c].op \in TouchesCookie, Of(c)' \notin crossed
               PROVE  call'[c].raw = jar'[Of(c)']
    BY DEF CarriesTheCookie
  <2>1. /\ call[c].op \in TouchesCookie /\ Of(c)' = Of(c) /\ Of(c) \notin crossed
        /\ call'[c].raw = call[c].raw /\ call[c].raw = jar[Of(c)]
    BY <1>1 DEF GoesOn, CutInv, CarriesTheCookie
  <2>2. ~ \E d \in Calls : Of(d) = Of(c) /\ Sets(d, jar'[Of(c)])
    BY <2>1, <1>1 DEF Sets, Ends, TouchesCookie, Refreshes, CutInv, OneAtATime
  <2>3. Of(c) \in Browsers
    BY SessionsAssumption DEF IInv, TypeOK, CallRecord, Of
  <2> QED
    BY <2>1, <2>2, <2>3
<1>4. OwnToken'
  <2> SUFFICES ASSUME NEW c \in Calls, call'[c].raw # 0
               PROVE  /\ \A b \in Browsers : jar'[b] = call'[c].raw => b = Of(c)'
                      /\ \A d \in Calls : ~Carries(d, call[c].raw)'
    BY DEF OwnToken
  <2>1. call'[c].raw = call[c].raw /\ Of(c)' = Of(c) /\ call[c].raw # 0
    BY DEF GoesOn, Ends, Of
  <2>2. /\ \A b \in Browsers : jar[b] = call[c].raw => b = Of(c)
        /\ \A d \in Calls : ~Carries(d, call[c].raw)
    BY <2>1 DEF CutInv, OwnToken
  <2>3. ASSUME NEW b \in Browsers, jar'[b] = call[c].raw PROVE b = Of(c)
    <3>1. ASSUME NEW d \in Calls, Sets(d, jar'[b]) PROVE FALSE
      BY <2>1, <2>2, <2>3, <3>1 DEF Sets, Carries, TouchesCookie, Refreshes
    <3> QED
      BY <2>2, <2>3, <3>1
  <2>4. ASSUME NEW d \in Calls, Carries(d, call[c].raw)' PROVE FALSE
    <3>1. call'[d].op # "one" /\ call'[d].new = call[c].raw
      BY <2>1, <2>4 DEF Carries
    <3>2. GoesOn(d)
      BY <2>1, <3>1 DEF Ends
    <3>3. call'[d].new # call[d].new
      BY <2>2, <3>1, <3>2 DEF Carries, GoesOn
    <3> QED
      BY <1>0, <3>1, <3>2, <3>3 DEF GoesOn
  <2> QED
    BY <2>1, <2>3, <2>4
<1>5. \A d \in Calls : call'[d].op # "one" /\ call'[d].new # 0 => rows'[call'[d].new].state # "rotated"
  <2> SUFFICES ASSUME NEW d \in Calls, call'[d].op # "one", call'[d].new # 0,
                      call'[d].new = call[d].new, GoesOn(d)
               PROVE  rows'[call[d].new].state # "rotated"
    BY DEF GoesOn, Ends
  <2>1. call[d].op # "one" /\ call[d].new \in 1 .. Len(rows) /\ rows[call[d].new].state # "rotated"
    BY <1>0 DEF GoesOn, CutInv, UsedOnlyByRefresh
  <2>2. \A c \in Calls : call[c].raw # call[d].new
    BY <2>1 DEF CutInv, OwnToken, Carries
  <2> QED
    BY <2>1, <2>2
<1>6. ASSUME NEW b \in Browsers, b \notin crossed, b \notin robbed', jar'[b] # 0,
             rows'[jar'[b]].state = "rotated"
      PROVE  \E c \in Calls : Of(c)' = b /\ call'[c].raw = jar'[b] /\ Answering(c)'
  <2>1. jar'[b] = jar[b]
    <3>1. ASSUME NEW d \in Calls, Sets(d, jar'[b]) PROVE jar'[b] = jar[b]
      <4>1. jar'[b] = call[d].new /\ call[d].op # "one" /\ jar'[b] \in 1 .. Len(rows)
        BY <1>0, <1>6, <3>1 DEF Sets, TouchesCookie, Refreshes
      <4>2. rows[jar'[b]].state # "rotated" /\ \A c \in Calls : call[c].raw # jar'[b]
        BY <4>1 DEF CutInv, UsedOnlyByRefresh, OwnToken, Carries
      <4> QED
        BY <1>6, <4>1, <4>2
    <3> QED
      BY <3>1
  <2>2. jar[b] \in 1 .. Len(rows)
    BY <1>0, <1>6, <2>1
  <2>3. CASE rows[jar[b]].state = "rotated"
    <3>1. PICK c \in Calls : Of(c) = b /\ call[c].raw = jar[b] /\ Answering(c)
      BY <1>6, <2>1, <2>2, <2>3 DEF CutInv, UsedOnlyByRefresh
    <3>2. ~Ends(c)
      <4>1. jar'[b] # call[c].new
        BY <1>0, <2>1, <2>2, <3>1 DEF CutInv, OwnToken, Carries, Answering, Refreshes
      <4> QED
        BY <1>6, <3>1, <4>1
    <3>3. GoesOn(c)
      BY <3>2
    <3> QED
      BY <2>1, <3>1, <3>3 DEF GoesOn, Of
  <2>4. CASE rows[jar[b]].state # "rotated"
    <3>1. PICK c \in Calls : call[c].raw = jar[b] /\ GoesOn(c) /\ Answering(c)'
      BY <1>6, <2>1, <2>2, <2>4
    <3>2. Of(c) = b
      BY <2>2, <3>1 DEF CutInv, OwnToken
    <3> QED
      BY <2>1, <3>1, <3>2 DEF GoesOn, Of
  <2> QED
    BY <2>3, <2>4
<1>7. UsedOnlyByRefresh'
  BY <1>5, <1>6 DEF UsedOnlyByRefresh
<1>8. CutOnlyByCrossingOrLoss'
  BY DEF CutOnlyByCrossingOrLoss
<1> QED
  BY <1>2, <1>3, <1>4, <1>7, <1>8 DEF CutInv

\* Ending sessions rotates no token.
LEMMA NothingRotated ==
    ASSUME TypeOK, NEW rs, NEW lines, NEW seen, rows' \in {rows, Revoke(rs, lines, seen)}
    PROVE  \A r \in 1 .. Len(rows) : rows'[r].state = "rotated" => rows[r].state = "rotated"
<1>1. DOMAIN rows = 1 .. Len(rows) /\ \A r \in 1 .. Len(rows) : rows[r] \in RowRecord
  BY RowsAre
<1>2. CASE rows' = Revoke(rs, lines, seen)
  BY <1>1, <1>2 DEF Revoke, Dead, RowRecord
<1> QED
  BY <1>2

\* One request moves; the others are told at most that their sign-in is over.
LEMMA OneMovesAlone ==
    ASSUME TypeOK, NEW c \in Calls, NEW q, call' = [call EXCEPT ![c] = q]
    PROVE  /\ \A d \in Calls \ {c} : GoesOn(d) /\ (~Ends(d) \/ ~Answering(d))
           /\ call'[c] = q
<1>1. call'[c] = q /\ \A d \in Calls \ {c} : call'[d] = call[d]
  BY DEF TypeOK
<1> QED
  BY <1>1 DEF GoesOn, Ends, Answering, Refreshes

LEMMA OneMoves ==
    ASSUME TypeOK, NEW c \in Calls, NEW lines, NEW q,
           call' \in {[call EXCEPT ![c] = q], [Overtake(lines) EXCEPT ![c] = q]}
    PROVE  /\ \A d \in Calls \ {c} : GoesOn(d) /\ (~Ends(d) \/ ~Answering(d))
           /\ call'[c] = q
<1>1. CASE call' = [Overtake(lines) EXCEPT ![c] = q]
  <2>1. call'[c] = q /\ \A d \in Calls \ {c} : call'[d] = Overtake(lines)[d]
    BY <1>1, OvertakeIs
  <2>2. \A d \in Calls \ {c} : /\ call'[d].op = call[d].op /\ call'[d].step = call[d].step
                               /\ call'[d].tab = call[d].tab /\ call'[d].raw = call[d].raw
                               /\ call'[d].new = call[d].new
    BY <2>1, OvertakeIs
  <2> QED
    BY <2>1, <2>2 DEF GoesOn, Ends, Answering, Refreshes
<1> QED
  BY <1>1, OneMovesAlone

\* What a handler without an answer to a refresh does to its own request.
Steady(c) == (Ends(c) /\ ~Answering(c)) \/ GoesOn(c)

LEMMA SteadyHandlers ==
    ASSUME TypeOK, NEW c \in Calls, RequestInv(call[c]),
           \/ RotateRead(c) \/ ReadRole(c) \/ FindOne(c) \/ SetPassword(c)
           \/ LogoutRevoke(c) \/ EndFound(c) \/ SignOutAll(c) \/ KeepOnly(c)
    PROVE  Steady(c) /\ \A d \in Calls \ {c} : GoesOn(d) /\ (~Ends(d) \/ ~Answering(d))
<1>0. call[c] \in CallRecord
  BY DEF TypeOK
<1>1. CASE RotateRead(c)
  <2> DEFINE q == [call[c] EXCEPT !.step = IF Live(call[c].raw) THEN "revoke" ELSE "expired",
                                  !.hit = @ \/ rows[call[c].raw].late]
  <2>1. call' = [call EXCEPT ![c] = q]
    BY <1>1 DEF RotateRead
  <2>2. /\ q.op = call[c].op /\ q.tab = call[c].tab /\ q.raw = call[c].raw /\ q.new = call[c].new
        /\ ~Answering(c)
    BY <1>0, <1>1 DEF CallRecord, RotateRead, Answering
  <2> HIDE DEF q
  <2>3. call'[c] = q /\ \A d \in Calls \ {c} : GoesOn(d) /\ (~Ends(d) \/ ~Answering(d))
    BY <2>1, OneMovesAlone
  <2> QED
    BY <2>2, <2>3 DEF Steady, GoesOn
<1>2. CASE ReadRole(c)
  <2> DEFINE q == [call[c] EXCEPT !.step = IF suspended THEN "cutOff" ELSE "welcome"]
  <2>1. call' = [call EXCEPT ![c] = q]
    BY <1>2 DEF ReadRole, Proceed
  <2>2. /\ q.op = call[c].op /\ q.tab = call[c].tab /\ q.raw = call[c].raw /\ q.new = call[c].new
        /\ q.step \in {"cutOff", "welcome"}
    BY <1>0 DEF CallRecord
  <2> HIDE DEF q
  <2>3. call'[c] = q /\ \A d \in Calls \ {c} : GoesOn(d) /\ (~Ends(d) \/ ~Answering(d))
    BY <2>1, OneMovesAlone
  <2> QED
    BY <2>2, <2>3 DEF Steady, GoesOn, Answering
<1>3. ASSUME NEW lines, NEW q, ~Answering(c),
             call' \in {[call EXCEPT ![c] = q], [Overtake(lines) EXCEPT ![c] = q]},
             \/ q = Idle
             \/ q.op = call[c].op /\ q.tab = call[c].tab /\ q.raw = call[c].raw /\ q.new = call[c].new
      PROVE  Steady(c) /\ \A d \in Calls \ {c} : GoesOn(d) /\ (~Ends(d) \/ ~Answering(d))
  <2>1. call'[c] = q /\ \A d \in Calls \ {c} : GoesOn(d) /\ (~Ends(d) \/ ~Answering(d))
    BY <1>3, OneMoves
  <2> QED
    BY <1>3, <2>1, IdleIs DEF Steady, GoesOn, Ends
<1>4. CASE FindOne(c)
  <2>1. ~Answering(c)
    BY <1>4 DEF FindOne, At, Answering, Refreshes
  <2>2. CASE ~Live(call[c].new)
    BY <1>3, <1>4, <2>1, <2>2 DEF FindOne, Finish
  <2>3. CASE Live(call[c].new)
    <3> DEFINE r == call[c].new
               lines == IF \A o \in LiveRows \ {r} : rows[o].line # rows[r].line
                        THEN {rows[r].line} ELSE {}
               q == [call[c] EXCEPT !.step = "end", !.seen = Len(rows), !.lines = lines]
    <3>1. call' = [call EXCEPT ![c] = q]
      BY <1>4, <2>3 DEF FindOne
    <3>2. q.op = call[c].op /\ q.tab = call[c].tab /\ q.raw = call[c].raw /\ q.new = call[c].new
      BY <1>0 DEF CallRecord
    <3> HIDE DEF q
    <3> QED
      BY <1>3, <2>1, <3>1, <3>2
  <2> QED
    BY <2>2, <2>3
<1>5. CASE SetPassword(c)
  <2>1. ~Answering(c)
    BY <1>5 DEF SetPassword, At, Answering, Refreshes
  <2>2. CASE deleted
    BY <1>3, <1>5, <2>1, <2>2 DEF SetPassword, Finish
  <2>3. CASE ~deleted
    <3> DEFINE q == [call[c] EXCEPT !.step = "purge", !.lines = 1 .. signIns]
    <3>1. call' = [call EXCEPT ![c] = q]
      BY <1>5, <2>3 DEF SetPassword
    <3>2. q.op = call[c].op /\ q.tab = call[c].tab /\ q.raw = call[c].raw /\ q.new = call[c].new
      BY <1>0 DEF CallRecord
    <3> HIDE DEF q
    <3> QED
      BY <1>3, <2>1, <3>1, <3>2
  <2> QED
    BY <2>2, <2>3
<1>6. CASE LogoutRevoke(c)
  <2> DEFINE lines == {call[c].line} \ {0}
             q == [Overtake(lines)[c] EXCEPT !.step = "bye"]
  <2>1. call' = [Overtake(lines) EXCEPT ![c] = q] /\ ~Answering(c)
    BY <1>6 DEF LogoutRevoke, At, Answering, Refreshes
  <2>2. Overtake(lines)[c] \in CallRecord
    BY OvertakeIs
  <2>3. q.op = call[c].op /\ q.tab = call[c].tab /\ q.raw = call[c].raw /\ q.new = call[c].new
    <3>1. /\ q.op = Overtake(lines)[c].op /\ q.tab = Overtake(lines)[c].tab
          /\ q.raw = Overtake(lines)[c].raw /\ q.new = Overtake(lines)[c].new
      <4> HIDE DEF lines
      <4> QED
        BY <2>2 DEF CallRecord
    <3> HIDE DEF q, lines
    <3> QED
      BY <3>1, OvertakeIs
  <2> HIDE DEF q
  <2> QED
    BY <1>3, <2>1, <2>3
<1>7. CASE EndFound(c) \/ SignOutAll(c) \/ KeepOnly(c)
  <2>1. ~Answering(c)
    BY <1>7 DEF EndFound, SignOutAll, KeepOnly, At, Answering, Refreshes
  <2>2. \E lines : call' \in {[call EXCEPT ![c] = Idle], [Overtake(lines) EXCEPT ![c] = Idle]}
    BY <1>7 DEF EndFound, SignOutAll, KeepOnly, Finish
  <2> QED
    BY <1>3, <2>1, <2>2
<1> QED
  BY <1>1, <1>2, <1>4, <1>5, <1>6, <1>7

LEMMA HandlersCutNobody ==
    ASSUME IInv, CutInv, NEW c \in Calls,
           \/ RotateRead(c) \/ ReadRole(c) \/ FindOne(c) \/ SetPassword(c)
           \/ LogoutRevoke(c) \/ EndFound(c) \/ SignOutAll(c) \/ KeepOnly(c)
    PROVE  CutInv'
<1>0. TypeOK /\ RequestInv(call[c])
  BY DEF IInv
<1>1. /\ UNCHANGED <<jar, crossed, robbed>>
      /\ \E rs, lines, seen : rows' \in {rows, Revoke(rs, lines, seen)}
  BY DEF RotateRead, ReadRole, FindOne, SetPassword, LogoutRevoke, EndFound, SignOutAll, KeepOnly,
         session, account, history
<1>2. \A r \in 1 .. Len(rows) : rows'[r].state = "rotated" => rows[r].state = "rotated"
  BY <1>0, <1>1, NothingRotated
<1>3. \A d \in Calls : (GoesOn(d) \/ Ends(d)) /\ (Ends(d) /\ Answering(d) => GoesOn(d))
  BY <1>0, SteadyHandlers DEF Steady
<1>4. \A d \in Calls : ~(Ends(d) /\ Answering(d))
  BY <1>3 DEF GoesOn, Ends, Answering, Refreshes
<1>5. cut' \subseteq crossed \cup robbed
  <2>1. CASE UNCHANGED cut
    BY <2>1 DEF CutInv, CutOnlyByCrossingOrLoss
  <2>2. CASE KeepOnly(c)
    <3>1. Of(c) \notin crossed => call[c].raw = jar[Of(c)]
      BY <2>2 DEF KeepOnly, At, TouchesCookie, CutInv, CarriesTheCookie
    <3> QED
      BY <2>2, <3>1 DEF KeepOnly, CutInv, CutOnlyByCrossingOrLoss
  <2> QED
    BY <2>1, <2>2 DEF RotateRead, ReadRole, FindOne, SetPassword, LogoutRevoke, EndFound,
                      SignOutAll, account, history
<1> QED
  BY <1>1, <1>2, <1>3, <1>4, <1>5, CutStep

LEMMA AnswersCutNobody ==
    ASSUME IInv, CutInv, NEW c \in Calls, Welcome(c) \/ Clear(c) \/ Drop(c)
    PROVE  CutInv'
<1>0. /\ TypeOK /\ RequestInv(call[c]) /\ call[c] \in CallRecord /\ Of(c) \in Browsers
      /\ jar \in [Browsers -> 0 .. Len(rows)]
  BY SessionsAssumption DEF IInv, TypeOK, CallRecord, Of
<1>1. call' = [call EXCEPT ![c] = Idle]
  BY DEF Welcome, Clear, Drop, Finish
<1>2. Ends(c) /\ \A d \in Calls \ {c} : GoesOn(d) /\ (~Ends(d) \/ ~Answering(d))
  <2>1. call'[c] = Idle /\ \A d \in Calls \ {c} : GoesOn(d) /\ (~Ends(d) \/ ~Answering(d))
    BY <1>0, <1>1, OneMovesAlone
  <2> QED
    BY <2>1, IdleIs DEF Ends
<1>3. /\ crossed' = crossed /\ robbed \subseteq robbed'
      /\ \E rs : rows' \in {rows, Abandon(rs)}
  BY DEF Welcome, Clear, Drop, history
<1>4. \A r \in 1 .. Len(rows) : rows'[r].state = "rotated" => rows[r].state = "rotated"
  <2>1. ASSUME NEW rs, rows' \in {rows, Abandon(rs)}
        PROVE  \A r \in 1 .. Len(rows) : rows'[r].state = "rotated" => rows[r].state = "rotated"
    <3>1. CASE rows' = Abandon(rs)
      BY <1>0, <3>1, AbandonIs
    <3> QED
      BY <2>1, <3>1
  <2> QED
    BY <1>3, <2>1
<1>5. cut' \subseteq crossed \cup robbed'
  <2>1. CASE UNCHANGED cut
    BY <1>3, <2>1 DEF CutInv, CutOnlyByCrossingOrLoss
  <2>2. CASE Clear(c) /\ call[c].step = "expired"
    <3>1. SUFFICES ASSUME Live(jar[Of(c)]) \/ rows[call[c].raw].state = "rotated",
                          Of(c) \notin crossed, Of(c) \notin robbed
                   PROVE  FALSE
      BY <1>3, <2>2 DEF Clear, CutInv, CutOnlyByCrossingOrLoss
    <3>2. call[c].op \in Refreshes /\ call[c].raw # 0 /\ ~Live(call[c].raw)
      BY <1>0, <2>2 DEF RequestInv, CallRecord, Ops
    <3>3. call[c].raw = jar[Of(c)]
      BY <3>1, <3>2 DEF CutInv, CarriesTheCookie, TouchesCookie
    <3>4. PICK d \in Calls : Of(d) = Of(c) /\ Answering(d)
      BY <1>0, <3>1, <3>2, <3>3 DEF CutInv, UsedOnlyByRefresh
    <3>5. d = c
      BY <3>1, <3>2, <3>4 DEF CutInv, OneAtATime, Answering, TouchesCookie
    <3> QED
      BY <2>2, <3>4, <3>5 DEF Answering
  <2> QED
    BY <2>1, <2>2 DEF Welcome, Clear, Drop, history
<1>6. /\ \A b \in Browsers : jar'[b] = jar[b] \/ \E d \in Calls : Of(d) = b /\ Sets(d, jar'[b])
      /\ Answering(c) => Of(c) \in robbed' \/ jar'[Of(c)] \in {0, call[c].new}
  <2>1. CASE Drop(c)
    BY <2>1 DEF Drop, Answering
  <2>2. CASE Welcome(c) \/ Clear(c)
    <3>1. jar'[Of(c)] \in {0, call[c].new} /\ \A b \in Browsers \ {Of(c)} : jar'[b] = jar[b]
      BY <1>0, <2>2 DEF Welcome, Clear
    <3>2. call[c].op \in TouchesCookie
      BY <1>0, <2>2 DEF Welcome, Clear, RequestInv, CallRecord, Ops, TouchesCookie
    <3> QED
      BY <1>2, <3>1, <3>2 DEF Sets
  <2> QED
    BY <2>1, <2>2
<1> QED
  BY <1>2, <1>3, <1>4, <1>5, <1>6, CutStep

LEMMA RotationCutsNobody ==
    ASSUME IInv, CutInv, NEW c \in Calls, RotateRevoke(c)
    PROVE  CutInv'
<1> DEFINE raw == call[c].raw
<1>0. /\ TypeOK /\ RequestInv(call[c]) /\ call[c] \in CallRecord
      /\ call[c].op \in Refreshes /\ call[c].step = "revoke" /\ raw \in 1 .. Len(rows)
      /\ DOMAIN rows = 1 .. Len(rows)
      /\ UNCHANGED <<jar, crossed, robbed, cut>> /\ ~Answering(c)
  BY RowsAre DEF IInv, TypeOK, RotateRevoke, RequestInv, Refreshes, history, Answering
<1>1. cut' \subseteq crossed \cup robbed
  BY <1>0 DEF CutInv, CutOnlyByCrossingOrLoss
<1>2. CASE rows[raw].state = "gone"
  <2>1. UNCHANGED rows /\ call' = [call EXCEPT ![c] = Idle]
    BY <1>2 DEF RotateRevoke, Finish
  <2>2. call'[c] = Idle /\ \A d \in Calls \ {c} : GoesOn(d) /\ (~Ends(d) \/ ~Answering(d))
    BY <1>0, <2>1, OneMovesAlone
  <2>3. Ends(c)
    BY <2>2, IdleIs DEF Ends
  <2> QED
    BY <1>0, <1>1, <2>1, <2>2, <2>3, CutStep
<1>3. CASE rows[raw].state # "gone"
  <2> DEFINE q == [call[c] EXCEPT !.step = "issue"]
  <2>1. call' = [call EXCEPT ![c] = q]
    BY <1>3 DEF RotateRevoke, Proceed
  <2>2. /\ q.op = call[c].op /\ q.tab = call[c].tab /\ q.raw = call[c].raw /\ q.new = call[c].new
        /\ q.step = "issue"
    BY <1>0 DEF CallRecord
  <2> HIDE DEF q
  <2>3. call'[c] = q /\ \A d \in Calls \ {c} : GoesOn(d) /\ (~Ends(d) \/ ~Answering(d))
    BY <1>0, <2>1, OneMovesAlone
  <2>4. GoesOn(c) /\ Answering(c)'
    BY <1>0, <2>2, <2>3 DEF GoesOn, Answering
  <2>5. \A r \in 1 .. Len(rows) : r # raw => rows'[r] = rows[r]
    BY <1>0, <1>3 DEF RotateRevoke
  <2>6. \A r \in 1 .. Len(rows) : rows'[r].state = "rotated" =>
            \/ rows[r].state = "rotated"
            \/ \E d \in Calls : call[d].raw = r /\ GoesOn(d) /\ Answering(d)'
    BY <2>4, <2>5
  <2>7. \A d \in Calls : ~(Ends(d) /\ Answering(d))
    BY <1>0, <2>3
  <2> HIDE DEF raw
  <2> QED
    BY <1>0, <1>1, <2>3, <2>4, <2>6, <2>7, CutStep
<1> QED
  BY <1>2, <1>3

LEMMA IssueCutsNobody ==
    ASSUME IInv, CutInv, NEW c \in Calls, IssueRefreshToken(c)
    PROVE  CutInv'
<1> DEFINE n == Len(rows) + 1
           step == IF call[c].op = "signin" THEN "welcome" ELSE "role"
           q == [call[c] EXCEPT !.new = n, !.step = step]
<1>0. /\ TypeOK /\ RequestInv(call[c]) /\ call[c] \in CallRecord
      /\ rows \in Seq(RowRecord) /\ Len(rows) \in Nat /\ DOMAIN rows = 1 .. Len(rows)
      /\ UNCHANGED <<jar, crossed, robbed, cut>>
  BY RowsAre DEF IInv, TypeOK, IssueRefreshToken, history
<1>1. cut' \subseteq crossed \cup robbed
  BY <1>0 DEF CutInv, CutOnlyByCrossingOrLoss
<1>2. call' = [call EXCEPT ![c] = q]
  BY DEF IssueRefreshToken
<1>3. /\ q.op = call[c].op /\ q.tab = call[c].tab /\ q.raw = call[c].raw /\ q.new = n
      /\ q.step = step
  <2> HIDE DEF n, step
  <2> QED
    BY <1>0 DEF CallRecord
<1> HIDE DEF q
<1>4. call'[c] = q /\ \A d \in Calls \ {c} : GoesOn(d) /\ (~Ends(d) \/ ~Answering(d))
  BY <1>0, <1>2, OneMovesAlone
<1>5. rows'[n].state = "live" /\ \A r \in 1 .. Len(rows) : rows'[r] = rows[r]
  <2>1. Row(call[c].line, call[c].hit) \in RowRecord
    BY <1>0 DEF Row, RowRecord, States, CallRecord
  <2>2. rows' = Append(rows, Row(call[c].line, call[c].hit))
    BY DEF IssueRefreshToken
  <2>3. rows'[n] = Row(call[c].line, call[c].hit) /\ \A r \in 1 .. Len(rows) : rows'[r] = rows[r]
    BY <1>0, <2>1, <2>2, AppendProperties
  <2> QED
    BY <2>3 DEF Row
<1>6. GoesOn(c)
  <2>1. n > Len(rows)
    BY <1>0
  <2>2. Answering(c) => step = "role"
    BY DEF Answering, Refreshes
  <2> HIDE DEF n, step
  <2> QED
    BY <1>3, <1>4, <1>5, <2>1, <2>2 DEF GoesOn, Answering
<1>7. \A d \in Calls : ~(Ends(d) /\ Answering(d))
  BY <1>4, <1>6 DEF GoesOn, Ends, Answering, Refreshes
<1> QED
  BY <1>0, <1>1, <1>4, <1>5, <1>6, <1>7, CutStep

LEMMA ErasureCutsNobody ==
    ASSUME IInv, CutInv, EraseAccount
    PROVE  CutInv'
<1>0. /\ TypeOK /\ DOMAIN rows = 1 .. Len(rows) /\ UNCHANGED <<jar, crossed, robbed, cut>>
  BY RowsAre DEF IInv, EraseAccount, history
<1>1. \A d \in Calls : /\ call'[d].op = call[d].op /\ call'[d].step = call[d].step
                       /\ call'[d].tab = call[d].tab /\ call'[d].raw = call[d].raw
                       /\ call'[d].new = call[d].new
  BY <1>0, OvertakeIs DEF EraseAccount
<1>2. \A d \in Calls : GoesOn(d) /\ (~Ends(d) \/ ~Answering(d))
  BY <1>1 DEF GoesOn, Ends, Answering, Refreshes
<1>3. \A r \in 1 .. Len(rows) : rows'[r].state # "rotated"
  BY <1>0 DEF EraseAccount, Dead
<1>4. cut' \subseteq crossed \cup robbed
  BY <1>0 DEF CutInv, CutOnlyByCrossingOrLoss
<1> QED
  BY <1>0, <1>2, <1>3, <1>4, CutStep

\* A request that is sent carries the cookie of its browser, and crosses the one
\* that is under way with it.
LEMMA SendCutsNobody ==
    ASSUME IInv, CutInv, NEW c \in Calls, NEW t \in Tabs, NEW q, Send(c, t, q),
           q.tab = t, q.raw = jar[BrowserOf[t]], q.op = "one" \/ q.new = 0,
           UNCHANGED <<rows, jar>>
    PROVE  CutInv'
<1> DEFINE b == BrowserOf[t]
<1>0. /\ TypeOK /\ b \in Browsers /\ call[c].step = "idle" /\ call[c].op = "none"
      /\ call' = [call EXCEPT ![c] = q] /\ UNCHANGED <<robbed, cut>> /\ crossed \subseteq crossed'
      /\ \A d \in Calls : call[d].op \in TouchesCookie => d \in Busy
  BY SessionsAssumption DEF IInv, Send, RequestInv, Busy, TouchesCookie, Refreshes
<1>1. call'[c] = q /\ Of(c)' = b /\ \A d \in Calls \ {c} : call'[d] = call[d] /\ Of(d)' = Of(d)
  BY <1>0 DEF TypeOK, Of
<1>2. ASSUME NEW d \in Calls \ {c}, call[d].op \in TouchesCookie, Of(d) = b, q.op \in TouchesCookie
      PROVE  b \in crossed'
  BY <1>0, <1>2 DEF Send
<1>3. OneAtATime'
  <2> SUFFICES ASSUME NEW d \in Calls, NEW e \in Calls, d # e,
                      call'[d].op \in TouchesCookie, call'[e].op \in TouchesCookie,
                      Of(d)' = Of(e)', Of(d)' \notin crossed'
               PROVE  FALSE
    BY DEF OneAtATime
  <2> QED
    BY <1>0, <1>1, <1>2 DEF CutInv, OneAtATime
<1>4. CarriesTheCookie'
  <2> SUFFICES ASSUME NEW d \in Calls, call'[d].op \in TouchesCookie, Of(d)' \notin crossed'
               PROVE  call'[d].raw = jar[Of(d)']
    BY DEF CarriesTheCookie
  <2> QED
    BY <1>0, <1>1 DEF CutInv, CarriesTheCookie
<1>5. \A d \in Calls : \A r : r # 0 /\ Carries(d, r)' => Carries(d, r)
  BY <1>1 DEF Carries
<1>6. OwnToken'
  <2> SUFFICES ASSUME NEW d \in Calls, call'[d].raw # 0
               PROVE  /\ \A a \in Browsers : jar[a] = call'[d].raw => a = Of(d)'
                      /\ \A e \in Calls : ~Carries(e, call[d].raw)'
    BY DEF OwnToken
  <2>1. CASE d = c
    <3>1. call'[d].raw = jar[b] /\ Of(d)' = b
      BY <1>1, <2>1
    <3>2. /\ \A a \in Browsers : jar[a] = jar[b] => a = b
          /\ \A e \in Calls : ~Carries(e, jar[b])
      BY <1>0, <3>1 DEF IInv, CarriedOnce
    <3>3. \A e \in Calls : ~Carries(e, call[d].raw)'
      <4> SUFFICES ASSUME NEW e \in Calls, Carries(e, call[d].raw)' PROVE FALSE
        OBVIOUS
      <4>1. call'[e].op # "one" /\ call'[e].new = jar[b]
        BY <3>1 DEF Carries
      <4>2. Carries(e, jar[b])
        BY <1>1, <3>1, <4>1 DEF Carries
      <4> QED
        BY <3>2, <4>2
    <3> QED
      BY <3>1, <3>2, <3>3
  <2>2. CASE d # c
    <3>1. call'[d] = call[d] /\ Of(d)' = Of(d) /\ call[d].raw # 0
      BY <1>1, <2>2
    <3>2. /\ \A a \in Browsers : jar[a] = call[d].raw => a = Of(d)
          /\ \A e \in Calls : ~Carries(e, call[d].raw)
      BY <3>1 DEF CutInv, OwnToken
    <3>3. \A e \in Calls : ~Carries(e, call[d].raw)'
      BY <1>1, <3>1, <3>2 DEF Carries
    <3> QED
      BY <3>1, <3>2, <3>3
  <2> QED
    BY <2>1, <2>2
<1>7. UsedOnlyByRefresh'
  <2>1. \A d \in Calls : call'[d].op # "one" /\ call'[d].new # 0 =>
            rows'[call'[d].new].state # "rotated"
    BY <1>1 DEF CutInv, UsedOnlyByRefresh
  <2>2. ASSUME NEW a \in Browsers \ (crossed' \cup robbed'), jar[a] # 0, rows[jar[a]].state = "rotated"
        PROVE  \E d \in Calls : Of(d)' = a /\ call'[d].raw = jar[a] /\ Answering(d)'
    <3>1. PICK d \in Calls : Of(d) = a /\ call[d].raw = jar[a] /\ Answering(d)
      BY <1>0, <2>2 DEF CutInv, UsedOnlyByRefresh
    <3>2. d # c
      BY <1>0, <3>1 DEF Answering, Refreshes
    <3> QED
      BY <1>1, <3>1, <3>2 DEF Answering
  <2> QED
    BY <2>1, <2>2 DEF UsedOnlyByRefresh
<1>8. CutOnlyByCrossingOrLoss'
  BY <1>0 DEF CutInv, CutOnlyByCrossingOrLoss
<1> QED
  BY <1>3, <1>4, <1>6, <1>7, <1>8 DEF CutInv

LEMMA StartsCutNobody ==
    ASSUME IInv, CutInv, NEW c \in Calls, NEW t \in Tabs, Start(c, t)
    PROVE  CutInv'
<1>1. ASSUME NEW op \in Ops, NEW step \in Steps, Send(c, t, Request(op, step, t)),
             UNCHANGED <<rows, jar>>
      PROVE  CutInv'
  <2> DEFINE q == Request(op, step, t)
  <2>1. q.tab = t /\ q.raw = jar[BrowserOf[t]] /\ q.new = 0
    BY RequestIs
  <2>2. Send(c, t, q) /\ UNCHANGED <<rows, jar>>
    BY <1>1
  <2> HIDE DEF q
  <2> QED
    BY <2>1, <2>2, SendCutsNobody
<1>2. CASE SignIn(c, t)
  <2> DEFINE p == Request("signin", "issue", t)
             q == [p EXCEPT !.line = signIns + 1]
  <2>1. p \in CallRecord /\ p.tab = t /\ p.raw = jar[BrowserOf[t]] /\ p.new = 0
    BY RequestIs DEF Ops, Steps
  <2>2. q.tab = t /\ q.raw = jar[BrowserOf[t]] /\ q.new = 0
    <3> HIDE DEF p
    <3> QED
      BY <2>1 DEF CallRecord
  <2>3. Send(c, t, q) /\ UNCHANGED <<rows, jar>>
    BY <1>2 DEF SignIn
  <2> HIDE DEF q
  <2> QED
    BY <2>2, <2>3, SendCutsNobody
<1>3. ASSUME NEW r \in DOMAIN rows, EndOne(c, t, r) PROVE CutInv'
  <2> DEFINE p == Request("one", "find", t)
             q == [p EXCEPT !.new = r]
  <2>1. p \in CallRecord /\ p.tab = t /\ p.raw = jar[BrowserOf[t]] /\ p.op = "one"
    BY RequestIs DEF Ops, Steps
  <2>2. q.tab = t /\ q.raw = jar[BrowserOf[t]] /\ q.op = "one"
    <3> HIDE DEF p
    <3> QED
      BY <2>1 DEF CallRecord
  <2>3. Send(c, t, q) /\ UNCHANGED <<rows, jar>>
    BY <1>3 DEF EndOne, session
  <2> HIDE DEF q
  <2> QED
    BY <2>2, <2>3, SendCutsNobody
<1>4. CASE Logout(c, t)
  BY <1>1, <1>4 DEF Logout, Ops, Steps, session
<1>5. CASE RevokeOthers(c, t)
  BY <1>1, <1>5 DEF RevokeOthers, Ops, Steps, session
<1>6. CASE Reset(c, t)
  BY <1>1, <1>6 DEF Reset, Ops, Steps, session
<1>7. ASSUME NEW op \in Refreshes, Refresh(c, t, op) PROVE CutInv'
  BY <1>1, <1>7 DEF Refresh, Ops, Steps, session
<1> QED
  BY <1>2, <1>3, <1>4, <1>5, <1>6, <1>7 DEF Start

LEMMA NextCutsNobody == IInv /\ CutInv /\ [Next]_vars => CutInv'
<1> SUFFICES ASSUME IInv, CutInv, [Next]_vars PROVE CutInv'
  OBVIOUS
<1>1. ASSUME UNCHANGED <<rows, jar, call, crossed, robbed, cut>> PROVE CutInv'
  BY <1>1 DEF CutInv, OneAtATime, CarriesTheCookie, OwnToken, UsedOnlyByRefresh,
              CutOnlyByCrossingOrLoss, Answering, Carries, Of
<1>2. CASE UNCHANGED vars \/ SetUserSuspended \/ \E b \in Browsers : AccessExpires(b)
  BY <1>1, <1>2 DEF vars, session, history, SetUserSuspended, AccessExpires
<1>3. ASSUME NEW c \in Calls, Handle(c) \/ Drop(c) PROVE CutInv'
  BY <1>3, HandlersCutNobody, AnswersCutNobody, RotationCutsNobody, IssueCutsNobody DEF Handle
<1> QED
  BY <1>2, <1>3, ErasureCutsNobody, StartsCutNobody DEF Next

\* A refresh signs a browser out of a session nobody ended, and "sign out other
\* devices" ends the caller's own, only after two calls of the browser crossed or
\* the answer of a refresh was lost (api.ts, AuthContext.tsx, tokens.ts:73-93).
THEOREM CutIsExplained == Spec => []CutOnlyByCrossingOrLoss
<1>1. Init => IInv /\ CutInv
  BY InitIInv, InitCutInv
<1>2. IInv /\ CutInv /\ [Next]_vars => IInv' /\ CutInv'
  BY NextSafe, NextCutsNobody
<1>3. CutInv => CutOnlyByCrossingOrLoss
  BY DEF CutInv
<1> QED
  BY <1>1, <1>2, <1>3, PTL DEF Spec
===============================================================================

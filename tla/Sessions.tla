------------------------------- MODULE Sessions -------------------------------
(***************************************************************************)
(* The sessions of one account: rotating refresh tokens (lib/tokens.ts),   *)
(* the cookies of its browsers, the two ways a tab refreshes (lib/api.ts   *)
(* and AuthContext.tsx) and the routes and jobs that end sessions.  A      *)
(* handler is stepped at its awaits; answers reach a browser in any order, *)
(* and may be lost.                                                        *)
(***************************************************************************)
EXTENDS Integers, Sequences, FiniteSetsExt

CONSTANTS
    Browsers,    \* cookie jars
    Tabs,
    BrowserOf,
    Calls,       \* slots for requests in flight
    Offered,     \* the requests each tab sends in this instance
    MaySuspend,  \* whether operators suspend the account in this instance
    MayErase,    \* whether its deletion comes due
    MaxRows,     \* bound on refresh-token rows
    MaxSignIns,  \* bound on sign-ins
    MaxLost      \* bound on requests that die or whose answer is lost

ASSUME SessionsAssumption ==
    /\ Tabs # {} /\ BrowserOf \in [Tabs -> Browsers]
    /\ MaxRows \in Nat /\ MaxSignIns \in Nat /\ MaxLost \in Nat

VARIABLES
    rows,       \* RefreshToken rows, in order of creation
    jar,        \* the refresh_token cookie of a browser: a row, or 0
    access,     \* browsers whose access_token cookie is there and not expired
    signIns,    \* sign-ins that passed their check
    ended,      \* sign-ins whose end was reported to somebody
    suspended,  \* User.suspendedAt
    deleted,    \* User.deletedAt
    call,
    lost,
    crossed,    \* history: browsers with two session-changing calls at once
    robbed,     \* history: browsers whose refresh answer was lost
    cut         \* history: browsers a refresh signed out of a session nobody ended

session == <<rows, jar, access, signIns, ended>>
account == <<suspended, deleted>>
history == <<lost, crossed, robbed, cut>>
vars == <<session, account, call, history>>

Refreshes == {"retry", "load"}    \* tryRefresh, and the AuthProvider's own attempt

\* raw: the cookie the call carries; new: the row it created; line: the sign-in
\* it continues; hit: that line was ended while the call was half way; lines: the
\* sign-ins the call puts an end to; seen: the rows there were when it chose them.
Idle == [op |-> "none", step |-> "idle", tab |-> CHOOSE t \in Tabs : TRUE, raw |-> 0,
         new |-> 0, line |-> 0, hit |-> FALSE, lines |-> {}, seen |-> 0]

\* state: "rotated" and "ended" are both revokedAt, told apart for the properties;
\* late: issued by a call that was half way when its line was ended; left: no
\* browser will ever present it again.
Row(line, late) == [state |-> "live", line |-> line, late |-> late, left |-> FALSE]
Dead(state, line) == [state |-> state, line |-> line, late |-> FALSE, left |-> FALSE]

Init ==
    /\ rows = <<>>
    /\ jar = [b \in Browsers |-> 0]
    /\ access = {}
    /\ signIns = 0
    /\ ended = {}
    /\ suspended = FALSE /\ deleted = FALSE
    /\ call = [c \in Calls |-> Idle]
    /\ lost = 0
    /\ crossed = {} /\ robbed = {} /\ cut = {}

Live(r) == r # 0 /\ rows[r].state = "live"
LiveRows == {r \in DOMAIN rows : Live(r)}
At(c, op, step) == call[c].op = op /\ call[c].step = step
Of(c) == BrowserOf[call[c].tab]
Busy == {c \in Calls : call[c].step # "idle"}
Proceed(c, step) == call' = [call EXCEPT ![c].step = step]
Finish(c) == call' = [call EXCEPT ![c] = Idle]

-------------------------------------------------------------------------------
(* The browser.                                                            *)

TouchesCookie == Refreshes \cup {"signin", "logout", "others"}

\* Sending captures the cookie. A screen has one button under way.
Send(c, t, q) ==
    LET b == BrowserOf[t]
        rivals == {d \in Busy : Of(d) = b /\ call[d].op \in TouchesCookie}
    IN /\ q.op \in Offered[t]
       /\ call[c].step = "idle"
       /\ q.op \notin Refreshes => \A d \in Busy : call[d].tab = t => call[d].op \in Refreshes
       /\ call' = [call EXCEPT ![c] = q]
       /\ crossed' = IF q.op \in TouchesCookie /\ rivals # {} THEN crossed \cup {b} ELSE crossed
       /\ UNCHANGED <<lost, robbed, cut>>

Request(op, step, t) ==
    LET raw == jar[BrowserOf[t]] IN
    [Idle EXCEPT !.op = op, !.step = step, !.tab = t, !.raw = raw,
                 !.line = IF raw = 0 THEN 0 ELSE rows[raw].line]

\* Bound: every call that will create a row has room for it.
Room == Len(rows) + Cardinality({d \in Busy : call[d].step \in {"read", "revoke", "issue"}
                                               /\ call[d].op \in Refreshes \cup {"signin"}}) < MaxRows

\* A 401 of an ordinary call goes through the shared attempt of its tab; the
\* AuthProvider sends its own when the page loads.
RefreshInFlight(t, op) == \E d \in Busy : call[d].tab = t /\ call[d].op = op

Refresh(c, t, op) ==
    /\ jar[BrowserOf[t]] # 0 /\ BrowserOf[t] \notin access
    /\ ~RefreshInFlight(t, op)
    /\ Room
    /\ Send(c, t, Request(op, "read", t))
    /\ UNCHANGED <<session, account>>

AccessExpires(b) ==
    /\ b \in access
    /\ access' = access \ {b}
    /\ UNCHANGED <<rows, jar, signIns, ended, account, call, history>>

\* A row stays behind when its cookie is replaced or cleared by another call.
Abandon(rs) == [r \in DOMAIN rows |->
    IF r \in rs /\ rows[r].state = "live" THEN [rows[r] EXCEPT !.left = TRUE] ELSE rows[r]]

\* Mutant: a refresh renews the access cookie only.
WelcomeAccessOnly(c) ==
    /\ call[c].step = "welcome"
    /\ access' = access \cup {Of(c)}
    /\ jar' = IF call[c].op = "signin" THEN [jar EXCEPT ![Of(c)] = call[c].new] ELSE jar
    /\ Finish(c)
    /\ UNCHANGED <<rows, signIns, ended, account, history>>

\* setAuthCookies: the answer that comes last wins.
Welcome(c) ==
    /\ call[c].step = "welcome"
    /\ LET b == Of(c) IN
       /\ jar' = [jar EXCEPT ![b] = call[c].new]
       /\ access' = access \cup {b}
       /\ rows' = Abandon(IF call[c].op = "signin" THEN {jar[b]} ELSE {jar[b]} \ {call[c].raw})
    /\ Finish(c)
    /\ UNCHANGED <<signIns, ended, account, history>>

\* clearAuthCookies, after a refusal or a logout.
Clear(c) ==
    /\ call[c].step \in {"expired", "cutOff", "bye"}
    /\ LET b == Of(c) IN
       /\ jar' = [jar EXCEPT ![b] = 0]
       /\ access' = access \ {b}
       /\ rows' = Abandon({jar[b], call[c].new} \ {call[c].raw})
       /\ cut' = IF /\ call[c].step = "expired"
                    /\ Live(jar[b]) \/ rows[call[c].raw].state = "rotated"
                 THEN cut \cup {b} ELSE cut
    /\ ended' = IF call[c].step = "bye" THEN ended \cup ({call[c].line} \ {0}) ELSE ended
    /\ Finish(c)
    /\ UNCHANGED <<signIns, account, lost, crossed, robbed>>

-------------------------------------------------------------------------------
(* Tokens: issue, rotate, revoke.                                          *)

\* Lines are ended while other calls are between their read and their answer:
\* what those issue, or have issued and not delivered, comes late. So does a row
\* that was issued after the caller saw what there was to end.
Pending(lines) == {d \in Busy : call[d].op \in Refreshes \cup {"signin"} /\ call[d].line \in lines}

Overtake(lines) == [d \in Calls |->
    IF d \in Pending(lines) THEN [call[d] EXCEPT !.hit = TRUE] ELSE call[d]]

Revoke(rs, lines, seen) == [r \in DOMAIN rows |->
    IF ~Live(r) THEN rows[r]
    ELSE IF r \in rs THEN Dead("ended", rows[r].line)
    ELSE IF rows[r].line \in lines /\ (r > seen \/ \E d \in Pending(lines) : call[d].new = r)
         THEN [rows[r] EXCEPT !.late = TRUE] ELSE rows[r]]

\* startSession, once the credentials were accepted: the login screen, with a
\* password, a code or Google. An erased account is not found any more.
SignIn(c, t) ==
    /\ signIns < MaxSignIns /\ Room
    /\ ~deleted
    /\ Send(c, t, [Request("signin", "issue", t) EXCEPT !.line = signIns + 1])
    /\ signIns' = signIns + 1
    /\ UNCHANGED <<rows, jar, access, ended, account>>

\* rotateRefreshToken reads the row ...
RotateRead(c) ==
    /\ call[c].op \in Refreshes /\ call[c].step = "read"
    /\ LET raw == call[c].raw IN
       call' = [call EXCEPT ![c].step = IF Live(raw) THEN "revoke" ELSE "expired",
                            ![c].hit = @ \/ rows[raw].late]
    /\ UNCHANGED <<session, account, history>>

\* Mutant: the old token stays usable.
RotateKeeps(c) ==
    /\ call[c].op \in Refreshes /\ call[c].step = "revoke"
    /\ Proceed(c, "issue")
    /\ UNCHANGED <<session, account, history>>

\* ... revokes it whatever happened to it since; a row that was deleted is a 500 ...
RotateRevoke(c) ==
    /\ call[c].op \in Refreshes /\ call[c].step = "revoke"
    /\ LET raw == call[c].raw IN
       IF rows[raw].state = "gone"
       THEN Finish(c) /\ UNCHANGED rows
       ELSE /\ rows' = [rows EXCEPT ![raw] =
                  IF Live(raw) THEN Dead("rotated", @.line) ELSE @]
            /\ Proceed(c, "issue")
    /\ UNCHANGED <<jar, access, signIns, ended, account, history>>

\* ... and creates the next one. The user row outlives an erasure.
IssueRefreshToken(c) ==
    /\ call[c].step = "issue"
    /\ rows' = Append(rows, Row(call[c].line, call[c].hit))
    /\ call' = [call EXCEPT ![c].new = Len(rows) + 1,
                            ![c].step = IF call[c].op = "signin" THEN "welcome" ELSE "role"]
    /\ UNCHANGED <<jar, access, signIns, ended, account, history>>

\* POST /refresh reads the account again: a suspended one is cut off.
ReadRole(c) ==
    /\ call[c].step = "role"
    /\ Proceed(c, IF suspended THEN "cutOff" ELSE "welcome")
    /\ UNCHANGED <<session, account, history>>

-------------------------------------------------------------------------------
(* Ending sessions.                                                        *)

SignedIn(t) == BrowserOf[t] \in access

\* POST /logout answers whether or not there is a session. Any
\* other row of the line comes from a call that crossed another.
Logout(c, t) ==
    /\ Send(c, t, Request("logout", "logout", t))
    /\ UNCHANGED <<session, account>>

LogoutRevoke(c) ==
    /\ At(c, "logout", "logout")
    /\ LET line == {call[c].line} \ {0} IN
       /\ rows' = Revoke({call[c].raw}, line, 0)
       /\ call' = [Overtake(line) EXCEPT ![c].step = "bye"]
    /\ UNCHANGED <<jar, access, signIns, ended, account, history>>

\* POST /sessions/revoke-others: every live row but the one of the cookie sent.
RevokeOthers(c, t) ==
    /\ SignedIn(t) /\ jar[BrowserOf[t]] # 0
    /\ Send(c, t, Request("others", "others", t))
    /\ UNCHANGED <<session, account>>

KeepOnly(c) ==
    /\ At(c, "others", "others")
    /\ LET others == LiveRows \ {call[c].raw}
           lines == {rows[r].line : r \in others} \ {call[c].line}
       IN /\ rows' = Revoke(others, lines, Len(rows))
          /\ call' = [Overtake(lines) EXCEPT ![c] = Idle]
          /\ ended' = ended \cup lines
          /\ cut' = IF jar[Of(c)] \in others THEN cut \cup {Of(c)} ELSE cut
    /\ UNCHANGED <<jar, access, signIns, account, lost, crossed, robbed>>

\* DELETE /sessions/:id, from the list on the screen: found live, then revoked.
EndOne(c, t, r) ==
    /\ SignedIn(t)
    /\ Live(r) /\ r # jar[BrowserOf[t]]
    /\ Send(c, t, [Request("one", "find", t) EXCEPT !.new = r])
    /\ UNCHANGED <<session, account>>

\* The line ends with the row when no other row of it is live.
FindOne(c) ==
    /\ At(c, "one", "find")
    /\ LET r == call[c].new
           alone == \A o \in LiveRows \ {r} : rows[o].line # rows[r].line
       IN IF Live(r)
          THEN call' = [call EXCEPT ![c].step = "end", ![c].seen = Len(rows),
                                    ![c].lines = IF alone THEN {rows[r].line} ELSE {}]
          ELSE Finish(c)
    /\ UNCHANGED <<session, account, history>>

EndFound(c) ==
    /\ At(c, "one", "end")
    /\ IF rows[call[c].new].state = "gone"
       THEN Finish(c) /\ UNCHANGED <<rows, ended>>
       ELSE /\ rows' = Revoke({call[c].new}, call[c].lines, call[c].seen)
            /\ call' = [Overtake(call[c].lines) EXCEPT ![c] = Idle]
            /\ ended' = ended \cup call[c].lines
    /\ UNCHANGED <<jar, access, signIns, account, history>>

\* POST /reset, once its code was accepted: the password, then every session.
\* A sign-in that passed its check before knew the old password.
Reset(c, t) ==
    /\ Send(c, t, Request("reset", "password", t))
    /\ UNCHANGED <<session, account>>

SetPassword(c) ==
    /\ At(c, "reset", "password")
    /\ IF deleted THEN Finish(c)
       ELSE call' = [call EXCEPT ![c].step = "purge", ![c].lines = 1 .. signIns]
    /\ UNCHANGED <<session, account, history>>

\* Mutant: the reset spares the browser it came from.
SignOutOthers(c) ==
    /\ At(c, "reset", "purge")
    /\ rows' = Revoke(LiveRows \ {call[c].raw}, call[c].lines, Len(rows))
    /\ call' = [Overtake(call[c].lines) EXCEPT ![c] = Idle]
    /\ ended' = ended \cup call[c].lines
    /\ UNCHANGED <<jar, access, signIns, account, history>>

SignOutAll(c) ==
    /\ At(c, "reset", "purge")
    /\ rows' = Revoke(LiveRows, call[c].lines, Len(rows))
    /\ call' = [Overtake(call[c].lines) EXCEPT ![c] = Idle]
    /\ ended' = ended \cup call[c].lines
    /\ UNCHANGED <<jar, access, signIns, account, history>>

\* An operator suspends or reinstates the account; no session is touched.
SetUserSuspended ==
    /\ MaySuspend
    /\ suspended' = ~suspended
    /\ UNCHANGED <<session, deleted, call, history>>

\* eraseAccount, in the hourly job: one transaction. The user row stays.
EraseAccount ==
    /\ MayErase /\ ~deleted
    /\ deleted' = TRUE
    /\ rows' = [r \in DOMAIN rows |-> Dead("gone", rows[r].line)]
    /\ call' = Overtake(1 .. signIns)
    /\ ended' = 1 .. signIns
    /\ UNCHANGED <<jar, access, signIns, suspended, history>>

-------------------------------------------------------------------------------
(* Requests that die half way, and answers that never arrive.              *)

Drop(c) ==
    /\ c \in Busy /\ lost < MaxLost
    /\ lost' = lost + 1
    /\ rows' = IF call[c].op = "one" THEN rows ELSE Abandon({call[c].new})
    /\ robbed' = IF /\ call[c].op \in Refreshes
                    /\ call[c].step \in {"issue", "role", "welcome", "cutOff"}
                 THEN robbed \cup {Of(c)} ELSE robbed
    /\ Finish(c)
    /\ UNCHANGED <<jar, access, signIns, ended, account, crossed, cut>>

Handle(c) ==
    \/ RotateRead(c) \/ RotateRevoke(c) \/ IssueRefreshToken(c) \/ ReadRole(c)
    \/ LogoutRevoke(c) \/ KeepOnly(c) \/ FindOne(c) \/ EndFound(c)
    \/ SetPassword(c) \/ SignOutAll(c)
    \/ Welcome(c) \/ Clear(c)

Start(c, t) ==
    \/ SignIn(c, t) \/ Logout(c, t) \/ RevokeOthers(c, t) \/ Reset(c, t)
    \/ \E op \in Refreshes : Refresh(c, t, op)
    \/ \E r \in DOMAIN rows : EndOne(c, t, r)

Next ==
    \/ \E c \in Calls : Handle(c) \/ Drop(c) \/ \E t \in Tabs : Start(c, t)
    \/ \E b \in Browsers : AccessExpires(b)
    \/ SetUserSuspended \/ EraseAccount

Spec == Init /\ [][Next]_vars

-------------------------------------------------------------------------------
(* Properties.                                                             *)

States == {"live", "rotated", "ended", "gone"}
RowRecord == [state : States, line : Nat, late : BOOLEAN, left : BOOLEAN]
Ops == Refreshes \cup {"none", "signin", "logout", "others", "one", "reset"}
Steps == {"idle", "read", "revoke", "issue", "role", "welcome", "cutOff", "expired",
          "logout", "bye", "others", "find", "end", "password", "purge"}
CallRecord == [op : Ops, step : Steps, tab : Tabs, raw : Nat, new : Nat, line : Nat,
               hit : BOOLEAN, lines : SUBSET Nat, seen : Nat]

TypeOK ==
    /\ rows \in Seq(RowRecord)
    /\ \A r \in DOMAIN rows : rows[r].line \in 1 .. signIns
    /\ jar \in [Browsers -> 0 .. Len(rows)]
    /\ access \subseteq Browsers /\ signIns \in 0 .. MaxSignIns /\ ended \subseteq 1 .. signIns
    /\ suspended \in BOOLEAN /\ deleted \in BOOLEAN
    /\ call \in [Calls -> CallRecord]
    /\ \A c \in Calls : /\ call[c].raw \in 0 .. Len(rows) /\ call[c].new \in 0 .. Len(rows)
                        /\ call[c].seen \in 0 .. Len(rows)
                        /\ call[c].line \in 0 .. signIns /\ call[c].lines \subseteq 1 .. signIns
    /\ lost \in 0 .. MaxLost

\* A sign-in that somebody was told is over (logout, sign out a device, sign out
\* the others, a new password, an erased account) has no live row left, except
\* one issued by a refresh or a sign-in that was half way when the rows were
\* revoked, and one no browser will present again.
EndedStaysEnded ==
    \A r \in LiveRows : rows[r].line \in ended => rows[r].late \/ rows[r].left

\* Every live row is the cookie of a browser or on its way to one, except those
\* left behind by a lost answer, a suspension, a second sign-in, or two calls of
\* one browser at once: rotation never leaves the old row usable.
Held(r) ==
    \/ \E b \in Browsers : jar[b] = r
    \/ \E c \in Busy : call[c].op # "one" /\ r = call[c].new

NoStraySessions == \A r \in LiveRows : Held(r) \/ rows[r].left

\* A refresh signs a browser out of a session nobody ended, or "sign out other
\* devices" ends the caller's own, only when two calls of the browser crossed or
\* a refresh was answered and the answer lost.
CutOnlyByCrossingOrLoss == cut \subseteq crossed \cup robbed

\* "parallel 401s share the same attempt instead of racing the rotating refresh
\* token (which would log the user out)": one tab with no lost answer, whose only
\* calls are refreshes, is never signed out by them.
ParallelRefreshesKeepTheSession == cut = {}

-------------------------------------------------------------------------------
(* The inductive invariant behind EndedStaysEnded and NoStraySessions.     *)

\* Which step a request can be at, and what it has done to the token it carries.
RequestInv(q) ==
    /\ q.step = "idle" <=> q.op = "none"
    /\ q.op \in Refreshes =>
           /\ q.step \in {"read", "revoke", "issue", "role", "welcome", "cutOff", "expired"}
           /\ q.raw # 0 /\ q.line = rows[q.raw].line
           /\ q.step \notin {"read", "revoke"} => ~Live(q.raw)
    /\ q.op = "signin" => q.step \in {"issue", "welcome"} /\ q.line # 0
    /\ q.op = "logout" => /\ q.step \in {"logout", "bye"}
                          /\ q.step = "bye" => ~Live(q.raw)
    /\ q.op = "others" => q.step = "others" /\ q.raw # 0 /\ q.line = rows[q.raw].line
    /\ q.op = "one" => q.step \in {"find", "end"} /\ q.new # 0
    /\ q.op = "reset" => q.step \in {"password", "purge"}
    /\ q.new # 0 => q.op = "one" \/ q.step \in {"role", "welcome", "cutOff"}

\* A token has one carrier: a cookie jar, or the answer that brings it.
Carries(c, r) == call[c].op # "one" /\ call[c].new = r

CarriedOnce ==
    /\ \A a, b \in Browsers : jar[a] # 0 /\ jar[a] = jar[b] => a = b
    /\ \A c \in Calls, b \in Browsers : jar[b] # 0 => ~Carries(c, jar[b])
    /\ \A c, d \in Calls : call[c].new # 0 /\ call[c].op # "one" /\ Carries(d, call[c].new) => c = d

LeftIsGone == \A r \in DOMAIN rows : rows[r].left =>
    (\A b \in Browsers : jar[b] # r) /\ (\A c \in Calls : ~Carries(c, r))

\* A sign-in has ended, or its logout waits for its answer.
Over(line) == line \in ended \/ \E c \in Calls : call[c].step = "bye" /\ call[c].line = line

OverStaysOver == \A r \in LiveRows : Over(rows[r].line) => rows[r].late \/ rows[r].left

\* What still issues a row for a sign-in that is over knows it comes late.
IssuersAreHit ==
    \A c \in Calls :
        call[c].step \in {"read", "revoke", "issue"} /\ Over(call[c].line) =>
            \/ call[c].hit
            \/ call[c].step = "read" /\ (Live(call[c].raw) => rows[call[c].raw].late)

\* A device that was found to be the last of its sign-in still is.
FoundAlone ==
    \A c \in Calls : At(c, "one", "end") =>
        \A r \in LiveRows : r <= call[c].seen /\ rows[r].line \in call[c].lines => r = call[c].new

IInv ==
    /\ TypeOK
    /\ \A c \in Calls : RequestInv(call[c])
    /\ CarriedOnce /\ LeftIsGone
    /\ OverStaysOver /\ IssuersAreHit /\ FoundAlone
    /\ NoStraySessions

-------------------------------------------------------------------------------
(* The inductive invariant behind CutOnlyByCrossingOrLoss.                 *)

\* A browser whose calls never crossed has one of them at a time that touches the
\* cookie, and that call carries the cookie the browser still has.
OneAtATime ==
    \A c, d \in Calls :
        (/\ call[c].op \in TouchesCookie /\ call[d].op \in TouchesCookie
         /\ Of(c) = Of(d) /\ Of(c) \notin crossed) => c = d

CarriesTheCookie ==
    \A c \in Calls :
        call[c].op \in TouchesCookie /\ Of(c) \notin crossed => call[c].raw = jar[Of(c)]

\* What a call carries was never another browser's cookie, and is not on its way to one.
OwnToken ==
    \A c \in Calls : call[c].raw # 0 =>
        /\ \A b \in Browsers : jar[b] = call[c].raw => b = Of(c)
        /\ \A d \in Calls : ~Carries(d, call[c].raw)

\* A token that is on its way has not been used, and one that was used and is still
\* a cookie belongs to a refresh whose answer is under way.
Answering(c) == call[c].op \in Refreshes /\ call[c].step \in {"issue", "role", "welcome", "cutOff"}

UsedOnlyByRefresh ==
    /\ \A c \in Calls : call[c].op # "one" /\ call[c].new # 0 => rows[call[c].new].state # "rotated"
    /\ \A b \in Browsers \ (crossed \cup robbed) :
           jar[b] # 0 /\ rows[jar[b]].state = "rotated" =>
               \E c \in Calls : Of(c) = b /\ call[c].raw = jar[b] /\ Answering(c)

CutInv ==
    /\ OneAtATime /\ CarriesTheCookie /\ OwnToken /\ UsedOnlyByRefresh
    /\ CutOnlyByCrossingOrLoss
===============================================================================

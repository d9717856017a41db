-------------------------------- MODULE SignIn --------------------------------
(***************************************************************************)
(* Signing in to one account: the password and its lock (auth.routes.ts),  *)
(* the one-time codes that verify an address, reset a password, sign in    *)
(* with two factors, step up to the operator console or turn the second    *)
(* factor on (otp.ts, users.routes.ts).  Handlers are stepped at their     *)
(* awaits, of which hashing and comparing are the long ones.               *)
(***************************************************************************)
EXTENDS Integers, Sequences, FiniteSets

CONSTANTS
    Calls,             \* slots for handlers under way
    Offered,           \* the operations of this instance
    Passwords,
    Accounts,          \* whether there may be a verified account to begin with, or none
    MaxFailedLogins, MaxAttempts, MaxActiveSends,
    MaxCalls,          \* bound on the handlers begun
    MaxCodes           \* bound on the codes sent

Operations == {"signup", "resend", "verify", "login", "loginVerify", "console", "consoleVerify",
               "forgot", "reset", "start", "confirm", "disable", "google"}

ASSUME SignInAssumption ==
    /\ Offered \subseteq Operations /\ Accounts \subseteq BOOLEAN
    /\ Passwords # {}
    /\ MaxFailedLogins \in Nat \ {0} /\ MaxAttempts \in Nat \ {0} /\ MaxActiveSends \in Nat \ {0}
    /\ MaxCalls \in Nat /\ MaxCodes \in Nat

VARIABLES
    user,     \* the User row
    codes,    \* OtpCode rows, oldest first
    call, begun,
    misses,   \* history: wrong passwords in a row
    spent,    \* history: how often each code was accepted
    rush,     \* history: the most verifications that had each code listed at once
    flood,    \* history: the most sends of each purpose counted and not inserted at once
    crossed   \* history: fields of the row two handlers were at work on at once

peaks == <<rush, flood>>
history == <<misses, spent, peaks, crossed>>
vars == <<user, codes, call, begun, history>>

Purposes == {"signup", "reset", "two_factor_setup", "step_up", "login_2fa"}

Idle == [op |-> "none", step |-> "idle", pw |-> {}, guess |-> 0, list |-> {}, seen |-> {}]

Init ==
    /\ \E exists \in Accounts, operator \in BOOLEAN :
       user = [exists |-> exists, verified |-> exists, factor |-> FALSE, operator |-> operator,
               password |-> IF exists THEN {CHOOSE p \in Passwords : TRUE} ELSE {},
               failed |-> 0, lock |-> "no"]
    /\ codes = <<>>
    /\ call = [c \in Calls |-> Idle] /\ begun = 0
    /\ misses = 0 /\ spent = <<>> /\ crossed = {}
    /\ rush = <<>> /\ flood = [purpose \in Purposes |-> 0]

At(c, step) == call[c].step = step
Put(c, q) == call' = [call EXCEPT ![c] = q]
Step(c, step) == Put(c, [call[c] EXCEPT !.step = step])
Done(c) == Put(c, Idle)

\* The fields of the User row these handlers keep, and the row as it was read, of
\* which a handler has one or none.
Rows == [exists : BOOLEAN, verified : BOOLEAN, factor : BOOLEAN, operator : BOOLEAN,
         password : SUBSET Passwords, failed : Nat, lock : {"no", "on", "over"}]

Seen(c) == CHOOSE u \in call[c].seen : TRUE

\* The code a handler of this kind sends or asks for.
Purpose(op) ==
    CASE op \in {"signup", "resend", "verify"} -> "signup"
      [] op \in {"forgot", "reset"} -> "reset"
      [] op \in {"start", "confirm"} -> "two_factor_setup"
      [] op \in {"console", "consoleVerify"} -> "step_up"
      [] OTHER -> "login_2fa"

Sent(op, u) == IF op = "login" /\ ~u.verified THEN "signup" ELSE Purpose(op)

Active(purpose) == {i \in DOMAIN codes : codes[i].purpose = purpose /\ codes[i].state = "live"}

-------------------------------------------------------------------------------
(* Requests.                                                               *)

\* What of the row an operation writes.
Writes(op) ==
    CASE op \in {"login", "console"} -> {"lock"}
      [] op = "reset" -> {"lock", "password"}
      [] op \in {"signup", "verify", "google"} -> {"password"}
      [] OTHER -> {}

Shared(op1, op2) == Writes(op1) \cap Writes(op2)

Crossing(op) == UNION {Shared(op, call[d].op) : d \in Calls}

Begin(c, op, step, pw) ==
    /\ op \in Offered /\ At(c, "idle") /\ begun < MaxCalls
    /\ begun' = begun + 1
    /\ Put(c, [Idle EXCEPT !.op = op, !.step = step, !.pw = pw, !.seen = {user}])
    /\ crossed' = crossed \cup Crossing(op)
    /\ UNCHANGED <<user, codes, misses, spent, peaks>>

\* Mutant: signing up does not ask whether the account is verified.
SignUpAgain(c) == \E p \in Passwords : Begin(c, "signup", "write", {p})

\* A verified account cannot sign up again; one that never was can.
SignUp(c) == \E p \in Passwords : ~user.verified /\ Begin(c, "signup", "write", {p})

ResendCode(c) == user.exists /\ ~user.verified /\ Begin(c, "resend", "count", {})

\* A locked account is turned away before its password is looked at.
LogIn(c) == \E p \in Passwords : user.exists /\ user.lock # "on" /\ Begin(c, "login", "compare", {p})

ConsoleLogIn(c) == \E p \in Passwords : user.exists /\ user.lock # "on" /\ Begin(c, "console", "compare", {p})

Forgot(c) == user.exists /\ Begin(c, "forgot", "count", {})

StartFactor(c) == user.verified /\ ~user.factor /\ Begin(c, "start", "count", {})

\* Turning the factor off asks for the password: the one who has it is meant.
DisableFactor(c) == user.verified /\ user.password # {} /\ Begin(c, "disable", "off", {})

SignInWithGoogle(c) == Begin(c, "google", "link", {})

\* Mutant: a code can be tried for as long as it lives.
Unlimited(purpose) == Active(purpose)

\* The list a code is looked for in: unused, unexpired, not tried too often.
Candidates(purpose) == {i \in Active(purpose) : codes[i].attempts < MaxAttempts}

\* The verifications that have a code on their list.
Listing(i) == {c \in Calls : i \in call[c].list}

Larger(m, n) == IF m < n THEN n ELSE m

ListCodes(c, op, pw) ==
    LET list == Candidates(Purpose(op)) IN
    /\ op \in Offered /\ At(c, "idle") /\ begun < MaxCalls /\ list # {}
    /\ begun' = begun + 1
    /\ \E guess \in {0} \cup list :
          Put(c, [Idle EXCEPT !.op = op, !.step = "try", !.list = list, !.guess = guess, !.pw = pw])
    /\ rush' = [i \in DOMAIN codes |-> Larger(rush[i], Cardinality(Listing(i)'))]
    /\ crossed' = crossed \cup Crossing(op)
    /\ UNCHANGED <<user, codes, misses, spent, flood>>

VerifyEmail(c) == ListCodes(c, "verify", {})

\* The factor may have been turned off since the code was sent.
VerifyLogIn(c) == user.factor /\ ListCodes(c, "loginVerify", {})

VerifyConsole(c) == user.operator /\ ListCodes(c, "consoleVerify", {})

ResetPassword(c) == \E p \in Passwords : ListCodes(c, "reset", {p})

ConfirmFactor(c) == user.verified /\ ListCodes(c, "confirm", {})

-------------------------------------------------------------------------------
(* createOtp and consumeOtp.                                               *)

\* Sends of a purpose between their count and their insert.
Creating(c, purpose) == At(c, "create") /\ Sent(call[c].op, Seen(c)) = purpose

Sending(purpose) == {c \in Calls : Creating(c, purpose)}

\* Mutant: one code too many.
RoomForOneMore(purpose) == Cardinality(Active(purpose)) <= MaxActiveSends

Room(purpose) == Cardinality(Active(purpose)) < MaxActiveSends

CountActive(c) ==
    /\ At(c, "count")
    /\ IF Room(Sent(call[c].op, Seen(c)))
       THEN /\ Step(c, "create")
            /\ flood' = [purpose \in Purposes |->
                            Larger(flood[purpose], Cardinality(Sending(purpose)'))]
       ELSE Done(c) /\ UNCHANGED flood
    /\ UNCHANGED <<user, codes, begun, misses, spent, rush, crossed>>

CreateCode(c) ==
    /\ At(c, "create") /\ Len(codes) < MaxCodes
    /\ codes' = Append(codes, [purpose |-> Sent(call[c].op, Seen(c)), state |-> "live", attempts |-> 0])
    /\ spent' = Append(spent, 0) /\ rush' = Append(rush, 0)
    /\ Done(c)
    /\ UNCHANGED <<user, begun, misses, flood, crossed>>

CodeExpires(i) ==
    /\ codes[i].state = "live"
    /\ codes' = [codes EXCEPT ![i].state = "expired"]
    /\ UNCHANGED <<user, call, begun, history>>

\* Newest first. A code that does not match has one attempt more, the one that
\* does is consumed; neither update looks at the row again.
TryCode(c) ==
    /\ At(c, "try")
    /\ \E i \in call[c].list :
          /\ \A j \in call[c].list : j <= i
          /\ \/ /\ i = call[c].guess
                /\ codes' = [codes EXCEPT ![i].state = "used"]
                /\ spent' = [spent EXCEPT ![i] = @ + 1]
                /\ Put(c, [call[c] EXCEPT !.step = "accept", !.list = {}])
             \/ /\ i # call[c].guess
                /\ codes' = [codes EXCEPT ![i].attempts = @ + 1]
                /\ Put(c, [call[c] EXCEPT !.list = @ \ {i}])
                /\ UNCHANGED spent
    /\ UNCHANGED <<user, begun, misses, peaks, crossed>>

NoCodeMatches(c) ==
    /\ At(c, "try") /\ call[c].list = {}
    /\ Done(c)
    /\ UNCHANGED <<user, codes, begun, history>>

\* What an accepted code does. The sessions that start or end here are another
\* module's.
Accepted(c, op) == At(c, "accept") /\ call[c].op = op /\ Done(c)

MarkVerified(c) ==
    /\ Accepted(c, "verify") /\ user' = [user EXCEPT !.verified = TRUE]
    /\ UNCHANGED <<codes, begun, history>>

\* A reset proves the mailbox, so it verifies, and it clears the lock.
WritePassword(c) ==
    /\ Accepted(c, "reset")
    /\ user' = [user EXCEPT !.password = call[c].pw, !.verified = TRUE, !.failed = 0, !.lock = "no"]
    /\ misses' = 0
    /\ UNCHANGED <<codes, begun, spent, peaks, crossed>>

TurnFactorOn(c) ==
    /\ Accepted(c, "confirm") /\ user' = [user EXCEPT !.factor = TRUE]
    /\ UNCHANGED <<codes, begun, history>>

LetIn(c) ==
    /\ Accepted(c, "loginVerify") \/ Accepted(c, "consoleVerify")
    /\ UNCHANGED <<user, codes, begun, history>>

-------------------------------------------------------------------------------
(* The other writes.                                                       *)

\* A new row, or the row that was read, whatever has become of it.
WriteSignUp(c) ==
    /\ At(c, "write")
    /\ IF user.exists /\ ~Seen(c).exists
       THEN Done(c) /\ UNCHANGED user
       ELSE /\ user' = [user EXCEPT !.exists = TRUE, !.password = call[c].pw]
            /\ Step(c, "count")
    /\ UNCHANGED <<codes, begun, history>>

\* Mutant: one wrong password more before the lock.
CompareLeniently(c) ==
    /\ At(c, "compare")
    /\ IF call[c].pw # Seen(c).password
       THEN LET failed == Seen(c).failed + 1 IN
            /\ user' = [user EXCEPT !.failed = failed,
                                       !.lock = IF failed > MaxFailedLogins THEN "on" ELSE "no"]
            /\ misses' = misses + 1
            /\ Done(c)
       ELSE IF call[c].op = "console" /\ ~Seen(c).operator
       THEN Done(c) /\ UNCHANGED <<user, misses>>
       ELSE /\ IF Seen(c).failed > 0 \/ Seen(c).lock # "no"
               THEN user' = [user EXCEPT !.failed = 0, !.lock = "no"]
               ELSE UNCHANGED user
            /\ misses' = 0
            /\ IF call[c].op = "console" \/ ~Seen(c).verified \/ Seen(c).factor
               THEN Step(c, "count") ELSE Done(c)
    /\ UNCHANGED <<codes, begun, spent, peaks, crossed>>

\* The failures counted are those of the row that was read, and so is the lock.
\* The console hides from whoever is no operator, before it clears anything.
ComparePassword(c) ==
    /\ At(c, "compare")
    /\ IF call[c].pw # Seen(c).password
       THEN LET failed == Seen(c).failed + 1 IN
            /\ user' = [user EXCEPT !.failed = failed,
                                       !.lock = IF failed >= MaxFailedLogins THEN "on" ELSE "no"]
            /\ misses' = misses + 1
            /\ Done(c)
       ELSE IF call[c].op = "console" /\ ~Seen(c).operator
       THEN Done(c) /\ UNCHANGED <<user, misses>>
       ELSE /\ IF Seen(c).failed > 0 \/ Seen(c).lock # "no"
               THEN user' = [user EXCEPT !.failed = 0, !.lock = "no"]
               ELSE UNCHANGED user
            /\ misses' = 0
            /\ IF call[c].op = "console" \/ ~Seen(c).verified \/ Seen(c).factor
               THEN Step(c, "count") ELSE Done(c)
    /\ UNCHANGED <<codes, begun, spent, peaks, crossed>>

LockExpires ==
    /\ user.lock = "on"
    /\ user' = [user EXCEPT !.lock = "over"]
    /\ UNCHANGED <<codes, call, begun, history>>

LinkGoogle(c) ==
    /\ At(c, "link")
    /\ IF user.exists /\ ~Seen(c).exists THEN UNCHANGED user
       ELSE user' = [user EXCEPT !.exists = TRUE, !.verified = TRUE]
    /\ Done(c)
    /\ UNCHANGED <<codes, begun, history>>

TurnFactorOff(c) ==
    /\ At(c, "off")
    /\ user' = [user EXCEPT !.factor = FALSE]
    /\ Done(c)
    /\ UNCHANGED <<codes, begun, history>>

Next ==
    \/ \E c \in Calls :
          \/ SignUp(c) \/ ResendCode(c) \/ LogIn(c) \/ ConsoleLogIn(c) \/ Forgot(c)
          \/ StartFactor(c) \/ DisableFactor(c) \/ SignInWithGoogle(c)
          \/ VerifyEmail(c) \/ VerifyLogIn(c) \/ VerifyConsole(c) \/ ResetPassword(c) \/ ConfirmFactor(c)
          \/ CountActive(c) \/ CreateCode(c) \/ TryCode(c) \/ NoCodeMatches(c)
          \/ MarkVerified(c) \/ WritePassword(c) \/ TurnFactorOn(c) \/ LetIn(c)
          \/ WriteSignUp(c) \/ ComparePassword(c) \/ LinkGoogle(c) \/ TurnFactorOff(c)
    \/ \E i \in DOMAIN codes : CodeExpires(i)
    \/ LockExpires

Spec == Init /\ [][Next]_vars

-------------------------------------------------------------------------------
(* Properties.                                                             *)

\* What a handler keeps, and which operations come to which step.
Reading == {"write", "compare", "link", "off", "count", "create"}

Came(step) ==
    CASE step = "idle" -> {"none"}
      [] step = "write" -> {"signup"}
      [] step = "compare" -> {"login", "console"}
      [] step = "link" -> {"google"}
      [] step = "off" -> {"disable"}
      [] step \in {"count", "create"} -> {"signup", "resend", "login", "console", "forgot", "start"}
      [] step \in {"try", "accept"} -> {"verify", "reset", "loginVerify", "consoleVerify", "confirm"}

Handlers == [op : Operations \cup {"none"}, step : Reading \cup {"idle", "try", "accept"},
             pw : SUBSET Passwords, guess : Nat, list : SUBSET DOMAIN codes, seen : SUBSET Rows]

Shaped(q) ==
    /\ q.op \in Came(q.step)
    /\ q.step \in Reading => q.seen # {}
    /\ q.step # "try" => q.list = {}

Codes == [purpose : Purposes, state : {"live", "used", "expired"}, attempts : Nat]

TypeOK ==
    /\ user \in Rows /\ codes \in Seq(Codes)
    /\ spent \in [DOMAIN codes -> Nat]
    /\ rush \in [DOMAIN codes -> Nat] /\ flood \in [Purposes -> Nat]
    /\ begun \in Nat /\ misses \in Nat
    /\ call \in [Calls -> Handlers] /\ \A c \in Calls : Shaped(call[c])

\* A code is accepted once and tried MaxAttempts times at most, its acceptance
\* among them; verifications that had it on their lists at once, which is read
\* before any of them writes, add no more than one apiece to either.
CodesSpentOnce ==
    \A i \in DOMAIN codes :
        /\ spent[i] <= rush[i]
        /\ codes[i].attempts + spent[i] < MaxAttempts + rush[i]

\* At most MaxActiveSends codes of a purpose wait to be entered, and one more for
\* each further send that was counted for before the others had their code.
SendsBounded ==
    \A purpose \in Purposes :
        Cardinality(Active(purpose)) < MaxActiveSends + flood[purpose]

\* Every wrong password counts, and MaxFailedLogins in a row lock the account
\* until the lock runs out, a code resets the password or the right one is given,
\* unless logins overlapped each other or a reset.
MissesLock ==
    "lock" \in crossed
    \/ /\ user.failed = misses
       /\ user.lock # "no" <=> misses >= MaxFailedLogins

\* The password of a verified account changes by a reset only: "An account with
\* this email already exists", unless the sign-up overlapped the verification.
VerifiedPasswordStays ==
    [][user.verified /\ user'.password # user.password =>
          "password" \in crossed \/ \E c \in Calls : call[c].op = "reset"]_vars

-------------------------------------------------------------------------------
(* What makes them inductive: a handler alone at a field of the row knows it  *)
(* as it is, and what handlers may still do to a code, or to the codes of a   *)
(* purpose, fits beside what was done into the limit and their number.        *)

CodeInv ==
    \A i \in DOMAIN codes :
        /\ codes[i].state = "live" => spent[i] = 0
        /\ IsFiniteSet(Listing(i))
        /\ spent[i] + Cardinality(Listing(i)) <= rush[i]
        /\ codes[i].attempts + spent[i] + Cardinality(Listing(i)) < MaxAttempts + rush[i]

SendsInv ==
    \A purpose \in Purposes :
        /\ IsFiniteSet(Sending(purpose))
        /\ Cardinality(Sending(purpose)) <= flood[purpose]
        /\ Cardinality(Active(purpose)) + Cardinality(Sending(purpose))
               < MaxActiveSends + flood[purpose]

AloneAt(field) ==
    \A c, d \in Calls : field \in Writes(call[c].op) \cap Writes(call[d].op) => c = d

LockInv ==
    \/ "lock" \in crossed
    \/ /\ AloneAt("lock")
       /\ user.failed = misses
       /\ user.lock # "no" <=> misses >= MaxFailedLogins
       /\ \A c \in Calls : At(c, "compare") =>
             /\ Seen(c).failed = user.failed
             /\ Seen(c).lock = "no" <=> user.lock = "no"

PasswordInv ==
    \/ "password" \in crossed
    \/ /\ AloneAt("password")
       /\ \A c \in Calls : At(c, "write") => ~user.verified

IInv == TypeOK /\ CodeInv /\ SendsInv /\ LockInv /\ PasswordInv
===============================================================================

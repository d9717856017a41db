-------------------------------- MODULE Mailbox --------------------------------
(***************************************************************************)
(* What the outbox promises the handlers that write to it: a letter that   *)
(* was posted ends in one way, for good.  It is sent only if the mail      *)
(* server took it, given up only after the last attempt, dropped only if   *)
(* it is not about security; a mail too many is paid for by a fault.       *)
(***************************************************************************)
EXTENDS Integers

CONSTANTS Letters, Security, Retired, MaxAttempts

VARIABLES
    fate,       \* "absent", "open", "sent", "skipped" or "failed"
    attempts,   \* attempts that failed
    mails,      \* mails the server took
    faults

Init ==
    /\ fate = [n \in Letters |-> "absent"]
    /\ attempts = [n \in Letters |-> 0]
    /\ mails = [n \in Letters |-> 0]
    /\ faults = 0

Becomes(n, end) == fate' = [fate EXCEPT ![n] = end]
Open(n) == fate[n] = "open"
Mailable(n) == Open(n) /\ n \notin Retired

Post(n) ==
    /\ fate[n] = "absent" /\ Becomes(n, "open")
    /\ UNCHANGED <<attempts, mails, faults>>

Deliver(n) ==
    /\ Mailable(n) /\ mails[n] <= faults
    /\ mails' = [mails EXCEPT ![n] = @ + 1]
    /\ UNCHANGED <<fate, attempts, faults>>

Confirm(n) ==
    /\ Mailable(n) /\ mails[n] > 0 /\ Becomes(n, "sent")
    /\ UNCHANGED <<attempts, mails, faults>>

TryAgain(n) ==
    /\ Mailable(n) /\ attempts[n] + 1 < MaxAttempts
    /\ attempts' = [attempts EXCEPT ![n] = @ + 1]
    /\ UNCHANGED <<fate, mails, faults>>

GiveUp(n) ==
    /\ Mailable(n) /\ attempts[n] + 1 = MaxAttempts /\ Becomes(n, "failed")
    /\ attempts' = [attempts EXCEPT ![n] = @ + 1]
    /\ UNCHANGED <<mails, faults>>

Skip(n) ==
    /\ Mailable(n) /\ n \notin Security /\ Becomes(n, "skipped")
    /\ UNCHANGED <<attempts, mails, faults>>

Reject(n) ==
    /\ Open(n) /\ n \in Retired /\ Becomes(n, "failed")
    /\ UNCHANGED <<attempts, mails, faults>>

Slip ==
    /\ faults' = faults + 1
    /\ UNCHANGED <<fate, attempts, mails>>

Handle(n) ==
    \/ Post(n) \/ Deliver(n) \/ Confirm(n) \/ TryAgain(n) \/ GiveUp(n)
    \/ Skip(n) \/ Reject(n)

Next == Slip \/ \E n \in Letters : Handle(n)

Spec == Init /\ [][Next]_<<fate, attempts, mails, faults>>
================================================================================

SPECIFICATION FairSpec
CONSTANTS
    Notifications = {n1, n2, n3}
    Users = {u1}
    Owner <- OneOwner
    Security = {n1}
    Retired = {}
    Workers = {w1}
    Batch = 2
    DailyCap = 1
    MaxAttempts = 2
    MaxFaults = 1
    MaxDay = 1
INVARIANTS WithinDailyCap
PROPERTIES MailboxHolds QueuedIsSettled
CHECK_DEADLOCK FALSE

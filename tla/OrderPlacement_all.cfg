SPECIFICATION FairSpec
CONSTANTS
    r1 = r1
    r2 = r2
    r3 = r3
    r4 = r4
    u1 = u1
    u2 = u2
    k1 = k1
    NoKey = NoKey
    Requests = {r1, r2, r3, r4}
    Users = {u1, u2}
    Keys = {k1}
    Sender <- Senders
    KeyOf <- KeysSent
    CouponRequests = {r2, r3, r4}
    UsageLimit = 1
    FirstOrderOnly = TRUE
    MaxCrashes = 2
INVARIANTS DiscountsWithinLimits
PROPERTIES AttemptsHold CreateSucceeds
CHECK_DEADLOCK FALSE

SPECIFICATION FairSpec
CONSTANTS
    u1 = u1
    a1 = a1
    minute = minute
    daily = daily
    hourly = hourly
    c1 = c1
    c2 = c2
    Users = {u1}
    Alerts = {a1}
    Owner <- Owners
    Passes = {minute, daily, hourly}
    Job <- Jobs
    Calls = {c1, c2}
    MaxBusy = 2
    MaxPeriods = 2
    MaxAsks = 2
    MaxFaults = 1
INVARIANTS PaidPeriodKeepsPlus EndsAreTold RequestMatchesSchedule
PROPERTIES ErasesOnlyDue DueIsErased
CHECK_DEADLOCK FALSE

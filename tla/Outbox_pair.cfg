SPECIFICATION Spec
CONSTANTS
    Notifications = {n1, n2, n3}
    Users = {u1}
    Owner <- OneOwner
    Security = {}
    Retired = {}
    Workers = {w1, w2}
    Batch = 2
    DailyCap = 1
    MaxAttempts = 1
    MaxFaults = 0
    MaxDay = 2
SYMMETRY Symmetry
INVARIANTS WithinDailyCap YoungHeldOnce
CHECK_DEADLOCK FALSE

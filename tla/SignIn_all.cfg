SPECIFICATION Spec
CONSTANTS
    c1 = c1
    c2 = c2
    right = right
    wrong = wrong
    Calls = {c1, c2}
    Offered = {"signup", "resend", "verify", "login", "loginVerify", "console", "consoleVerify", "forgot", "reset", "start", "confirm", "disable", "google"}
    Passwords = {right, wrong}
    Accounts = {TRUE, FALSE}
    MaxFailedLogins = 2
    MaxAttempts = 1
    MaxActiveSends = 1
    MaxCalls = 5
    MaxCodes = 3
SYMMETRY CallSymmetry
INVARIANTS CodesSpentOnce SendsBounded MissesLock
PROPERTIES VerifiedPasswordStays
CHECK_DEADLOCK FALSE

SPECIFICATION Spec
CONSTANTS
    ask1 = ask1
    ask2 = ask2
    offer = offer
    again = again
    close = close
    r1 = r1
    c1 = c1
    c2 = c2
    Calls = {c1, c2}
    Events = {ask1, ask2, offer, again, close}
    Kind <- Kinds
    Act <- Acts
    Resolutions = {r1}
    Money = {r1}
    Officers = {"assign", "contact", "conclude", "appeal", "rule"}
    MaxCalls = 5
    MaxFaults = 1
SYMMETRY CallSymmetry
INVARIANTS AcceptedIsRefunded EventsAreApplied ShownIsOpen EscalationsMatchLevel StampedOnce StatusFollowsTrail
CHECK_DEADLOCK FALSE

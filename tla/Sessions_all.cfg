SPECIFICATION Spec
CONSTANTS
    phone = phone
    desk = desk
    p1 = p1
    d1 = d1
    c1 = c1
    c2 = c2
    Browsers = {phone, desk}
    Tabs = {p1, d1}
    BrowserOf <- TabOwners
    Calls = {c1, c2}
    Offered <- Buttons
    MaySuspend = TRUE
    MayErase = TRUE
    MaxRows = 3
    MaxSignIns = 2
    MaxLost = 1
SYMMETRY Slots
INVARIANTS EndedStaysEnded NoStraySessions CutOnlyByCrossingOrLoss

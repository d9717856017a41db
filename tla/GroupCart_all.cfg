SPECIFICATION CartFairSpec
CONSTANTS
    ann = ann
    bo = bo
    cy = cy
    dee = dee
    hostDish = hostDish
    boDish = boDish
    pack = pack
    People = {ann, bo, cy, dee}
    Host = ann
    Items = {hostDish, boDish, pack}
    Packs = {pack}
    Owner <- Owners
    Price <- Prices
    Seats = 2
    Serves = 2
    Requests = {r1, r2}
    MaxAborts = 1
INVARIANTS LimitsBreakOnlyByRace OnlyMembersAreBilled EarlyContentIsOrdered
PROPERTIES OrderClosesCart
CHECK_DEADLOCK FALSE

SPECIFICATION FairSpec
CONSTANTS
    Orders = {o1}
    FoodOrders = {o1}
    Requests = {r1, r2}
    Operations = {"checkout", "webhook", "verify", "cancel", "view", "flag", "approve"}
    MCPrice = 3
    Price <- PriceOf
    OpeningBalance = 2
    Cashback = 1
    ShortBy = {0, 1}
    SerializedTx = FALSE
    MaxAborts = 1
    NoOrder = NoOrder
INVARIANTS PaidInFull ConfirmedOnce MoneyBackIsReal
PROPERTIES ContractHolds CapturedIsResolved
CHECK_DEADLOCK FALSE

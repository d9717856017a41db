SPECIFICATION Spec
CONSTANTS
    Orders = {o1, o2}
    FoodOrders = {}
    Requests = {r1, r2}
    Operations = {"checkout"}
    MCPrice = 2
    Price <- PriceOf
    OpeningBalance = 3
    Cashback = 1
    ShortBy = {0}
    SerializedTx = FALSE
    MaxAborts = 0
    NoOrder = NoOrder
SYMMETRY Symmetry
INVARIANTS WalletNeverNegative
CHECK_DEADLOCK FALSE

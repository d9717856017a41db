SPECIFICATION ChatFairSpec
CONSTANTS
    phone = phone
    laptop = laptop
    guest = guest
    Devices = {phone, laptop}
    UserOf <- Owners
    Early = {phone}
    Senders = {phone, laptop}
    NoRow = NoRow
    MaxBusy = 2
    MaxMessages = 2
    MaxMishaps = 0
CHECK_DEADLOCK FALSE

PROPERTIES EventuallyAnswered

SPECIFICATION ChatSpec
CONSTANTS
    phone = phone
    laptop = laptop
    guest = guest
    Devices = {phone, laptop}
    UserOf <- Owners
    Early = {phone}
    Senders = {phone, laptop}
    NoRow = NoRow
    MaxBusy = 2
    MaxMessages = 2
    MaxMishaps = 1
CHECK_DEADLOCK FALSE
INVARIANTS LockedOutOnlyByMishap JammedOnlyByLostAnswer SkippedOnlyByJump ReadsNothingEarlier

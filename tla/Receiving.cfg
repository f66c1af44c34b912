SPECIFICATION Spec
CONSTANTS
    AssetOf <- MCAssetOf
    Packet = {p1, p2}
    Caller = {c1, c2}
    NoValue = NoValue
    Amounts <- MCAmounts
    IncomingAmount = 2
    WithdrawalThreshold = 2
    ThrottleDelay = TRUE
    Funds = 2
    MaxAttempts = 1
    MaxEvents = 2
    MaxFaults = 1
INVARIANTS
    TypeOK
    
    NoOverdraft
    
    AllMoneyAnnounced
PROPERTIES
    DeactivatedIsFinal
    EventuallyAnnounced
CHECK_DEADLOCK FALSE

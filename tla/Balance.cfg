\* Overlapping requests, both policies' settlements, one fault of each kind.
SPECIFICATION Spec
CONSTANTS
    alice = alice
    bob = bob
    Account <- Accounts
    HasMinimum <- Accounts
    MinBalance <- Minimum
    HasSettlement <- Accounts
    SettleThreshold <- Threshold
    SettleTo <- To
    HasEngine <- OnlyBob
    Packet <- BothWays
    IncomingAmount = {3}
    TimeBased = TRUE
    ChannelSize = 1
    MaxRetries = 1
    MaxPackets = 3
    MaxLive = 2
    MaxIncoming = 1
    MaxCrashes = 1
    MaxStoreFailures = 1
    MaxEngineFailures = 1
    MaxLostAnswers = 1
INVARIANTS
    AboveFloor
    NeverSettlesTwice
    BooksBalance
CHECK_DEADLOCK FALSE

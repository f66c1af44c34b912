\* Reports that overlap, are retried, reuse a key or have none; a crash and a store failure.
SPECIFICATION SettlementSpec
CONSTANTS
    acc = acc
    k1 = k1
    k2 = k2
    k3 = k3
    NoKey = NoKey
    Account <- OneAccount
    HasMinimum = {}
    MinBalance <- Zero
    HasSettlement = {}
    SettleThreshold <- Zero
    SettleTo <- Zero
    Settlement <- AllReports
    AssetScale = 0
    MaxU64 = 1000
    MaxOverlaps = 1
    MaxCalls = 3
    MaxLive = 2
    MaxCrashes = 1
    MaxStoreFailures = 1
INVARIANTS
    SettlementTypeOK
    NothingLost
    SuccessMeansCredited
PROPERTIES
    SuccessIsFinal
CHECK_DEADLOCK FALSE

SPECIFICATION Spec
CONSTANTS
    AssetOf <- MCAssetOf
    Payment <- MCPayment
    Packet = {k1, k2}
    IncomingOf <- MCIncomingOf
    Requests <- MCRequests
    Funders = {"a"}
    Receivers <- MCReceivers
    GrantLimit <- MCGrantLimit
    NoValue = NoValue
    RateNum = 1
    RateDen = 2
    FixedFee = 2
    BasisPointFee = 0
    PacketAmounts = {2, 4}
    Funds = 4
    MaxAttempts = 2
    MaxFaults = 1
INVARIANTS
    TypeOK
    
    GrantWithinLimit
    
    
    
PROPERTY EventuallyEnds
CHECK_DEADLOCK FALSE

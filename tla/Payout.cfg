CONSTANTS
    zero = zero
    vault = vault
    deployer = deployer
    operator = operator
    Address <- MCAddress
    ZeroAddress = zero
    Vault = vault
    Deployer = deployer
    Operator = operator
    ChainSegment <- MCChainSegment
    RecipientSegment <- MCRecipientSegment
    Prepare <- OddPackets
    Amount <- MCAmount
    PaymentId <- MCPaymentId
    Prefund = 3
    MaxSupply = 4
    MaxReceived = 3
    MaxLiveTasks = 3
    MaxRpcFailures = 1
    MaxCrashes = 1
    MaxOwnerSteps = 1
SPECIFICATION SystemSpec
CHECK_DEADLOCK FALSE
INVARIANTS NonceNeverAhead 
PROPERTY PromiseKept

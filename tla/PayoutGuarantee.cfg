CONSTANTS
    zero = zero
    vault = vault
    deployer = deployer
    operator = operator
    Address <- MCAddress
    ZeroAddress = zero
    Vault = vault
    Deployer = deployer
    Operator = operator
    ChainSegment <- MCChainSegment
    RecipientSegment <- MCRecipientSegment
    Prepare <- TwoStreams
    Amount <- MCAmount
    PaymentId <- MCPaymentId
    Prefund = 8
    MaxSupply = 8
    MaxReceived = 3
    MaxLiveTasks = 3
    MaxRpcFailures = 0
    MaxCrashes = 0
    MaxOwnerSteps = 0
SPECIFICATION FairSpec
CHECK_DEADLOCK FALSE
PROPERTY GuaranteedDelivery

CONSTANTS
    zero = zero
    vault = vault
    deployer = deployer
    operator = operator
    Address <- MCAddress
    ZeroAddress = zero
    Vault = vault
    Deployer = deployer
    Operator = operator
    ChainSegment <- MCChainSegment
    RecipientSegment <- MCRecipientSegment
    Prepare <- TwoStreams
    Amount <- MCAmount
    PaymentId <- MCPaymentId
    Prefund = 4
    MaxSupply = 4
    MaxReceived = 4
    MaxLiveTasks = 1
    MaxRpcFailures = 0
    MaxCrashes = 0
    MaxOwnerSteps = 0
SPECIFICATION FairSpec
CHECK_DEADLOCK FALSE
PROPERTY GuaranteedDelivery

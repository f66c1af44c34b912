CONSTANTS
    zero = zero
    vault = vault
    deployer = deployer
    user = user
    p1 = p1
    p2 = p2
    ZeroAddress = zero
    Vault = vault
    Deployer = deployer
    Operator = zero
    Address <- MCAddress
    PaymentId <- MCPaymentId
    Amount = {0, 1, 2}
    Prefund = 1
    MaxSupply = 2
SPECIFICATION Spec
INVARIANTS
    OnePayoutPerId
    VaultLedger

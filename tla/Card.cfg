SPECIFICATION CardSpec
CONSTANTS
    CardRequest <- MCRequest
    Reachable <- MCReachable
    WebhookMaxRetry = 2
    MaxFaults = 1
INVARIANTS
    AnswersMatchMoney
    HeardIsAnswered
PROPERTY EveryRequestAnswered
CHECK_DEADLOCK FALSE

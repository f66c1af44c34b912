CONSTANTS
    U64Max = 31
    SourceAmount = 8
    RateNum = 3
    RateDen = 2
    MarginInverse = 2
    FailFastAttempts = 3
    F08Details <- QuartersAndOverflow
    MaxPackets = 4
SPECIFICATION FairSpec
INVARIANTS ReceiptIsFinal   RateFloor
PROPERTY Termination
CHECK_DEADLOCK FALSE

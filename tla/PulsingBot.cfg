SPECIFICATION FairSpec
CONSTANTS
    Bot = {b1, b2}
    Rounds = 3
    RoundLimit = 5
    MaxNotifications = 3
    MaxSent = 14
INVARIANTS
    TypeOK
    OneCommandOneAttack
    ChainsEndAtZero
PROPERTIES
    EveryRoundIsSent
CHECK_DEADLOCK FALSE

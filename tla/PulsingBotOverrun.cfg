SPECIFICATION Spec
CONSTANTS
    Bot = {b1}
    Rounds = 3
    RoundLimit = 5
    MaxNotifications = 2
    MaxSent = 9
INVARIANTS
    AtMostRounds
CHECK_DEADLOCK FALSE

SPECIFICATION FairSpec
CONSTANTS
    b1 = b1  b2 = b2  c1 = c1
    Bot <- MCBots
    Controller <- OneController
    BotStart <- MCBotStart
    Stoppable <- SomeStop
    Latency = {1, 2, 3}
    Rounds = 3
    RoundLimit = 5
    MaxNotifications = 2
    MaxSent = 9
    PingUntil = 3
    ScheduleWait = 5
    AttackTime = 6
    AttackInterval = 7
    BotPort = 8000
INVARIANTS
    TypeOK
    NothingInThePast
    PulsesAligned
    OneAttackPerBot
PROPERTIES
    StopCancelsCommands
    ScheduledBotsAttack
CHECK_DEADLOCK FALSE

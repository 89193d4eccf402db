SPECIFICATION FairSpec
CONSTANTS
    b1 = b1  b2 = b2  b3 = b3  h1 = h1  h2 = h2  x = x  y = y
    n1 = n1  n2 = n2  nx = nx  ny = ny
    Bot <- MCBot
    Addr <- MCAddr
    Node <- MCNode
    Holder <- MCHolder
    Device <- MCDevice
    Path <- MCShortPath
    WaitsCover <- NoWaits
    NoRoute <- AllRoutes
    NoAddr = NoAddr
    NoNode = NoNode
    CountLimit = 16
    MaxReports = 10
    MaxRepeats = 0
    MaxMisses = 0
PROPERTIES
    EveryBotIsAnswered
CHECK_DEADLOCK FALSE

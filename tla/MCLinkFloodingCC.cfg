SPECIFICATION Spec
CONSTANTS
    a1 = a1  a2 = a2  a3 = a3
    n1 = n1  n2 = n2
    Addr <- MCAddr
    Node <- MCNode
    Holder <- MCHolder
    Device <- MCDevice
    NoAddr = NoAddr
    NoNode = NoNode
    Client = {c1, c2}
    CountLimit = 4
    MaxReports = 5
INVARIANTS
    TypeOK
    MaxIsMostUsed
    CaptureHoldsAnAnswer
PROPERTIES
    OvertakenOnlyByMoreUsed
CHECK_DEADLOCK FALSE

SPECIFICATION FairSpec
CONSTANTS
    RvType = {"Constant", "LogNormal"}
    OtherName = "Other"
    SizeOf <- MCSizeOf
    Sizes = {0, 1, 3, 6}
    Rates = {0, 1, 5}
    MaxRate = 5
    SizeLimit = 4
    Second = 1
    BufferSize = 4
    None = None
    Never = Never
    MaxPackets = 3
INVARIANTS
    TypeOK
    SilenceHasACause
    PacedByRate
PROPERTIES
    TrafficGoesOn
CHECK_DEADLOCK FALSE

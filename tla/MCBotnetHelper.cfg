SPECIFICATION FairSpec
CONSTANTS
    Topology <- MCTopology
    MaxBots = {1, 2}
    Value = {v0, v1}
    Default = v0
    NoNode = NoNode
    MaxBotnets = 2
    MaxApps = 1
INVARIANTS
    TypeOK
    BadIndicesAreLogged
    BotsPerAs
    BotnetsShareNoBots
    AppIndicesAgree
PROPERTIES
    CreationEnds
CHECK_DEADLOCK FALSE

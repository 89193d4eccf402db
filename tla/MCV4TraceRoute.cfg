SPECIFICATION FairSpec
CONSTANTS
    t1 = t1  t2 = t2  r1 = r1  r2 = r2  d1 = d1  d2 = d2
    App <- TwoApps
    Hops <- MCHops
    Remote <- MCRemote
    Verbose <- OneApp
    Scenario <- MCScenario
    MaxHop = 3
    ProbeNum = 2
    SeqLimit = 16
INVARIANTS
    TypeOK
    HopsInOrder
    OneProbeAtATime
    NothingLostNothingMissing
    ProbesAreBounded
PROPERTIES
    TraceEnds
CHECK_DEADLOCK FALSE

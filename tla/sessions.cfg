CONSTANTS
    c1 = c1
    c2 = c2
    p1 = p1
    p2 = p2
    Conn = {c1, c2}
    Scenario <- MCScenario
    Publisher = {p1, p2}
    PublisherOf <- MCPublisherOf
    PayloadOf <- MCPayloadOf
    Scope = {"Mutate"}
    Grant <- MCGrant
    MutationScope = "Mutate"
    MaxPublishers = 2
    MaxSessions = 2
    MaxFencedBoots = 2
    DiskMayFail = TRUE
    MaxEpoch = 2
    MaxFrames = 2
    MaxHellos = 4
    MaxFrameUnits = 1
    MaxAssemblyUnits = 3
SPECIFICATION FairSpec
INVARIANTS
    FramesHandledInOrder
    OutcomesAreTrue
    LostSessionsAreFenced
PROPERTIES
    DrivesAuthority
    CallsReturn
    StopReturns
CHECK_DEADLOCK FALSE

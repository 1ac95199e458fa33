CONSTANTS
    p1 = p1
    p2 = p2
    Publisher = {p1, p2}
    Boot = {b1, b2, b3}
    Session = {s1, s2}
    Scope <- MCScope
    Grant <- MCGrant
    Attempt = {a1}
    Payload <- MCPayload
    MaxPublishers = 2
    MaxSessions = 1
    MaxFencedBoots = 2
    MaxAttempts = 1
    AllowInitialize = TRUE
    DiskMayFail = TRUE
    StoreMayCorrupt = TRUE
    MaxEpoch = 3
    MaxRegistrations = 2
SPECIFICATION FairSpec
INVARIANTS
    TypeOK
    OneLiveRegistration
    FencedNeverLive
    PreviousBootsStayFenced
    StoreCoversAnswers
PROPERTIES
    EpochAdvances
    FencingIsPermanent
    RecoversWithinLimit

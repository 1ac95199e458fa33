CONSTANTS
    topo = topo
    cap = cap
    bad = bad
    cold = cold
    twin = twin
    far = far
    torn = torn
    SetId = {s1}
    Definition = {topo}
    Content <- MCContent
    NoDefinition = NoDefinition
    Candidate = {cold, twin}
    Fact <- MCFact
    Batch <- MCBatch
    Caller = {w1}
    Thread = {t1}
    Attempt = {Unique}
    Unique = Unique
    CarriedInput = {1}
    ExpectedInput = {0}
    EventInput = {"Activate"}
    AdvancedFamily = {"Topology"}
    RequirementInput = {}
    KeyInput = {}
    InitialEvidence <- MCEvidence
    Durable = FALSE
    DiskMayFail = FALSE
    MaxSets = 1
    MaxEvaluations = 3
    MaxPopulations = 1
    MaxAttempts = 1
    MaxGeneration = 2
    MaxSetGeneration = 1
    MaxEvaluation = 2
    MaxInvalidations = 1
    MaxEpoch = 1
SPECIFICATION Spec
INVARIANT SnapshotsDecode

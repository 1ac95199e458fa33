CONSTANTS
    topo = topo
    cap = cap
    bad = bad
    cold = cold
    twin = twin
    far = far
    torn = torn
    SetId = {s1}
    Definition = {topo}
    Content <- MCContent
    NoDefinition = NoDefinition
    Candidate = {cold}
    Fact <- MCFact
    Batch <- ColdBatch
    Caller = {w1}
    Thread = {t1}
    Attempt = {Unique}
    Unique = Unique
    CarriedInput = {1}
    ExpectedInput = {0}
    EventInput = {"Activate"}
    AdvancedFamily = {}
    RequirementInput = {}
    KeyInput <- MCKeys
    InitialEvidence <- MCEvidence
    Durable = FALSE
    DiskMayFail = FALSE
    MaxSets = 1
    MaxEvaluations = 2
    MaxPopulations = 1
    MaxAttempts = 1
    MaxGeneration = 2
    MaxSetGeneration = 1
    MaxEvaluation = 2
    MaxInvalidations = 1
    MaxEpoch = 1
SPECIFICATION Spec
PROPERTY KeyInvalidationHolds

CONSTANTS
    topo = topo
    cap = cap
    bad = bad
    cold = cold
    twin = twin
    far = far
    torn = torn
    SetId = {s1}
    Definition = {topo, bad}
    Content <- MCContent
    NoDefinition = NoDefinition
    Candidate = {cold, torn}
    Fact <- MCFact
    Batch <- TornBatch
    Caller = {w1}
    Thread = {t1}
    Attempt = {a1, a2, a3, a4}
    Unique = Unique
    CarriedInput = {1}
    ExpectedInput = {0, 1}
    EventInput = {"Activate"}
    AdvancedFamily = {}
    RequirementInput <- MCRequirement
    KeyInput <- MCKeys
    InitialEvidence <- MCEvidence
    Durable = FALSE
    DiskMayFail = FALSE
    MaxSets = 1
    MaxEvaluations = 2
    MaxPopulations = 1
    MaxAttempts = 4
    MaxGeneration = 2
    MaxSetGeneration = 2
    MaxEvaluation = 2
    MaxInvalidations = 2
    MaxEpoch = 1
SPECIFICATION Spec
SYMMETRY AttemptSymmetry
INVARIANTS
    OneMutationPerAttempt

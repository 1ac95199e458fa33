CONSTANTS
    topo = topo
    cap = cap
    bad = bad
    cold = cold
    twin = twin
    far = far
    torn = torn
    SetId = {s1, s2}
    Definition = {topo}
    Content <- MCContent
    NoDefinition = NoDefinition
    Candidate = {cold, twin, far}
    Fact <- MCFact
    Batch <- PathBatch
    Caller = {w1}
    Thread = {t1}
    Attempt = {Unique}
    Unique = Unique
    CarriedInput = {1}
    ExpectedInput = {0}
    EventInput = {"Activate"}
    AdvancedFamily = {"Topology"}
    RequirementInput = {}
    KeyInput <- MCKeys
    InitialEvidence <- MCEvidence
    Durable = FALSE
    DiskMayFail = FALSE
    MaxSets = 2
    MaxEvaluations = 2
    MaxPopulations = 1
    MaxAttempts = 1
    MaxGeneration = 2
    MaxSetGeneration = 1
    MaxEvaluation = 3
    MaxInvalidations = 1
    MaxEpoch = 1
SPECIFICATION Spec
SYMMETRY Symmetry
INVARIANTS
    RetainedCurrentIsSound
PROPERTIES
    CommitBoundsHistory
    DiffReconstructs

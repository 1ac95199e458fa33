CONSTANTS
    topo = topo
    cap = cap
    bad = bad
    cold = cold
    twin = twin
    far = far
    torn = torn
    SetId = {s1}
    Definition = {topo, cap}
    Content <- MCContent
    NoDefinition = NoDefinition
    Candidate = {cold, twin}
    Fact <- MCFact
    Batch <- TwinBatch
    Caller = {w1}
    Thread = {t1, t2}
    Attempt = {Unique}
    Unique = Unique
    CarriedInput = {1, 2}
    ExpectedInput = {0}
    EventInput = {"Activate", "Retire", "Revalidated"}
    AdvancedFamily = {"Capability"}
    RequirementInput = {}
    KeyInput = {}
    InitialEvidence <- MCEvidence
    Durable = FALSE
    DiskMayFail = FALSE
    MaxSets = 1
    MaxEvaluations = 2
    MaxPopulations = 1
    MaxAttempts = 1
    MaxGeneration = 2
    MaxSetGeneration = 2
    MaxEvaluation = 2
    MaxInvalidations = 1
    MaxEpoch = 1
SPECIFICATION Spec
SYMMETRY Symmetry
INVARIANTS
    TypeOK
    CurrentIsSound
    OneCurrentPerPath
PROPERTIES
    PreciseInvalidation
    RetiredStaysRetired

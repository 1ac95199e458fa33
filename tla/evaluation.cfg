SPECIFICATION Spec
CONSTANTS
    max_constraints_per_set = 4
    max_entity_refs_per_constraint = 3
    kMaxFixedPointBound = 9
    max_nodes_per_candidate = 3
    max_links_per_candidate = 2
    max_policies_per_candidate = 2
    max_refs_per_entity = 2
    max_candidates_per_evaluation = 4
    max_batch_size = 3
    max_explanation_reasons = 4
    max_failed_constraints_per_evaluation = 1
    kMaxReasonsPerConstraint = 8
    Submission <- AnySubmission
    Context <- EvaluationContext
    Population <- EvaluationPopulation
    Consultable <- EvaluationRaw
    Probe <- Variants
INVARIANTS
    CanonicalFormIsUnique
    AcceptedIsCanonical
    ContradictionsAreReal
    AdmissibleIffLawful
    UnconsultedIsIrrelevant
    ExplanationIsSound
    PreferencesAgree
    ForemostPreferenceDecides
    ContainerOrderUnobservable

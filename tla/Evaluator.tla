------------------------------- MODULE Evaluator -------------------------------
(***************************************************************************)
(* The pure evaluator: one candidate against one constraint set            *)
(* (evaluate_candidate), a population against one set (evaluate_batch),    *)
(* and the definitions they are called with.                               *)
(*                                                                         *)
(* A candidate's evidence vectors are sets of <<key, value>> pairs: the    *)
(* code keeps them sorted and unique and looks up the first pair of a key. *)
(* Reasons keep what their order and the outcome depend on; the expected   *)
(* and actual values they report are left out.                             *)
(***************************************************************************)
EXTENDS ConstraintSet, Invalidation, Lifecycle

CONSTANTS
    max_nodes_per_candidate, max_links_per_candidate, max_policies_per_candidate,
    max_refs_per_entity,           \* localities, domains and capabilities of an entity
    max_candidates_per_evaluation, max_batch_size,
    max_explanation_reasons, max_failed_constraints_per_evaluation,
    kMaxReasonsPerConstraint,      \* 8 in the code
    Submission,     \* definitions not yet canonical, with the generation and the
                    \* lifecycle state the coordinator gives them
    Context,        \* evaluation contexts
    Population,     \* candidate populations, as sequences
    Consultable,    \* bound: the submitted definitions that are evaluated against
    Probe           \* candidates a contradiction is tried on

ASSUME EvaluatorLimitsAssumption ==
    {max_nodes_per_candidate, max_links_per_candidate, max_policies_per_candidate,
     max_refs_per_entity, max_candidates_per_evaluation, max_batch_size, max_explanation_reasons,
     max_failed_constraints_per_evaluation, kMaxReasonsPerConstraint} \subseteq Nat \ {0}

\* validate_limits
ASSUME LimitFloorsAssumption == max_nodes_per_candidate >= 2 /\ max_explanation_reasons >= 4

\* EvaluationContext: the generations in force, the age limit and the clock, the
\* set generation the caller asked for, and who asks.
ContextType ==
    [current : [Family -> Nat], max_age : Nat, now_tick : Nat, requested_generation : Nat,
     authority_verified : BOOLEAN, provenance_complete : BOOLEAN]

ASSUME ContextAssumption == Context \subseteq ContextType

ASSUME SubmissionAssumption ==
    Submission \subseteq [raw : Undigested, assigned : Nat, state : SetState]

\* What a caller can put in the fields of a candidate.
Refs == SUBSET (Nat \X Nat)

NodeFact ==
    [node : Nat, tier : Nat, site : Nat, localities : Refs, domains : Refs, capabilities : Refs,
     isolation : Refs]

LinkFact ==
    [link : Nat, endpoints : Nat \X Nat,
     bandwidth : [model : STRING, bits_per_second : Int, generation : Nat],
     domains : Refs, capabilities : Refs, isolation : Refs]

CandidatePath ==
    [path : Nat, authority_generation : Nat,
     authority_verdict : {"NotEvaluated", "Legal", "Rejected"},
     nodes : Seq(NodeFact), links : Seq(LinkFact), hop_count : Nat,
     latency : [source : STRING, micros : Int, generation : Nat], policies : Refs,
     evidence : [Family -> Nat], captured_tick : Nat, has_planner_rank : BOOLEAN,
     planner_rank : Nat, has_planner_cost : BOOLEAN, planner_cost : Int, cost_model : STRING]

ASSUME CandidateAssumption == Population \subseteq Seq(CandidatePath) /\ Probe \subseteq CandidatePath

VARIABLES
    definition,     \* the last submitted definition and what became of it
    call            \* the last evaluation: its inputs and its answer

vars == <<definition, call>>

None == [none |-> TRUE]
-------------------------------------------------------------------------------
(* Candidates *)

NodeSubject(n) == <<4, n.node>>
LinkSubject(l) == <<5, l.link>>
PathSubject(candidate) == <<2, candidate.path>>

Entity(subject, fact) ==
    [subject |-> subject, domains |-> fact.domains, capabilities |-> fact.capabilities,
     isolation |-> fact.isolation]

entities_of(candidate) ==
    [i \in DOMAIN candidate.nodes |-> Entity(NodeSubject(candidate.nodes[i]), candidate.nodes[i])]
    \o [i \in DOMAIN candidate.links |-> Entity(LinkSubject(candidate.links[i]), candidate.links[i])]

NoRef == -1

\* find_locality, find_domain, find_capability, find_isolation, find_policy.
find(refs, key) ==
    LET found == {r[2] : r \in {r \in refs : r[1] = key}}
    IN IF found = {} THEN NoRef ELSE Min(found)

same_endpoints(link, a, b) == link.endpoints \in {<<a, b>>, <<b, a>>}

Oversized(refs) == Cardinality(refs) > max_refs_per_entity

node_defect(nodes, i) ==
    LET n == nodes[i] IN
    IF n.node = 0 \/ \E j \in 1..(i - 1) : nodes[j].node = n.node
    THEN "MalformedCandidate"
    ELSE IF Oversized(n.localities) \/ Oversized(n.domains) \/ Oversized(n.capabilities)
    THEN "TooManyEntityRefs"
    ELSE IF \E r \in n.localities \cup n.domains : r[1] = 0 \/ r[2] = 0
    THEN "MalformedCandidate" ELSE "None"

link_defect(l, a, b) ==
    IF l.link = 0 \/ ~same_endpoints(l, a, b) THEN "MalformedCandidate"
    ELSE IF Oversized(l.domains) \/ Oversized(l.capabilities) THEN "TooManyEntityRefs"
    ELSE IF /\ l.bandwidth.model # "None"
            /\ l.bandwidth.bits_per_second < 0 \/ l.bandwidth.generation = 0
    THEN "MalformedCandidate" ELSE "None"

\* The latency figure must bind the generation of the evidence it came from,
\* and a planner cost must name its model.
malformed_figures(candidate) ==
    LET latency == candidate.latency IN
    \/ /\ latency.source # "Unset"
       /\ \/ latency.micros \notin 0..kMaxFixedPointBound
          \/ latency.generation = 0
          \/ latency.generation # candidate.evidence[
                 IF latency.source = "PlannerCost" THEN "Planner" ELSE "LinkState"]
    \/ candidate.has_planner_cost = (candidate.cost_model = "None")

\* The reason the evaluator reports for the first defect, "None" without one.
validate_candidate(candidate) ==
    LET nodes == candidate.nodes
        links == candidate.links
        defects == [i \in DOMAIN nodes |-> node_defect(nodes, i)]
                   \o [i \in DOMAIN links |-> link_defect(links[i], nodes[i].node, nodes[i + 1].node)]
        first == SelectInSeq(defects, LAMBDA d : d # "None")
    IN IF \/ candidate.path = 0 \/ candidate.authority_generation = 0
          \/ candidate.evidence["PathAuthority"] # candidate.authority_generation
          \/ Len(nodes) < 2
       THEN "MalformedCandidate"
       ELSE IF Len(nodes) > max_nodes_per_candidate THEN "TooManyEntityRefs"
       ELSE IF Len(links) # Len(nodes) - 1 THEN "MalformedCandidate"
       ELSE IF Len(links) > max_links_per_candidate THEN "TooManyEntityRefs"
       ELSE IF candidate.hop_count # Len(links) THEN "MalformedCandidate"
       ELSE IF Cardinality(candidate.policies) > max_policies_per_candidate THEN "TooManyEntityRefs"
       ELSE IF first # 0 THEN defects[first]
       ELSE IF malformed_figures(candidate) THEN "MalformedCandidate" ELSE "None"

\* The bottleneck of the links' capability figures, NoRef when one is missing.
path_bandwidth_capability(candidate, required) ==
    LET figures == {candidate.links[i].bandwidth : i \in DOMAIN candidate.links}
    IN IF \/ figures = {} \/ required = 0
          \/ \E b \in figures :
                b.model = "None" \/ b.generation # required \/ b.bits_per_second < 0
       THEN NoRef
       ELSE Min({b.bits_per_second : b \in figures})

\* Everything but the tick the evidence was captured at.
candidate_digest(candidate) ==
    [f \in DOMAIN candidate \ {"captured_tick"} |-> candidate[f]]
-------------------------------------------------------------------------------
(* One constraint against one candidate: the reasons it fails for, in the  *)
(* order they are emitted.                                                 *)

Pass == <<>>
Fail(code, subject) == <<[code |-> code, subject |-> subject]>>

\* The reasons of the elements of s, one after the other.
ForEach(s, Check(_)) == FlattenSeq([i \in DOMAIN s |-> Check(s[i])])

check_max_latency(c, candidate) ==
    IF candidate.latency.source # c.latency_source
    THEN Fail("LatencyEvidenceUnavailable", PathSubject(candidate))
    ELSE IF candidate.latency.micros > c.bound
    THEN Fail("MaxLatencyExceeded", PathSubject(candidate)) ELSE Pass

check_min_bandwidth(c, candidate, current) ==
    LET bottleneck == path_bandwidth_capability(candidate, current["Capability"])
    IN IF bottleneck = NoRef THEN Fail("BandwidthCapabilityUnavailable", PathSubject(candidate))
       ELSE IF bottleneck < c.bound
       THEN Fail("MinBandwidthCapabilityNotMet", PathSubject(candidate)) ELSE Pass

check_max_hop_count(c, candidate) ==
    IF candidate.hop_count > c.bound THEN Fail("MaxHopCountExceeded", PathSubject(candidate)) ELSE Pass

\* check_required_node and check_required_link.
check_present(c, present, subject_kind, code) ==
    ForEach(items(c), LAMBDA w : IF w \in present THEN Pass ELSE Fail(code, <<subject_kind, w>>))

\* check_forbidden_node and check_forbidden_link: one reason per occurrence
\* on the path, which may traverse a link more than once.
check_absent(c, traversed, subject_kind, code) ==
    ForEach(items(c), LAMBDA f :
        ForEach(traversed, LAMBDA t : IF t = f THEN Fail(code, <<subject_kind, f>>) ELSE Pass))

\* check_required_tier and check_required_site.
check_member(c, candidate, field, unknown, code) ==
    ForEach(candidate.nodes, LAMBDA n :
        IF n[field] = 0 THEN Fail(unknown, NodeSubject(n))
        ELSE IF n[field] \notin ToSet(items(c)) THEN Fail(code, NodeSubject(n)) ELSE Pass)

\* check_forbidden_tier and check_forbidden_site.
check_not_member(c, candidate, field, unknown, code) ==
    ForEach(candidate.nodes, LAMBDA n :
        IF n[field] = 0
        THEN IF c.unknown_policy = "FailClosed" THEN Fail(unknown, NodeSubject(n)) ELSE Pass
        ELSE IF n[field] \in ToSet(items(c)) THEN Fail(code, NodeSubject(n)) ELSE Pass)

check_locality_scope(c, candidate) ==
    ForEach(candidate.nodes, LAMBDA n :
        LET membership == find(n.localities, c.domain_kind)
        IN IF membership = NoRef THEN Fail("LocalityEvidenceUnavailable", NodeSubject(n))
           ELSE IF membership # c.locality_domain
           THEN Fail("LocalityScopeViolated", NodeSubject(n)) ELSE Pass)

check_isolation_class(c, candidate, current) ==
    ForEach(entities_of(candidate), LAMBDA e :
        LET proof == find(e.isolation, c.isolation_class)
        IN IF e.isolation = {} THEN Fail("IsolationEvidenceUnavailable", e.subject)
           ELSE IF proof = NoRef THEN Fail("IsolationClassNotProven", e.subject)
           ELSE IF proof # current["FailureDomain"]
           THEN Fail("IsolationEvidenceUnavailable", e.subject) ELSE Pass)

check_required_capability(c, candidate, current) ==
    ForEach(items(c), LAMBDA w :
        ForEach(entities_of(candidate), LAMBDA e :
            IF find(e.capabilities, w) # current["Capability"]
            THEN Fail("CapabilityEvidenceUnavailable", e.subject) ELSE Pass))

\* Absent evidence is excused by PermitUnknownNegative; evidence of another
\* generation never is.
check_forbidden_capability(c, candidate, current) ==
    ForEach(items(c), LAMBDA f :
        ForEach(entities_of(candidate), LAMBDA e :
            LET ref == find(e.capabilities, f)
            IN IF ref = NoRef /\ c.unknown_policy # "FailClosed" THEN Pass
               ELSE IF ref # current["Capability"]
               THEN Fail("CapabilityEvidenceUnavailable", e.subject)
               ELSE Fail("ForbiddenCapabilityPresent", e.subject)))

\* Domain membership of a kind over the whole path, one domain per entity.
scan_domains(candidate, kind) ==
    LET entities == entities_of(candidate)
        incomplete == SelectInSeq(entities, LAMBDA e : find(e.domains, kind) = NoRef)
    IN [complete |-> incomplete = 0,
        domains |-> {find(entities[i].domains, kind) : i \in DOMAIN entities} \ {NoRef},
        first |-> IF incomplete = 0 THEN <<0, 0>> ELSE entities[incomplete].subject]

check_required_domain_relation(c, candidate) ==
    LET scan == scan_domains(candidate, c.domain_kind)
    IN IF ~scan.complete THEN Fail("FailureDomainEvidenceUnavailable", scan.first)
       ELSE IF Cardinality(scan.domains) < c.bound
       THEN Fail("RequiredFailureDomainRelationNotMet", <<10, c.domain_kind>>) ELSE Pass

check_forbidden_domain_relation(c, candidate) ==
    LET scan == scan_domains(candidate, c.domain_kind)
        met == IF c.relation = "Shared" THEN scan.complete /\ Cardinality(scan.domains) = 1
               ELSE Cardinality(scan.domains) >= c.bound
    IN IF ~scan.complete /\ c.unknown_policy = "FailClosed"
       THEN Fail("FailureDomainEvidenceUnavailable", scan.first)
       ELSE IF met THEN Fail("ForbiddenFailureDomainRelationMet", <<10, c.domain_kind>>) ELSE Pass

check_administrative_policy(c, candidate, current) ==
    ForEach(items(c), LAMBDA w :
        LET attestation == find(candidate.policies, w)
        IN IF attestation = NoRef THEN Fail("AdministrativePolicyNotSatisfied", <<9, w>>)
           ELSE IF attestation # current["Policy"]
           THEN Fail("PolicyEvidenceUnavailable", <<9, w>>) ELSE Pass)

evaluate_mandatory(c, candidate, current) ==
    LET nodes == [i \in DOMAIN candidate.nodes |-> candidate.nodes[i].node]
        links == [i \in DOMAIN candidate.links |-> candidate.links[i].link]
    IN CASE c.kind = "MaxLatency" -> check_max_latency(c, candidate)
         [] c.kind = "MinBandwidthCapability" -> check_min_bandwidth(c, candidate, current)
         [] c.kind = "MaxHopCount" -> check_max_hop_count(c, candidate)
         [] c.kind = "RequiredNode" -> check_present(c, ToSet(nodes), 4, "RequiredNodeAbsent")
         [] c.kind = "ForbiddenNode" -> check_absent(c, nodes, 4, "ForbiddenNodePresent")
         [] c.kind = "RequiredLink" -> check_present(c, ToSet(links), 5, "RequiredLinkAbsent")
         [] c.kind = "ForbiddenLink" -> check_absent(c, links, 5, "ForbiddenLinkPresent")
         [] c.kind = "RequiredTier" ->
              check_member(c, candidate, "tier", "TierEvidenceUnavailable", "RequiredTierNotMet")
         [] c.kind = "ForbiddenTier" ->
              check_not_member(c, candidate, "tier", "TierEvidenceUnavailable", "ForbiddenTierPresent")
         [] c.kind = "RequiredSite" ->
              check_member(c, candidate, "site", "SiteEvidenceUnavailable", "RequiredSiteNotMet")
         [] c.kind = "ForbiddenSite" ->
              check_not_member(c, candidate, "site", "SiteEvidenceUnavailable", "ForbiddenSitePresent")
         [] c.kind = "LocalityScope" -> check_locality_scope(c, candidate)
         [] c.kind = "IsolationClass" -> check_isolation_class(c, candidate, current)
         [] c.kind = "RequiredCapability" -> check_required_capability(c, candidate, current)
         [] c.kind = "ForbiddenCapability" -> check_forbidden_capability(c, candidate, current)
         [] c.kind = "RequiredFailureDomainRelation" -> check_required_domain_relation(c, candidate)
         [] c.kind = "ForbiddenFailureDomainRelation" -> check_forbidden_domain_relation(c, candidate)
         [] c.kind = "AdministrativePolicy" -> check_administrative_policy(c, candidate, current)
-------------------------------------------------------------------------------
(* Reasons *)

\* ReasonCode, the codes the evaluator produces.
Code ==
    [None |-> 0,
     BatchTooLarge |-> 101, TooManyConstraints |-> 102, TooManyCandidates |-> 103,
     TooManyEntityRefs |-> 104,
     MalformedConstraint |-> 206, MalformedCandidate |-> 207,
     MissingAuthorityContext |-> 304,
     ConstraintSetNotActive |-> 501, ConstraintSetSuspended |-> 502,
     ConstraintSetRevalidationRequired |-> 503, ConstraintSetRevoked |-> 504,
     ConstraintSetSuperseded |-> 505, ConstraintSetRetired |-> 506,
     StaleConstraintSetGeneration |-> 507,
     PathAuthorityNotEvaluated |-> 600, PathNotLegal |-> 601, StalePathAuthority |-> 602,
     PathAuthorityGenerationMissing |-> 603,
     StaleTopologyEvidence |-> 700, StaleLinkStateEvidence |-> 701,
     StaleCapabilityEvidence |-> 702, StaleFailureDomainEvidence |-> 703,
     StalePolicyEvidence |-> 704, StalePlannerEvidence |-> 705, EvidenceAgeExceeded |-> 706,
     EvidenceNotBound |-> 707, PlannerCostModelMismatch |-> 708,
     MaxLatencyExceeded |-> 800, LatencyEvidenceUnavailable |-> 801,
     MinBandwidthCapabilityNotMet |-> 802, BandwidthCapabilityUnavailable |-> 803,
     RequiredNodeAbsent |-> 804, ForbiddenNodePresent |-> 805, RequiredLinkAbsent |-> 806,
     ForbiddenLinkPresent |-> 807, RequiredTierNotMet |-> 808, ForbiddenTierPresent |-> 809,
     RequiredSiteNotMet |-> 810, ForbiddenSitePresent |-> 811, LocalityScopeViolated |-> 812,
     IsolationClassNotProven |-> 813, ForbiddenCapabilityPresent |-> 815,
     RequiredFailureDomainRelationNotMet |-> 816, ForbiddenFailureDomainRelationMet |-> 817,
     AdministrativePolicyNotSatisfied |-> 818, MaxHopCountExceeded |-> 819,
     TierEvidenceUnavailable |-> 820, SiteEvidenceUnavailable |-> 821,
     LocalityEvidenceUnavailable |-> 822, IsolationEvidenceUnavailable |-> 823,
     CapabilityEvidenceUnavailable |-> 824, FailureDomainEvidenceUnavailable |-> 825,
     PolicyEvidenceUnavailable |-> 826]

reason_class_of(code) ==
    IF Code[code] \in 100..899 THEN Code[code] \div 100 - 1 ELSE 8

outcome_of(code) ==
    CASE code = "None" -> "Admissible"
      [] code \in {"BatchTooLarge", "TooManyConstraints", "TooManyCandidates", "TooManyEntityRefs"} ->
           "ResourceLimit"
      [] code \in {"MalformedConstraint", "MalformedCandidate"} -> "Malformed"
      [] code \in {"MissingAuthorityContext", "PathNotLegal", "ConstraintSetRevoked"} -> "Unauthorized"
      [] code \in {"ConstraintSetNotActive", "ConstraintSetSuspended", "ConstraintSetSuperseded",
                   "ConstraintSetRetired", "StaleConstraintSetGeneration"} -> "StaleConstraintSet"
      [] code = "ConstraintSetRevalidationRequired" -> "RevalidationRequired"
      [] code = "StalePathAuthority" -> "StalePathAuthority"
      [] Code[code] \in 700..707 -> "StaleEvidence"
      [] code \in {"PathAuthorityNotEvaluated", "PathAuthorityGenerationMissing",
                   "PlannerCostModelMismatch", "LatencyEvidenceUnavailable",
                   "BandwidthCapabilityUnavailable"} \/ Code[code] \in 820..826 ->
           "UnknownRequiredEvidence"
      [] OTHER -> "HardConstraintFailed"

EvidenceFamilies ==
    <<"Topology", "LinkState", "Capability", "FailureDomain", "Policy", "Planner">>

\* A reason that is not bound to a constraint has ordinal and constraint 0.
\* family orders the reasons of one evidence code; 0 elsewhere, where code
\* and constraint determine it.
Unbound(code, family, subject) ==
    <<[code |-> code, ordinal |-> 0, constraint |-> 0, family |-> family, subject |-> subject]>>

Bound(c, ordinal, reasons) ==
    [i \in DOMAIN reasons |-> [code |-> reasons[i].code, ordinal |-> ordinal, constraint |-> c.id,
                               family |-> 0, subject |-> reasons[i].subject]]

compare_reason(a, b) ==
    compare_lists(
        <<reason_class_of(a.code), a.ordinal, Code[a.code], a.constraint, a.family>> \o a.subject,
        <<reason_class_of(b.code), b.ordinal, Code[b.code], b.constraint, b.family>> \o b.subject)

reason_less(a, b) == compare_reason(a, b) < 0

\* One reason after those kept, under the two explanation bounds.
keep_reason(s, r) ==
    IF Len(s.kept) >= max_explanation_reasons THEN s
    ELSE IF r.constraint = 0 \/ r.constraint \in s.represented
    THEN [s EXCEPT !.kept = Append(@, r)]
    ELSE IF Cardinality(s.represented) >= max_failed_constraints_per_evaluation THEN s
    ELSE [kept |-> Append(s.kept, r), represented |-> s.represented \cup {r.constraint}]

\* Applies the two explanation bounds to reasons in canonical order.
bound_reasons(sorted) ==
    LET after[n \in 0..Len(sorted)] ==
            IF n = 0 THEN [kept |-> <<>>, represented |-> {}]
            ELSE keep_reason(after[n - 1], sorted[n])
    IN after[Len(sorted)].kept

\* Mutant: the bounds are applied before the reasons are ordered.
BoundBeforeOrdering(reasons) == stable_sort(bound_reasons(reasons), reason_less)

canonicalize_reasons(reasons) == bound_reasons(stable_sort(reasons, reason_less))

\* The code of a least reason; reasons that compare equal have one code.
primary_reason_of(reasons) ==
    IF reasons = <<>> THEN "None"
    ELSE (CHOOSE r \in ToSet(reasons) : \A q \in ToSet(reasons) : ~reason_less(q, r)).code

outcome_from_reasons(reasons, has_preferences) ==
    IF reasons = <<>> /\ has_preferences THEN "AdmissibleWithPreferences"
    ELSE outcome_of(primary_reason_of(reasons))
-------------------------------------------------------------------------------
(* One candidate *)

\* Mutant: isolation evidence is not bound to the failure-domain family.
IsolationUnbound(kind) ==
    CASE kind \in {"MinBandwidthCapability", "RequiredCapability", "ForbiddenCapability"} ->
           {"Capability"}
      [] kind \in {"RequiredFailureDomainRelation", "ForbiddenFailureDomainRelation"} ->
           {"FailureDomain"}
      [] kind = "AdministrativePolicy" -> {"Policy"}
      [] kind = "MaxHopCount" -> {"Planner"}
      [] OTHER -> {"Topology"}

\* evidence_families of the kinds other than MaxLatency, whose family depends
\* on its source.
evidence_families(kind) ==
    CASE kind \in {"MinBandwidthCapability", "RequiredCapability", "ForbiddenCapability"} ->
           {"Capability"}
      [] kind \in {"IsolationClass", "RequiredFailureDomainRelation",
                   "ForbiddenFailureDomainRelation"} -> {"FailureDomain"}
      [] kind = "AdministrativePolicy" -> {"Policy"}
      [] kind = "MaxHopCount" -> {"Planner"}
      [] OTHER -> {"Topology"}

families_of(c) ==
    IF c.kind = "MaxLatency"
    THEN IF c.latency_source = "PlannerCost" THEN {"Planner"} ELSE {"LinkState"}
    ELSE evidence_families(c.kind)

consulted(set) ==
    (UNION {families_of(set.constraints[i]) : i \in DOMAIN set.constraints})
        \cup {"PathAuthority"}
        \cup (IF set.ranking.consume_planner_cost THEN {"Planner"} ELSE {})

LifecycleReason ==
    [Declared |-> "ConstraintSetNotActive", Suspended |-> "ConstraintSetSuspended",
     RevalidationRequired |-> "ConstraintSetRevalidationRequired",
     Revoked |-> "ConstraintSetRevoked", Superseded |-> "ConstraintSetSuperseded",
     Retired |-> "ConstraintSetRetired"]

StalenessCode ==
    [Topology |-> "StaleTopologyEvidence", LinkState |-> "StaleLinkStateEvidence",
     Capability |-> "StaleCapabilityEvidence", FailureDomain |-> "StaleFailureDomainEvidence",
     Policy |-> "StalePolicyEvidence", Planner |-> "StalePlannerEvidence"]

SetSubject == <<3, 0>>

\* The reason with a code, if there is one.
UnlessNone(code, family, subject) ==
    IF code = "None" THEN <<>> ELSE Unbound(code, family, subject)

\* Stages 1 to 4: resource admission, structure, caller identity.
structure_reasons(set, ctx, candidate) ==
    IF Len(set.constraints) > max_constraints_per_set
    THEN Unbound("TooManyConstraints", 0, SetSubject)
    ELSE (IF verify_canonical_constraint_set(set) THEN <<>>
          ELSE Unbound("MalformedConstraint", 0, SetSubject))
         \o UnlessNone(validate_candidate(candidate), 0, PathSubject(candidate))

authority_context_reasons(ctx) ==
    IF ctx.authority_verified \/ ctx.provenance_complete THEN <<>>
    ELSE Unbound("MissingAuthorityContext", 0, <<15, 0>>)

\* Stage 5: lifecycle and generation of the set.
lifecycle_reasons(set, ctx) ==
    IF set.state # "Active" THEN Unbound(LifecycleReason[set.state], 0, SetSubject)
    ELSE IF ctx.requested_generation \notin {0, set.generation}
    THEN Unbound("StaleConstraintSetGeneration", 0, SetSubject) ELSE <<>>

\* Stage 6: Path Authority is never overridden.
path_authority_reasons(ctx, candidate) ==
    UnlessNone(
        IF candidate.authority_generation = 0 THEN "PathAuthorityGenerationMissing"
        ELSE IF ctx.current["PathAuthority"] = 0 THEN "EvidenceNotBound"
        ELSE IF candidate.authority_generation # ctx.current["PathAuthority"] THEN "StalePathAuthority"
        ELSE IF candidate.authority_verdict = "NotEvaluated" THEN "PathAuthorityNotEvaluated"
        ELSE IF candidate.authority_verdict = "Rejected" THEN "PathNotLegal"
        ELSE "None", 8, PathSubject(candidate))

\* Mutant: a candidate without an evidence generation is not stale.
UnboundIsCurrent(set, ctx, candidate, f) ==
    IF f \in consulted(set) /\ candidate.evidence[f] \notin {0, ctx.current[f]}
    THEN StalenessCode[f] ELSE "None"

family_currentness(set, ctx, candidate, f) ==
    IF f \notin consulted(set) THEN "None"
    ELSE IF ctx.current[f] = 0 THEN "EvidenceNotBound"
    ELSE IF candidate.evidence[f] # ctx.current[f] THEN StalenessCode[f] ELSE "None"

too_old(ctx, candidate) ==
    /\ ctx.max_age > 0 /\ candidate.captured_tick # 0
    /\ ctx.now_tick - candidate.captured_tick > ctx.max_age

\* Stage 7: currentness of the consulted families, age and cost model.
currentness_reasons(set, ctx, candidate) ==
    FlattenSeq([i \in DOMAIN EvidenceFamilies |->
        UnlessNone(family_currentness(set, ctx, candidate, EvidenceFamilies[i]), i + 1,
                   PathSubject(candidate))])
    \o (IF too_old(ctx, candidate) THEN Unbound("EvidenceAgeExceeded", 1, PathSubject(candidate))
        ELSE <<>>)
    \o (IF /\ set.ranking.consume_planner_cost /\ candidate.has_planner_cost
           /\ candidate.cost_model # set.ranking.expected_cost_model
        THEN Unbound("PlannerCostModelMismatch", 7, PathSubject(candidate)) ELSE <<>>)

\* Arguments are evaluated only when they are needed: a later stage never
\* sees what an earlier one refused.
Unless(first, otherwise) == IF first # <<>> THEN first ELSE otherwise

gate_reasons(set, ctx, candidate) ==
    Unless(structure_reasons(set, ctx, candidate),
    Unless(authority_context_reasons(ctx),
    Unless(lifecycle_reasons(set, ctx),
    Unless(path_authority_reasons(ctx, candidate),
           currentness_reasons(set, ctx, candidate)))))

Scoped(set, scope) == {i \in DOMAIN set.constraints : set.constraints[i].scope = scope}

\* Stage 8: per mandatory constraint, in canonical order, all its reasons.
mandatory_reasons(set, ctx, candidate) ==
    [i \in DOMAIN set.constraints |->
        IF i \in Scoped(set, "Mandatory")
        THEN Bound(set.constraints[i], i - 1,
                   evaluate_mandatory(set.constraints[i], candidate, ctx.current))
        ELSE <<>>]

\* push_reason keeps the first few reasons of a constraint.
push_reasons(reasons) ==
    SubSeq(reasons, 1, Min({Len(reasons), kMaxReasonsPerConstraint}))

\* The kinds whose slot is computed from a figure: whether the figure is
\* known, and by how much it is within the bound.
NumericKind == {"MaxLatency", "MinBandwidthCapability", "MaxHopCount", "RequiredFailureDomainRelation"}

preference_slack(c, candidate, current) ==
    LET bottleneck == path_bandwidth_capability(candidate, current["Capability"])
        scan == scan_domains(candidate, c.domain_kind)
    IN CASE c.kind = "MaxLatency" ->
              [known |-> candidate.latency.source = c.latency_source,
               slack |-> c.bound - candidate.latency.micros]
         [] c.kind = "MinBandwidthCapability" ->
              [known |-> bottleneck # NoRef, slack |-> bottleneck - c.bound]
         [] c.kind = "MaxHopCount" ->
              [known |-> TRUE, slack |-> c.bound - candidate.hop_count]
         [] c.kind = "RequiredFailureDomainRelation" ->
              [known |-> scan.complete, slack |-> Cardinality(scan.domains) - c.bound]

\* Mutant: a figure exactly at its bound does not satisfy the preference.
StrictSlot(c, candidate, current) ==
    IF c.kind \in NumericKind
    THEN LET f == preference_slack(c, candidate, current)
         IN [satisfied |-> f.known /\ f.slack > 0, margin |-> IF f.known THEN f.slack ELSE 0]
    ELSE LET passed == evaluate_mandatory(c, candidate, current) = <<>>
         IN [satisfied |-> passed, margin |-> IF passed THEN 1 ELSE 0]

preference_slot(c, candidate, current) ==
    IF c.kind \in NumericKind
    THEN LET f == preference_slack(c, candidate, current)
         IN [satisfied |-> f.known /\ f.slack >= 0, margin |-> IF f.known THEN f.slack ELSE 0]
    ELSE LET passed == evaluate_mandatory(c, candidate, current) = <<>>
         IN [satisfied |-> passed, margin |-> IF passed THEN 1 ELSE 0]

evaluate_preference(c, ordinal, candidate, current) ==
    LET slot == preference_slot(c, candidate, current)
    IN [constraint |-> c.id, ordinal |-> ordinal, rank |-> c.preference_rank,
        weight |-> c.preference_weight, satisfied |-> slot.satisfied, margin |-> slot.margin]

\* Stage 9: the preference slots by rank, then by canonical position.
evaluate_preferences(set, ctx, candidate) ==
    LET order == stable_order(Scoped(set, "Preference"),
                              LAMBDA i, j : set.constraints[i].preference_rank
                                               < set.constraints[j].preference_rank)
    IN [k \in DOMAIN order |->
           evaluate_preference(set.constraints[order[k]], order[k] - 1, candidate, ctx.current)]

\* The record of the reasons kept, of `produced` many.
Record(set, candidate, reasons, produced, preferences) ==
    [path |-> candidate.path,
     reasons |-> reasons,
     reasons_truncated |-> Len(reasons) < produced,
     preferences |-> preferences,
     consulted |-> consulted(set),
     primary_reason |-> primary_reason_of(reasons),
     outcome |-> outcome_from_reasons(reasons, preferences # <<>>)]

\* Stages 8 and 9 of a candidate that passed the gate; failed has the reasons
\* of each constraint.
RecordOfChecks(set, ctx, candidate, failed) ==
    Record(set, candidate, canonicalize_reasons(ForEach(failed, push_reasons)),
           Len(FlattenSeq(failed)),
           IF \A i \in DOMAIN failed : failed[i] = <<>>
           THEN evaluate_preferences(set, ctx, candidate) ELSE <<>>)

RecordOfGate(set, ctx, candidate, gate) ==
    IF gate # <<>> THEN Record(set, candidate, canonicalize_reasons(gate), Len(gate), <<>>)
    ELSE RecordOfChecks(set, ctx, candidate, mandatory_reasons(set, ctx, candidate))

evaluate_candidate(set, ctx, candidate) ==
    RecordOfGate(set, ctx, candidate, gate_reasons(set, ctx, candidate))
-------------------------------------------------------------------------------
(* A population *)

Admissible(record) == record.outcome \in {"Admissible", "AdmissibleWithPreferences"}

\* The positions of the admissible records, best first.
order_admissible(records, candidates, policy) ==
    stable_order({i \in DOMAIN records : Admissible(records[i])},
                 LAMBDA i, j : compare_ranked(records[i], candidates[i],
                                              records[j], candidates[j], policy) < 0)

canonical_population(candidates) == stable_sort(candidates, LAMBDA a, b : a.path < b.path)

conflicting_duplicates(ordered) ==
    \E i \in 2..Len(ordered) :
        /\ ordered[i - 1].path = ordered[i].path
        /\ candidate_digest(ordered[i - 1]) # candidate_digest(ordered[i])

\* The last candidate kept has the path of the one before.
drop_duplicates(ordered) ==
    Subsequence(ordered, {i \in DOMAIN ordered :
                             i = 1 \/ ordered[i - 1].path # ordered[i].path})

BatchRejected(reason) ==
    [outcome |-> "BatchRejected", reason |-> reason, records |-> <<>>, order |-> <<>>]

\* The primary reason of a population without an admissible candidate: the
\* least class, then the least code.
primary_batch_reason(records) ==
    IF records = <<>> \/ \E i \in DOMAIN records : Admissible(records[i]) THEN "None"
    ELSE (CHOOSE r \in ToSet(records) : \A q \in ToSet(records) :
              Code[r.primary_reason] <= Code[q.primary_reason]).primary_reason

Answered(records, order) ==
    [outcome |-> IF order # <<>> THEN "AdmissibleCandidatesAvailable" ELSE "NoAdmissibleCandidate",
     reason |-> primary_batch_reason(records),
     records |-> records,
     order |-> [i \in DOMAIN order |-> records[order[i]].path]]

RankRecords(set, canonical, records) ==
    Answered(records, order_admissible(records, canonical, set.ranking))

EvaluateCanonical(set, ctx, canonical) ==
    RankRecords(set, canonical,
        [i \in DOMAIN canonical |-> evaluate_candidate(set, ctx, canonical[i])])

\* Mutant: the population is evaluated as it was submitted.
BatchInArrivalOrder(set, ctx, candidates) ==
    IF Len(candidates) > max_candidates_per_evaluation THEN BatchRejected("TooManyCandidates")
    ELSE IF Len(candidates) > max_batch_size THEN BatchRejected("BatchTooLarge")
    ELSE IF conflicting_duplicates(candidates) THEN BatchRejected("MalformedCandidate")
    ELSE EvaluateCanonical(set, ctx, drop_duplicates(candidates))

evaluate_batch(set, ctx, candidates) ==
    LET ordered == canonical_population(candidates)
    IN IF Len(candidates) > max_candidates_per_evaluation THEN BatchRejected("TooManyCandidates")
       ELSE IF Len(candidates) > max_batch_size THEN BatchRejected("BatchTooLarge")
       ELSE IF conflicting_duplicates(ordered) THEN BatchRejected("MalformedCandidate")
       ELSE EvaluateCanonical(set, ctx, drop_duplicates(ordered))
-------------------------------------------------------------------------------
(* Definitions are submitted and evaluated against. *)

Init == definition = None /\ call = None

\* The coordinator finalizes a submitted definition and assigns its generation
\* without computing the digest anew.
Submit(submission) ==
    /\ definition = None
    /\ LET raw == submission.raw
           result == validate_and_finalize_constraint_set(raw)
       IN definition' = [raw |-> raw, ok |-> result.ok, contradictions |-> result.contradictions,
                         set |-> IF result.ok
                                 THEN [result.set EXCEPT !.generation = submission.assigned,
                                                         !.state = submission.state]
                                 ELSE result.set]
    /\ UNCHANGED call

Evaluate(ctx, candidates) ==
    /\ definition # None /\ call = None
    /\ definition.ok /\ definition.raw \in Consultable
    /\ call' = [ctx |-> ctx, candidates |-> candidates,
                batch |-> evaluate_batch(definition.set, ctx, candidates)]
    /\ UNCHANGED definition

Return == call # None /\ call' = None /\ UNCHANGED definition

Withdraw == definition # None /\ call = None /\ definition' = None /\ UNCHANGED call

Next ==
    \/ \E submission \in Submission : Submit(submission)
    \/ \E ctx \in Context, candidates \in Population : Evaluate(ctx, candidates)
    \/ Return
    \/ Withdraw

Spec == Init /\ [][Next]_vars
-------------------------------------------------------------------------------
(* What a definition and an evaluation mean, stated without reasons, orders *)
(* or bounds.                                                               *)

Rearrangements(S) == {p \in [S -> S] : \A x \in S : \E y \in S : p[y] = x}

Permits(c) == c.unknown_policy = "PermitUnknownNegative"

Satisfies(c, candidate, current) ==
    LET nodes == ToSet(candidate.nodes)
        links == ToSet(candidate.links)
        entities == nodes \cup links
        wanted == IF c.kind \in DOMAIN ListOf THEN ToSet(items(c)) ELSE {}
        domain == [e \in entities |-> find(e.domains, c.domain_kind)]
        complete == \A e \in entities : domain[e] # NoRef
        domains == {domain[e] : e \in entities} \ {NoRef}
        InNone(field) == \A n \in nodes : n[field] \notin wanted /\ (n[field] = 0 => Permits(c))
    IN CASE c.kind = "MaxLatency" ->
              candidate.latency.source = c.latency_source /\ candidate.latency.micros <= c.bound
         [] c.kind = "MinBandwidthCapability" ->
              \A l \in links : /\ l.bandwidth.model # "None"
                               /\ l.bandwidth.generation = current["Capability"]
                               /\ l.bandwidth.bits_per_second >= c.bound
         [] c.kind = "MaxHopCount" -> Len(candidate.links) <= c.bound
         [] c.kind = "RequiredNode" -> wanted \subseteq {n.node : n \in nodes}
         [] c.kind = "ForbiddenNode" -> wanted \cap {n.node : n \in nodes} = {}
         [] c.kind = "RequiredLink" -> wanted \subseteq {l.link : l \in links}
         [] c.kind = "ForbiddenLink" -> wanted \cap {l.link : l \in links} = {}
         [] c.kind = "RequiredTier" -> \A n \in nodes : n.tier \in wanted
         [] c.kind = "ForbiddenTier" -> InNone("tier")
         [] c.kind = "RequiredSite" -> \A n \in nodes : n.site \in wanted
         [] c.kind = "ForbiddenSite" -> InNone("site")
         [] c.kind = "LocalityScope" ->
              \A n \in nodes : find(n.localities, c.domain_kind) = c.locality_domain
         [] c.kind = "IsolationClass" ->
              \A e \in entities : find(e.isolation, c.isolation_class) = current["FailureDomain"]
         [] c.kind = "RequiredCapability" ->
              \A e \in entities, w \in wanted : find(e.capabilities, w) = current["Capability"]
         [] c.kind = "ForbiddenCapability" ->
              Permits(c) /\ \A e \in entities : wanted \cap {r[1] : r \in e.capabilities} = {}
         [] c.kind = "RequiredFailureDomainRelation" ->
              complete /\ Cardinality(domains) >= c.bound
         [] c.kind = "ForbiddenFailureDomainRelation" ->
              /\ complete \/ Permits(c)
              /\ IF c.relation = "Shared" THEN complete => Cardinality(domains) > 1
                                          ELSE Cardinality(domains) < c.bound
         [] c.kind = "AdministrativePolicy" ->
              \A w \in wanted : find(candidate.policies, w) = current["Policy"]

\* A well-formed, legal candidate, current in everything the definition
\* consults, that satisfies every mandatory constraint.
Lawful(set, ctx, candidate) ==
    /\ set.digest = constraint_set_digest(set)
    /\ validate_candidate(candidate) = "None"
    /\ ctx.authority_verified \/ ctx.provenance_complete
    /\ set.state = "Active" /\ ctx.requested_generation \in {0, set.generation}
    /\ candidate.authority_verdict = "Legal"
    /\ \A f \in consulted(set) : ctx.current[f] # 0 /\ candidate.evidence[f] = ctx.current[f]
    /\ ctx.max_age = 0 \/ candidate.captured_tick = 0
          \/ ctx.now_tick <= candidate.captured_tick + ctx.max_age
    /\ set.ranking.consume_planner_cost /\ candidate.has_planner_cost
          => candidate.cost_model = set.ranking.expected_cost_model
    /\ \A i \in Scoped(set, "Mandatory") : Satisfies(set.constraints[i], candidate, ctx.current)

Evaluated == IF call = None THEN {} ELSE ToSet(call.batch.records)

\* The candidate a record was made from.
Source(record) ==
    CHOOSE c \in ToSet(drop_duplicates(canonical_population(call.candidates))) : c.path = record.path

\* A candidate is admissible exactly when it is lawful: no order of stages, no
\* bound on reasons and no unknown evidence admits another or refuses one
\* (evaluate_candidate).
AdmissibleIffLawful ==
    \A record \in Evaluated :
        Admissible(record) <=> Lawful(definition.set, call.ctx, Source(record))

\* An answer depends on the current generation of the families it reports as
\* consulted and of no other.  Invalidation relies on it: an advance of another
\* family leaves the result current (evaluate_candidate, families_of).
UnconsultedIsIrrelevant ==
    call # None =>
        \A alt \in Context :
            (/\ [alt EXCEPT !.current = call.ctx.current] = call.ctx
             /\ \A f \in consulted(definition.set) : alt.current[f] = call.ctx.current[f])
            => evaluate_batch(definition.set, alt, call.candidates) = call.batch

Failing(set, ctx, candidate) ==
    {i \in Scoped(set, "Mandatory") : ~Satisfies(set.constraints[i], candidate, ctx.current)}

\* Of a candidate that passed the gate: pushed has its reasons before the
\* bounds, failing the mandatory constraints it does not satisfy.
Explains(record, constraints, pushed, failing) ==
    /\ record.primary_reason = primary_reason_of(pushed)
    /\ failing # {} => record.reasons[1].constraint = constraints[Min(failing)].id
    /\ ~record.reasons_truncated =>
         {r.constraint : r \in ToSet(record.reasons)} = {constraints[i].id : i \in failing}

\* The bounds on explanations never change the primary reason: it is the least of
\* those pushed, stands first, and names the first mandatory constraint that
\* fails.  An explanation not marked as truncated names every one that fails
\* (push_reason, canonicalize_reasons).
ExplanationIsSound ==
    \A record \in Evaluated :
        /\ record.reasons # <<>> => record.reasons[1].code = record.primary_reason
        /\ Code[record.primary_reason] \notin 1..799 =>   \* no stage before the constraints
             LET candidate == Source(record) IN
             Explains(record, definition.set.constraints,
                      ForEach(mandatory_reasons(definition.set, call.ctx, candidate), push_reasons),
                      Failing(definition.set, call.ctx, candidate))

\* A preference is satisfied exactly when the same constraint would have passed
\* as a mandatory one, although it is computed from the figures again
\* (evaluate_preference).
PreferencesAgree ==
    \A record \in Evaluated : \A k \in DOMAIN record.preferences :
        LET slot == record.preferences[k]
            c == definition.set.constraints[slot.ordinal + 1]
        IN slot.satisfied <=> Satisfies(c, Source(record), call.ctx.current)

\* Of two admissible candidates, one that satisfies the foremost preference
\* ranks before one that does not, whatever their margins, their planner ranks
\* or their costs (compare_preferences, order_admissible).
ForemostPreferenceDecides ==
    \A a, b \in Evaluated :
        /\ Admissible(a) /\ Admissible(b)
        /\ a.preferences # <<>> /\ a.preferences[1].satisfied /\ ~b.preferences[1].satisfied
        => \E i, j \in DOMAIN call.batch.order :
              i < j /\ call.batch.order[i] = a.path /\ call.batch.order[j] = b.path

\* The answer to a population does not depend on the order in which the
\* candidates were submitted (evaluate_batch).
ContainerOrderUnobservable ==
    call # None =>
        \A p \in Rearrangements(DOMAIN call.candidates) :
            evaluate_batch(definition.set, call.ctx, [i \in DOMAIN p |-> call.candidates[p[i]]])
                = call.batch

\* However the constraints and their entity lists are ordered, a definition has
\* one canonical form and one verdict (canonicalize_constraint_set).
CanonicalFormIsUnique ==
    definition # None =>
        LET s == definition.raw.constraints IN
        \A p \in Rearrangements(DOMAIN s) :
            LET shuffled == [i \in DOMAIN s |->
                                [s[p[i]] EXCEPT !.lists = [l \in DOMAIN @ |-> Reverse(@[l])]]]
                other == validate_and_finalize_constraint_set(
                             [definition.raw EXCEPT !.constraints = shuffled])
            IN /\ other.ok = definition.ok
               /\ other.ok => other.set.constraints = definition.set.constraints
               /\ other.contradictions = definition.contradictions

\* An accepted definition passes the verification every reader applies, keeps
\* each submitted requirement exactly once, and is its own canonical form
\* (canonicalize_constraint_set, verify_canonical_constraint_set).
AcceptedIsCanonical ==
    definition # None /\ definition.ok =>
        LET set == [definition.set EXCEPT !.generation = definition.raw.generation]
            s == set.constraints
            raw == definition.raw.constraints
        IN /\ verify_canonical_constraint_set(set)
           /\ validate_and_finalize_constraint_set(set).set = set
           /\ {Payload(s[i]) : i \in DOMAIN s}
                 = {Payload(canonicalize_lists(raw[i])) : i \in DOMAIN raw}
           /\ \A i, j \in DOMAIN s : i # j => Payload(s[i]) # Payload(s[j]) /\ s[i].id # s[j].id

\* The contradictions that exclude each other whatever the path is.
Irreconcilable ==
    {"RequiredNode", "RequiredLink", "RequiredCapability", "LocalityScope", "Distinct", "MaxHopCount"}

\* A definition refused for such a contradiction is one no candidate could have
\* satisfied (detect_contradictions against evaluate_mandatory).
ContradictionsAreReal ==
    definition # None =>
        \A x \in {x \in definition.contradictions : x.kind \in Irreconcilable} :
            LET s == ToSet(definition.raw.constraints)
                involved == {c \in s : \/ c.id \in {x.first, x.second}
                                       \/ x.kind = "MaxHopCount" /\ c.kind = "RequiredNode"}
            IN ~\E candidate \in Probe, ctx \in Context :
                   /\ validate_candidate(candidate) = "None"
                   /\ \A c \in involved : Satisfies(c, candidate, ctx.current)
===============================================================================

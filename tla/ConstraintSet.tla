----------------------------- MODULE ConstraintSet -----------------------------
(***************************************************************************)
(* Typed constraints, their canonical form and the contradictions a set is *)
(* rejected for (constraint.cpp, constraint_set.cpp).  Identities are      *)
(* numbers; 0 is the invalid or unset value, as in the code.  A constraint *)
(* keeps its entity lists in  lists , one sequence per list name.          *)
(***************************************************************************)
EXTENDS Ordering, SequencesExt

CONSTANTS
    max_constraints_per_set,         \* Limits
    max_entity_refs_per_constraint,  \* Limits
    kMaxFixedPointBound              \* 2^62 in the code

ASSUME LimitsAssumption ==
    {max_constraints_per_set, max_entity_refs_per_constraint, kMaxFixedPointBound} \subseteq Nat \ {0}

Kinds ==
    <<"MaxLatency", "MinBandwidthCapability", "RequiredNode", "ForbiddenNode",
      "RequiredLink", "ForbiddenLink", "RequiredTier", "ForbiddenTier", "RequiredSite",
      "ForbiddenSite", "LocalityScope", "IsolationClass", "RequiredCapability",
      "ForbiddenCapability", "RequiredFailureDomainRelation",
      "ForbiddenFailureDomainRelation", "AdministrativePolicy", "MaxHopCount">>

ForbiddenKind ==
    {"ForbiddenNode", "ForbiddenLink", "ForbiddenTier", "ForbiddenSite",
     "ForbiddenCapability", "ForbiddenFailureDomainRelation"}

is_positive_requirement(kind) == kind \in ToSet(Kinds) \ ForbiddenKind

ListNames == <<"nodes", "links", "tiers", "sites", "capabilities", "policies">>

\* The entity list a kind is about, for the kinds that have one.
ListOf ==
    [RequiredNode |-> "nodes", ForbiddenNode |-> "nodes",
     RequiredLink |-> "links", ForbiddenLink |-> "links",
     RequiredTier |-> "tiers", ForbiddenTier |-> "tiers",
     RequiredSite |-> "sites", ForbiddenSite |-> "sites",
     RequiredCapability |-> "capabilities", ForbiddenCapability |-> "capabilities",
     AdministrativePolicy |-> "policies"]

\* DomainKind: Node 1, Rack 2, Site 3, PowerZone 4, CoolingZone 5, Plane 6,
\* FailureDomain 7.  Locality is scoped to the middle five.
LocalityKind == 2..6

\* What a caller can put in the fields of a constraint and of a definition.
Constraint ==
    [id : Nat, generation : Nat, kind : STRING, scope : {"Mandatory", "Preference"},
     unknown_policy : {"FailClosed", "PermitUnknownNegative"}, bound : Int,
     latency_source : {"Unset", "PlannerCost", "ObservedLatency"}, domain_kind : Nat,
     relation : {"Unset", "Distinct", "Shared"}, locality_domain : Nat, isolation_class : Nat,
     lists : [ToSet(ListNames) -> Seq(Nat)], preference_rank : Nat, preference_weight : Nat]

RankingPolicy ==
    [consume_planner_rank : BOOLEAN, consume_planner_cost : BOOLEAN, prefer_lower_cost : BOOLEAN,
     expected_cost_model : STRING, tiebreak : STRING]

\* A definition before its digest is taken.
Undigested ==
    [generation : Nat, constraints : Seq(Constraint), state : STRING, digest : {<<>>},
     ranking : RankingPolicy]

items(c) == c.lists[ListOf[c.kind]]

any_entity_list(c) == \E l \in ToSet(ListNames) : c.lists[l] # <<>>

valid_payload(c) ==
    LET bare == ~any_entity_list(c)
        undomained == c.domain_kind = 0 /\ c.relation = "Unset" /\ c.locality_domain = 0
                      /\ c.isolation_class = 0
        relational == bare /\ c.domain_kind # 0 /\ c.locality_domain = 0
                      /\ c.isolation_class = 0 /\ c.latency_source = "Unset"
    IN CASE c.kind = "MaxLatency" ->
              bare /\ undomained /\ c.latency_source # "Unset" /\ c.bound \in 1..kMaxFixedPointBound
         [] c.kind = "MinBandwidthCapability" ->
              bare /\ undomained /\ c.latency_source = "Unset" /\ c.bound \in 1..kMaxFixedPointBound
         [] c.kind = "MaxHopCount" ->
              bare /\ undomained /\ c.latency_source = "Unset" /\ c.bound > 0 /\ c.bound <= 65535
         [] c.kind = "LocalityScope" ->
              /\ bare /\ c.domain_kind \in LocalityKind /\ c.locality_domain # 0
              /\ c.bound = 0 /\ c.relation = "Unset" /\ c.isolation_class = 0
              /\ c.latency_source = "Unset"
         [] c.kind = "IsolationClass" ->
              /\ bare /\ c.isolation_class # 0 /\ c.bound = 0 /\ c.domain_kind = 0
              /\ c.relation = "Unset" /\ c.locality_domain = 0 /\ c.latency_source = "Unset"
         [] c.kind = "RequiredFailureDomainRelation" ->
              relational /\ c.relation = "Distinct" /\ c.bound \in 1..kMaxFixedPointBound
         [] c.kind = "ForbiddenFailureDomainRelation" ->
              /\ relational
              /\ \/ c.relation = "Shared" /\ c.bound = 0
                 \/ c.relation = "Distinct" /\ c.bound >= 1
         [] OTHER ->   \* the kinds with an entity list
              \A l \in ToSet(ListNames) : (c.lists[l] # <<>>) <=> (l = ListOf[c.kind])

validate_constraint(c) ==
    /\ c.id > 0 /\ c.generation > 0
    /\ c.kind \in ToSet(Kinds)
    /\ c.unknown_policy = "PermitUnknownNegative" => ~is_positive_requirement(c.kind)
    /\ \A l \in ToSet(ListNames) : /\ Len(c.lists[l]) <= max_entity_refs_per_constraint
                                   /\ 0 \notin ToSet(c.lists[l])
    /\ IF c.scope = "Mandatory" THEN c.preference_rank = 0 /\ c.preference_weight = 0
                                ELSE c.preference_weight \in 1..1000
    /\ valid_payload(c)
-------------------------------------------------------------------------------
\* The enumerators in the order of their values.
EnumOrder(e, values) == CHOOSE i \in DOMAIN values : values[i] = e

ScalarPayload(c) ==
    <<EnumOrder(c.kind, Kinds), EnumOrder(c.scope, <<"Mandatory", "Preference">>), c.bound,
      EnumOrder(c.latency_source, <<"Unset", "PlannerCost", "ObservedLatency">>),
      c.domain_kind, EnumOrder(c.relation, <<"Unset", "Distinct", "Shared">>),
      c.locality_domain, c.isolation_class,
      EnumOrder(c.unknown_policy, <<"FailClosed", "PermitUnknownNegative">>),
      c.preference_rank, c.preference_weight>>

ListPayload(c) == [i \in DOMAIN ListNames |-> c.lists[ListNames[i]]]

compare_payload(a, b) ==
    OrElse(compare_lists(ScalarPayload(a), ScalarPayload(b)),
           Lexicographic(compare_lists, ListPayload(a), ListPayload(b)))

canonical_less(a, b) ==
    OrElse(compare_payload(a, b),
    OrElse(Cmp(a.id, b.id), Cmp(a.generation, b.generation))) < 0

Payload(c) == [f \in DOMAIN c \ {"id", "generation"} |-> c[f]]

\* Mutant: the scope is left out of the comparison.
EquivalentButForScope(a, b) ==
    [Payload(a) EXCEPT !.scope = b.scope, !.preference_weight = b.preference_weight] = Payload(b)

equivalent_payload(a, b) == Payload(a) = Payload(b)
-------------------------------------------------------------------------------
bucket_of(s, kind) == {i \in DOMAIN s : s[i].kind = kind}

Contradiction(kind, first, second) == [kind |-> kind, first |-> first, second |-> second]

add_same_entity_contradictions(s, required, forbidden) ==
    {Contradiction(required, s[ij[1]].id, s[ij[2]].id) :
        ij \in {ij \in bucket_of(s, required) \X bucket_of(s, forbidden) :
                   ToSet(items(s[ij[1]])) \cap ToSet(items(s[ij[2]])) # {}}}

PairContradictions(s, kind, Conflict(_, _)) ==
    {Contradiction(kind, s[ij[1]].id, s[ij[2]].id) :
        ij \in {ij \in bucket_of(s, kind) \X bucket_of(s, kind) :
                   ij[1] < ij[2] /\ Conflict(s[ij[1]], s[ij[2]])}}

RelationContradictions(s, relation, Conflict(_, _)) ==
    {Contradiction(relation, s[ij[1]].id, s[ij[2]].id) :
        ij \in {ij \in bucket_of(s, "RequiredFailureDomainRelation")
                       \X bucket_of(s, "ForbiddenFailureDomainRelation") :
                   /\ s[ij[1]].domain_kind = s[ij[2]].domain_kind
                   /\ s[ij[2]].relation = relation
                   /\ Conflict(s[ij[1]], s[ij[2]])}}

RequiredNodes(s) == UNION {ToSet(items(s[i])) : i \in bucket_of(s, "RequiredNode")}

\* Mutant: every required node is counted as a hop.
HopPerNode(s) ==
    {Contradiction("MaxHopCount", s[i].id, 0) :
        i \in {i \in bucket_of(s, "MaxHopCount") : Cardinality(RequiredNodes(s)) > s[i].bound}}

hop_budget_contradictions(s) ==
    {Contradiction("MaxHopCount", s[i].id, 0) :
        i \in {i \in bucket_of(s, "MaxHopCount") : Cardinality(RequiredNodes(s)) - 1 > s[i].bound}}

\* The contradictions of a canonical sequence of constraints.  A contradiction
\* carries the (required) kind it is about, or the forbidden relation.
detect_contradictions(s) ==
    UNION {add_same_entity_contradictions(s, "RequiredNode", "ForbiddenNode"),
           add_same_entity_contradictions(s, "RequiredLink", "ForbiddenLink"),
           add_same_entity_contradictions(s, "RequiredTier", "ForbiddenTier"),
           add_same_entity_contradictions(s, "RequiredSite", "ForbiddenSite"),
           add_same_entity_contradictions(s, "RequiredCapability", "ForbiddenCapability"),
           PairContradictions(s, "LocalityScope",
               LAMBDA a, b : a.domain_kind = b.domain_kind /\ a.locality_domain # b.locality_domain),
           PairContradictions(s, "IsolationClass",
               LAMBDA a, b : a.isolation_class # b.isolation_class),
           RelationContradictions(s, "Shared", LAMBDA r, f : r.bound >= 2),
           RelationContradictions(s, "Distinct", LAMBDA r, f : f.bound <= r.bound),
           hop_budget_contradictions(s)}
-------------------------------------------------------------------------------
\* The semantic digest, taken to be injective: the content it covers.
constraint_set_digest(set) == <<set.generation, set.constraints, set.ranking>>

Finalized(set, constraints) ==
    LET new == [set EXCEPT !.constraints = constraints]
    IN [new EXCEPT !.digest = constraint_set_digest(new)]

canonicalize_lists(c) ==
    [c EXCEPT !.lists = [l \in DOMAIN @ |-> Increasing(ToSet(@[l]))]]

\* The last constraint kept has the payload of the one before.
collapse(sorted) ==
    Subsequence(sorted, {i \in DOMAIN sorted :
                            i = 1 \/ ~equivalent_payload(sorted[i - 1], sorted[i])})

\* Mutant: duplicates are collapsed in the order they were submitted.
CollapseBeforeSorting(s) == stable_sort(collapse(s), canonical_less)

canonical_constraints(s) == collapse(stable_sort(s, canonical_less))

duplicate_identity(s) ==
    \E i, j \in DOMAIN s : s[i].id = s[j].id /\ Payload(s[i]) # Payload(s[j])

\* canonicalize_constraint_set accepts the set.
canonicalizable(set) ==
    /\ set.generation > 0
    /\ Len(set.constraints) <= max_constraints_per_set
    /\ \A i \in DOMAIN set.constraints : validate_constraint(set.constraints[i])
    /\ ~duplicate_identity([i \in DOMAIN set.constraints |-> canonicalize_lists(set.constraints[i])])

canonicalize_constraint_set(set) ==
    Finalized(set, canonical_constraints(
        [i \in DOMAIN set.constraints |-> canonicalize_lists(set.constraints[i])]))

validate_and_finalize_constraint_set(set) ==
    IF ~canonicalizable(set) THEN [ok |-> FALSE, set |-> set, contradictions |-> {}]
    ELSE LET working == canonicalize_constraint_set(set)
             found == detect_contradictions(working.constraints)
         IN IF found = {} THEN [ok |-> TRUE, set |-> working, contradictions |-> {}]
            ELSE [ok |-> FALSE, set |-> set, contradictions |-> found]

verify_canonical_constraint_set(set) ==
    LET s == set.constraints IN
    /\ set.generation > 0
    /\ Len(s) <= max_constraints_per_set
    /\ \A i \in DOMAIN s : validate_constraint(s[i]) /\ canonicalize_lists(s[i]) = s[i]
    /\ \A i \in 2..Len(s) : canonical_less(s[i - 1], s[i]) /\ s[i - 1].id # s[i].id
    /\ set.digest = constraint_set_digest(set)
    /\ detect_contradictions(s) = {}
===============================================================================

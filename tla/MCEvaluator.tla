------------------------------ MODULE MCEvaluator ------------------------------
(* Instances of Evaluator for TLC. *)
EXTENDS Evaluator

\* Constraints.  C is a constraint without payload; the rest fill one in.
C(id, kind) ==
    [id |-> id, generation |-> 1, kind |-> kind, scope |-> "Mandatory",
     unknown_policy |-> "FailClosed", bound |-> 0, latency_source |-> "Unset", domain_kind |-> 0,
     relation |-> "Unset", locality_domain |-> 0, isolation_class |-> 0,
     lists |-> [l \in ToSet(ListNames) |-> <<>>], preference_rank |-> 0, preference_weight |-> 0]

Bounded(id, kind, bound) == [C(id, kind) EXCEPT !.bound = bound]
Latency(id, source, bound) == [Bounded(id, "MaxLatency", bound) EXCEPT !.latency_source = source]
Listing(id, kind, list) == [C(id, kind) EXCEPT !.lists[ListOf[kind]] = list]
Scope(id, domain) == [C(id, "LocalityScope") EXCEPT !.domain_kind = 3, !.locality_domain = domain]
Isolation(id, class) == [C(id, "IsolationClass") EXCEPT !.isolation_class = class]
Relation(id, kind, relation, bound) ==
    [Bounded(id, kind, bound) EXCEPT !.domain_kind = 2, !.relation = relation]
Lenient(c) == [c EXCEPT !.unknown_policy = "PermitUnknownNegative"]
Preferred(c, id, rank) ==
    [c EXCEPT !.id = id, !.scope = "Preference", !.preference_rank = rank, !.preference_weight = 1]

Raw(constraints) ==
    [generation |-> 1, constraints |-> constraints, state |-> "Declared", digest |-> <<>>,
     ranking |-> [consume_planner_rank |-> FALSE, consume_planner_cost |-> FALSE,
                  prefer_lower_cost |-> TRUE, expected_cost_model |-> "None",
                  tiebreak |-> "PathIdAscending"]]
Submitted(raw) == [raw |-> raw, assigned |-> raw.generation, state |-> "Active"]

Hops == Bounded(1, "MaxHopCount", 1)
Slow == Latency(2, "PlannerCost", 5)
Wide == Bounded(3, "MinBandwidthCapability", 5)
Spread == Relation(4, "RequiredFailureDomainRelation", "Distinct", 2)
NotTier2 == Listing(5, "ForbiddenTier", <<2>>)

OnePerKind ==
    {Hops, Slow, Wide, Spread, NotTier2, Lenient(NotTier2), Latency(6, "ObservedLatency", 5),
     Listing(7, "RequiredNode", <<1, 3>>), Listing(8, "ForbiddenNode", <<2>>),
     Listing(9, "RequiredLink", <<1>>), Listing(10, "ForbiddenLink", <<2>>),
     Listing(11, "RequiredTier", <<1>>), Listing(12, "RequiredSite", <<1>>),
     Listing(13, "ForbiddenSite", <<2>>), Scope(14, 1), Isolation(15, 1),
     Listing(16, "RequiredCapability", <<1>>), Listing(17, "ForbiddenCapability", <<2>>),
     Lenient(Listing(17, "ForbiddenCapability", <<2>>)),
     Relation(18, "ForbiddenFailureDomainRelation", "Shared", 0),
     Lenient(Relation(18, "ForbiddenFailureDomainRelation", "Shared", 0)),
     Relation(19, "ForbiddenFailureDomainRelation", "Distinct", 2),
     Listing(20, "AdministrativePolicy", <<1>>), Listing(21, "RequiredCapability", <<2, 3>>)}

-------------------------------------------------------------------------------
\* Candidates.  Good satisfies every constraint above but the forbidding ones
\* of the failure domains; each other candidate changes one fact of it.
N(n) == [node |-> n, tier |-> 1, site |-> 1, localities |-> {<<3, 1>>}, domains |-> {<<2, n>>},
         capabilities |-> {<<1, 1>>}, isolation |-> {<<1, 1>>}]
L(l, a, b) == [link |-> l, endpoints |-> <<a, b>>,
               bandwidth |-> [model |-> "Declared", bits_per_second |-> 5, generation |-> 1],
               domains |-> {<<2, a>>}, capabilities |-> {<<1, 1>>}, isolation |-> {<<1, 1>>}]

Good ==
    [path |-> 1, authority_generation |-> 1, authority_verdict |-> "Legal",
     nodes |-> <<N(3), N(1)>>, links |-> <<L(1, 3, 1)>>, hop_count |-> 1,
     latency |-> [source |-> "PlannerCost", micros |-> 5, generation |-> 1],
     policies |-> {<<1, 1>>}, evidence |-> [f \in Family |-> 1], captured_tick |-> 1,
     has_planner_rank |-> FALSE, planner_rank |-> 0,
     has_planner_cost |-> FALSE, planner_cost |-> 0, cost_model |-> "None"]

Long == [Good EXCEPT !.nodes = <<N(1), N(2), N(3)>>, !.links = <<L(1, 1, 2), L(2, 2, 3)>>,
                     !.hop_count = 2]
Priced(c, cost) == [c EXCEPT !.has_planner_cost = TRUE, !.planner_cost = cost, !.cost_model = "HopCountUnits"]
At(path, c) == [c EXCEPT !.path = path]

Variants ==
    {Good, Long, Priced(Good, 3),
     [Good EXCEPT !.authority_generation = 2, !.evidence["PathAuthority"] = 2],
     [Good EXCEPT !.authority_verdict = "Rejected"],
     [Good EXCEPT !.authority_verdict = "NotEvaluated"],
     [Good EXCEPT !.evidence["Capability"] = 0], [Good EXCEPT !.evidence["Topology"] = 2],
     [Good EXCEPT !.nodes[2].node = 3], [Good EXCEPT !.links = <<>>], [Good EXCEPT !.hop_count = 2],
     [Good EXCEPT !.latency.generation = 2], [Good EXCEPT !.latency.micros = 6],
     [Good EXCEPT !.latency.source = "ObservedLatency"], [Good EXCEPT !.latency.source = "Unset"],
     [Good EXCEPT !.policies = {}], [Good EXCEPT !.policies = {<<1, 2>>}],
     [Good EXCEPT !.policies = {<<1, 1>>, <<2, 1>>, <<3, 1>>}],
     [Good EXCEPT !.nodes[1].tier = 0, !.nodes[2].tier = 2],
     [Good EXCEPT !.nodes[1].tier = 0], [Good EXCEPT !.nodes[2].site = 2],
     [Good EXCEPT !.nodes[1].site = 0], [Good EXCEPT !.nodes[1].localities = {}],
     [Good EXCEPT !.nodes[1].localities = {<<3, 2>>}],
     [Good EXCEPT !.nodes[1].domains = {<<2, 1>>}, !.links[1].domains = {<<2, 1>>}],
     [Good EXCEPT !.links[1].domains = {}], [Good EXCEPT !.nodes[1].domains = {<<2, 1>>, <<2, 2>>}],
     [Good EXCEPT !.nodes[1].capabilities = {}],
     [Good EXCEPT !.links[1].capabilities = {<<1, 1>>, <<2, 1>>}],
     [Good EXCEPT !.links[1].capabilities = {<<1, 2>>, <<2, 2>>}],
     [Good EXCEPT !.nodes[1].domains = {<<2, 1>>, <<2, 2>>, <<2, 3>>}],
     [Good EXCEPT !.links[1].isolation = {}], [Good EXCEPT !.links[1].isolation = {<<2, 1>>}],
     [Good EXCEPT !.links[1].isolation = {<<1, 2>>}],
     [Good EXCEPT !.links[1].bandwidth.bits_per_second = 4],
     [Good EXCEPT !.links[1].bandwidth.model = "None"],
     [Good EXCEPT !.links[1].bandwidth.generation = 2],
     [Long EXCEPT !.nodes[1].tier = 0, !.nodes[2].tier = 2, !.nodes[3].tier = 2],
     [Good EXCEPT !.latency.source = "ObservedLatency", !.latency.micros = 6],
     [Good EXCEPT !.nodes = <<N(2), N(1)>>, !.links = <<L(2, 2, 1)>>],
     [Long EXCEPT !.links[2].link = 1],
     [Long EXCEPT !.nodes = @ \o <<N(4)>>, !.links = @ \o <<L(3, 3, 4)>>, !.hop_count = 3],
     \* more reasons than an explanation holds, the foremost of them last
     [Long EXCEPT !.nodes = [i \in 1..3 |-> [N(i) EXCEPT !.isolation = {}]],
                  !.links[1].isolation = {}, !.links[2].isolation = {<<2, 1>>}]}
-------------------------------------------------------------------------------
\* The definitions that are evaluated against.
Consuming(raw) ==
    [raw EXCEPT !.ranking.consume_planner_rank = TRUE, !.ranking.consume_planner_cost = TRUE,
                !.ranking.expected_cost_model = "HopCountUnits",
                !.ranking.tiebreak = "NodeSequenceLexicographic"]

Desirable ==
    {Hops, Slow, Wide, Spread, NotTier2, Isolation(15, 1), Listing(20, "AdministrativePolicy", <<1>>)}

EvaluationRaw ==
    {Raw(<<c>>) : c \in OnePerKind} \cup {Raw(<<Preferred(c, 30, 1)>>) : c \in Desirable} \cup
    {Raw(<<>>), Consuming(Raw(<<>>)),
     Raw(<<NotTier2, Hops, Slow, Wide>>),
     Raw(<<Listing(7, "RequiredNode", <<1, 3>>), Isolation(15, 1), Scope(14, 1)>>),
     Raw(<<Hops, Preferred(Slow, 30, 2), Preferred(Wide, 31, 1)>>),
     Consuming(Raw(<<Preferred(Hops, 30, 1), Preferred(Slow, 31, 1)>>)),
     [Consuming(Raw(<<Preferred(Hops, 30, 1)>>)) EXCEPT !.ranking.prefer_lower_cost = FALSE]}

EvaluationSubmission ==
    {Submitted(raw) : raw \in EvaluationRaw}
        \cup {[Submitted(Raw(<<Hops>>)) EXCEPT !.state = s] :
                 s \in {"Declared", "Suspended", "RevalidationRequired", "Revoked",
                        "Superseded", "Retired"}}
        \cup {[Submitted(Raw(<<Hops>>)) EXCEPT !.assigned = 2]}

BaseContext ==
    [current |-> [f \in Family |-> 1], max_age |-> 0, now_tick |-> 3, requested_generation |-> 0,
     authority_verified |-> TRUE, provenance_complete |-> TRUE]

EvaluationContext ==
    {BaseContext,
     [BaseContext EXCEPT !.current["Capability"] = 2],
     [BaseContext EXCEPT !.current["FailureDomain"] = 2],
     [BaseContext EXCEPT !.current["Policy"] = 0, !.current["Planner"] = 0],
     [BaseContext EXCEPT !.current["PathAuthority"] = 0],
     [BaseContext EXCEPT !.max_age = 2, !.requested_generation = 1],
     [BaseContext EXCEPT !.max_age = 1],
     [BaseContext EXCEPT !.requested_generation = 2, !.provenance_complete = FALSE],
     [BaseContext EXCEPT !.authority_verified = FALSE, !.provenance_complete = FALSE]}

Ranked(c, rank) == [c EXCEPT !.has_planner_rank = TRUE, !.planner_rank = rank]

EvaluationPopulation ==
    {<<c>> : c \in Variants} \cup
    {<<>>, <<Good, Good>>, <<Good, Long>>, <<At(2, Good), Good, Good>>,
     <<Long, At(2, Good)>>, <<At(3, Priced(Good, 1)), At(2, Priced(Long, 2)), Ranked(Good, 2)>>,
     <<At(3, Ranked(Long, 1)), At(2, Priced(Good, 4)), Priced(Long, 3)>>,
     <<At(2, Good), Priced(Good, 3), At(3, [Good EXCEPT !.captured_tick = 0])>>,
     <<At(2, [Good EXCEPT !.latency.micros = 6]), [Good EXCEPT !.links[1].bandwidth.model = "None"]>>,
     <<At(4, Good), At(3, Good), At(2, Good), Good>>,
     <<At(5, Good), At(4, Good), At(3, Good), At(2, Good), Good>>}
-------------------------------------------------------------------------------
\* The definitions that are only finalized: every set of up to three
\* constraints of a pool.
Pool ==
    {Hops, Bounded(2, "MaxHopCount", 1), Bounded(3, "MaxHopCount", 2), Preferred(Hops, 4, 0),
     Listing(5, "RequiredNode", <<3, 1, 3>>), Listing(6, "RequiredNode", <<2, 1>>),
     Listing(7, "ForbiddenNode", <<2>>), Listing(5, "RequiredTier", <<2, 1>>),
     Listing(8, "ForbiddenTier", <<2>>), Listing(8, "RequiredCapability", <<1>>),
     Listing(9, "ForbiddenCapability", <<1, 2>>), Scope(10, 1), Scope(11, 2), Isolation(12, 1),
     Spread, Relation(13, "ForbiddenFailureDomainRelation", "Distinct", 2),
     Relation(14, "ForbiddenFailureDomainRelation", "Distinct", 3),
     Relation(15, "ForbiddenFailureDomainRelation", "Shared", 0),
     Lenient(Hops), Bounded(16, "MaxHopCount", 0), Listing(17, "RequiredNode", <<1, 2, 3, 4>>)}

SetsRaw ==
    {Raw(SetToSeq(s)) : s \in kSubset(1, Pool) \cup kSubset(2, Pool) \cup kSubset(3, Pool)}
        \cup {Raw(<<Hops, Hops, Hops>>), Raw(<<Hops, Hops, Hops, Hops, Hops>>),
              [Raw(<<Hops>>) EXCEPT !.generation = 0]}

AnySubmission == EvaluationSubmission \cup {Submitted(raw) : raw \in SetsRaw}
===============================================================================

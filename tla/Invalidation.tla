---------------------------- MODULE Invalidation ----------------------------
(***************************************************************************)
(* Evidence families, invalidation keys, and the dependency keys an        *)
(* evaluation binds in the reverse index (invalidation.cpp,                *)
(* Coordinator::Impl::dependents_of_family).                               *)
(*                                                                         *)
(* An invalidation key is [kind, value]; value 0 is the family-wide key of *)
(* a kind, every other value names one entity.                             *)
(***************************************************************************)
EXTENDS Naturals

Family == {"Topology", "LinkState", "Capability", "FailureDomain",
           "Policy", "Planner", "PathAuthority"}

Key(kind, value) == [kind |-> kind, value |-> value]
KeysOf(kind, values) == {Key(kind, v) : v \in values}

\* Mutant: a capability advance reaches every node and link.
CapabilityReachesEntities(family) ==
    CASE family = "Topology"      -> {"Topology", "Node", "Link", "LocalityDomain"}
      [] family = "FailureDomain" -> {"FailureDomain", "IsolationClass"}
      [] family = "Capability"    -> {"Capability", "Node", "Link"}
      [] OTHER                    -> {family}

\* The kinds whose keys an advance of the family invalidates.
FamilyKinds(family) ==
    CASE family = "Topology"      -> {"Topology", "Node", "Link", "LocalityDomain"}
      [] family = "FailureDomain" -> {"FailureDomain", "IsolationClass"}
      [] OTHER                    -> {family}

\* The facts of a candidate that dependency_keys reads: its nodes and links
\* with the localities, capabilities, domains and isolation classes each of
\* them carries, and its policy attestations.
EntityKeys(candidate) ==
    KeysOf("Node", {n.node : n \in candidate.nodes})
        \cup KeysOf("Link", {l.link : l \in candidate.links})

Attached(candidate, field) ==
    UNION ({n[field] : n \in candidate.nodes} \cup {l[field] : l \in candidate.links})

\* dependency_keys, one family at a time.  Localities are bound for nodes only.
FamilyKeys(family, definition, candidate) ==
    CASE family = "Topology" ->
            {Key("Topology", 0)} \cup EntityKeys(candidate)
                \cup KeysOf("LocalityDomain", UNION {n.localities : n \in candidate.nodes})
      [] family = "Capability" ->
            {Key("Capability", 0)} \cup EntityKeys(candidate)
                \cup KeysOf("Capability", definition.capabilities)
                \cup KeysOf("Capability", Attached(candidate, "capabilities"))
      [] family = "FailureDomain" ->
            {Key("FailureDomain", 0)} \cup EntityKeys(candidate)
                \cup KeysOf("FailureDomain", Attached(candidate, "domains"))
                \cup KeysOf("IsolationClass", Attached(candidate, "isolation"))
      [] family = "Policy" ->
            {Key("Policy", 0)} \cup KeysOf("Policy", candidate.policies)
      [] OTHER -> {Key(family, 0)}

\* dependency_keys of an evaluation of `set` and `candidate` that consulted
\* the given families.
DependencyKeys(consulted, set, definition, candidate) ==
    {Key("ConstraintSet", set), Key("Path", candidate.path)}
        \cup UNION {FamilyKeys(f, definition, candidate) : f \in consulted}
=============================================================================

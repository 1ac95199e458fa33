------------------------- MODULE ConstraintSetProofs -------------------------
(***************************************************************************)
(* Proofs about ConstraintSet, for any definition and any limits: the      *)
(* canonical order is a total order, canonical_constraints depends on the  *)
(* set of constraints only, and what it returns is canonical.              *)
(***************************************************************************)
EXTENDS ConstraintSet, OrderingProofs

(* The canonical order *)

\* The comparison of two sequences of one length decides at the first place that
\* differs and ties if none does.
LEMMA EqualLengthsTie ==
    ASSUME NEW n \in Nat, NEW f
    PROVE  Lexical(f, n, n) = 0 <=> \A i \in 1..n : f[i] = 0
  <1>0. Shorter(n, n) = n /\ Cmp(n, n) = 0
    BY DEF Shorter, Cmp
  <1>1. CASE \A i \in 1..n : f[i] = 0
    BY <1>0, <1>1, LengthsDecide
  <1>2. CASE \E i \in 1..n : f[i] # 0
    <2> DEFINE D == {i \in 1..n : f[i] # 0}
    <2>1. PICK k \in D : \A j \in D : k <= j
      <3>1. D \in SUBSET Nat /\ D # {}
        BY <1>2
      <3> QED
        BY <3>1, Least
    <2>2. k \in 1..n /\ f[k] # 0
      BY <2>1
    <2>3. \A i \in 1..(k - 1) : i \in 1..n /\ ~(k <= i)
      BY <2>2
    <2>4. \A i \in 1..(k - 1) : f[i] = 0
      BY <2>1, <2>3
    <2>5. Lexical(f, n, n) = f[k]
      BY <1>0, <2>2, <2>4, FirstDecides
    <2> QED
      BY <1>2, <2>2, <2>5
  <1> QED
    BY <1>1, <1>2

\* The value of an enumerator determines it.
LEMMA EnumOrderIs ==
    ASSUME NEW values, NEW m \in Nat, DOMAIN values = 1..m, NEW e, e \in ToSet(values)
    PROVE  EnumOrder(e, values) \in Int /\ values[EnumOrder(e, values)] = e
  <1>1. \E i \in DOMAIN values : values[i] = e
    BY DEF ToSet
  <1>2. EnumOrder(e, values) \in DOMAIN values /\ values[EnumOrder(e, values)] = e
    BY <1>1 DEF EnumOrder
  <1> QED
    BY <1>2

\* A constraint of one of the kinds.
Typed(c) == c \in Constraint /\ c.kind \in ToSet(Kinds)

LEMMA EnumsAreTotal ==
    ASSUME NEW c, Typed(c)
    PROVE  /\ EnumOrder(c.kind, Kinds) \in Int /\ Kinds[EnumOrder(c.kind, Kinds)] = c.kind
           /\ LET v == <<"Mandatory", "Preference">>
              IN EnumOrder(c.scope, v) \in Int /\ v[EnumOrder(c.scope, v)] = c.scope
           /\ LET v == <<"Unset", "PlannerCost", "ObservedLatency">>
              IN EnumOrder(c.latency_source, v) \in Int
                 /\ v[EnumOrder(c.latency_source, v)] = c.latency_source
           /\ LET v == <<"Unset", "Distinct", "Shared">>
              IN EnumOrder(c.relation, v) \in Int /\ v[EnumOrder(c.relation, v)] = c.relation
           /\ LET v == <<"FailClosed", "PermitUnknownNegative">>
              IN EnumOrder(c.unknown_policy, v) \in Int
                 /\ v[EnumOrder(c.unknown_policy, v)] = c.unknown_policy
  <1>1. EnumOrder(c.kind, Kinds) \in Int /\ Kinds[EnumOrder(c.kind, Kinds)] = c.kind
    <2>1. DOMAIN Kinds = 1..18
      BY DEF Kinds
    <2> QED
      BY <2>1, EnumOrderIs DEF Typed
  <1>2. LET v == <<"Mandatory", "Preference">>
        IN EnumOrder(c.scope, v) \in Int /\ v[EnumOrder(c.scope, v)] = c.scope
    <2> DEFINE v == <<"Mandatory", "Preference">>
    <2>1. DOMAIN v = 1..2 /\ ToSet(v) = {"Mandatory", "Preference"} /\ 2 \in Nat
      BY DEF ToSet
    <2>2. c.scope \in {"Mandatory", "Preference"}
      BY DEF Typed, Constraint
    <2> HIDE DEF v
    <2>3. EnumOrder(c.scope, v) \in Int /\ v[EnumOrder(c.scope, v)] = c.scope
      BY <2>1, <2>2, EnumOrderIs
    <2> QED
      BY <2>3 DEF v
  <1>3. LET v == <<"Unset", "PlannerCost", "ObservedLatency">>
        IN EnumOrder(c.latency_source, v) \in Int
           /\ v[EnumOrder(c.latency_source, v)] = c.latency_source
    <2> DEFINE v == <<"Unset", "PlannerCost", "ObservedLatency">>
    <2>1. DOMAIN v = 1..3 /\ ToSet(v) = {"Unset", "PlannerCost", "ObservedLatency"} /\ 3 \in Nat
      BY DEF ToSet
    <2>2. c.latency_source \in {"Unset", "PlannerCost", "ObservedLatency"}
      BY DEF Typed, Constraint
    <2> HIDE DEF v
    <2>3. EnumOrder(c.latency_source, v) \in Int /\ v[EnumOrder(c.latency_source, v)] = c.latency_source
      BY <2>1, <2>2, EnumOrderIs
    <2> QED
      BY <2>3 DEF v
  <1>4. LET v == <<"Unset", "Distinct", "Shared">>
        IN EnumOrder(c.relation, v) \in Int /\ v[EnumOrder(c.relation, v)] = c.relation
    <2> DEFINE v == <<"Unset", "Distinct", "Shared">>
    <2>1. DOMAIN v = 1..3 /\ ToSet(v) = {"Unset", "Distinct", "Shared"} /\ 3 \in Nat
      BY DEF ToSet
    <2>2. c.relation \in {"Unset", "Distinct", "Shared"}
      BY DEF Typed, Constraint
    <2> HIDE DEF v
    <2>3. EnumOrder(c.relation, v) \in Int /\ v[EnumOrder(c.relation, v)] = c.relation
      BY <2>1, <2>2, EnumOrderIs
    <2> QED
      BY <2>3 DEF v
  <1>5. LET v == <<"FailClosed", "PermitUnknownNegative">>
        IN EnumOrder(c.unknown_policy, v) \in Int
           /\ v[EnumOrder(c.unknown_policy, v)] = c.unknown_policy
    <2> DEFINE v == <<"FailClosed", "PermitUnknownNegative">>
    <2>1. DOMAIN v = 1..2 /\ ToSet(v) = {"FailClosed", "PermitUnknownNegative"} /\ 2 \in Nat
      BY DEF ToSet
    <2>2. c.unknown_policy \in {"FailClosed", "PermitUnknownNegative"}
      BY DEF Typed, Constraint
    <2> HIDE DEF v
    <2>3. EnumOrder(c.unknown_policy, v) \in Int /\ v[EnumOrder(c.unknown_policy, v)] = c.unknown_policy
      BY <2>1, <2>2, EnumOrderIs
    <2> QED
      BY <2>3 DEF v
  <1> QED
    BY <1>1, <1>2, <1>3, <1>4, <1>5

\* The fields ScalarPayload is about.
ScalarFields ==
    {"kind", "scope", "bound", "latency_source", "domain_kind", "relation", "locality_domain",
     "isolation_class", "unknown_policy", "preference_rank", "preference_weight"}

LEMMA ScalarPayloadIs ==
    ASSUME NEW c, Typed(c)
    PROVE  ScalarPayload(c) \in Seq(Int)
  <1> DEFINE k == EnumOrder(c.kind, Kinds)
             s == EnumOrder(c.scope, <<"Mandatory", "Preference">>)
             l == EnumOrder(c.latency_source, <<"Unset", "PlannerCost", "ObservedLatency">>)
             r == EnumOrder(c.relation, <<"Unset", "Distinct", "Shared">>)
             u == EnumOrder(c.unknown_policy, <<"FailClosed", "PermitUnknownNegative">>)
  <1>1. k \in Int /\ s \in Int /\ l \in Int /\ r \in Int /\ u \in Int
    BY EnumsAreTotal
  <1>2. ScalarPayload(c) = <<k, s, c.bound, l, c.domain_kind, r, c.locality_domain,
                             c.isolation_class, u, c.preference_rank, c.preference_weight>>
    BY DEF ScalarPayload
  <1>3. /\ c.bound \in Int /\ c.domain_kind \in Int /\ c.locality_domain \in Int
        /\ c.isolation_class \in Int /\ c.preference_rank \in Int /\ c.preference_weight \in Int
    BY DEF Typed, Constraint
  <1> HIDE DEF k, s, l, r, u
  <1> QED
    BY <1>1, <1>2, <1>3

LEMMA ScalarPayloadDetermines ==
    ASSUME NEW a, Typed(a), NEW b, Typed(b)
    PROVE  ScalarPayload(a) = ScalarPayload(b) <=> \A f \in ScalarFields : a[f] = b[f]
  <1> DEFINE V1 == <<"Mandatory", "Preference">>
             V2 == <<"Unset", "PlannerCost", "ObservedLatency">>
             V3 == <<"Unset", "Distinct", "Shared">>
             V4 == <<"FailClosed", "PermitUnknownNegative">>
  <1>1. \A c \in {a, b} :
          ScalarPayload(c) = <<EnumOrder(c.kind, Kinds), EnumOrder(c.scope, V1), c.bound,
                               EnumOrder(c.latency_source, V2), c.domain_kind,
                               EnumOrder(c.relation, V3), c.locality_domain, c.isolation_class,
                               EnumOrder(c.unknown_policy, V4), c.preference_rank,
                               c.preference_weight>>
    BY DEF ScalarPayload
  <1>2. \A c \in {a, b} :
          /\ Kinds[EnumOrder(c.kind, Kinds)] = c.kind
          /\ V1[EnumOrder(c.scope, V1)] = c.scope
          /\ V2[EnumOrder(c.latency_source, V2)] = c.latency_source
          /\ V3[EnumOrder(c.relation, V3)] = c.relation
          /\ V4[EnumOrder(c.unknown_policy, V4)] = c.unknown_policy
    BY EnumsAreTotal
  <1>3. (\A f \in ScalarFields : a[f] = b[f]) <=>
          /\ a.kind = b.kind /\ a.scope = b.scope /\ a.bound = b.bound
          /\ a.latency_source = b.latency_source /\ a.domain_kind = b.domain_kind
          /\ a.relation = b.relation /\ a.locality_domain = b.locality_domain
          /\ a.isolation_class = b.isolation_class /\ a.unknown_policy = b.unknown_policy
          /\ a.preference_rank = b.preference_rank /\ a.preference_weight = b.preference_weight
    BY DEF ScalarFields
  <1> HIDE DEF V1, V2, V3, V4
  <1>4. ASSUME \A f \in ScalarFields : a[f] = b[f] PROVE ScalarPayload(a) = ScalarPayload(b)
    BY <1>1, <1>3, <1>4
  <1>5. ASSUME ScalarPayload(a) = ScalarPayload(b) PROVE \A f \in ScalarFields : a[f] = b[f]
    <2>1. /\ EnumOrder(a.kind, Kinds) = EnumOrder(b.kind, Kinds)
          /\ EnumOrder(a.scope, V1) = EnumOrder(b.scope, V1)
          /\ EnumOrder(a.latency_source, V2) = EnumOrder(b.latency_source, V2)
          /\ EnumOrder(a.relation, V3) = EnumOrder(b.relation, V3)
          /\ EnumOrder(a.unknown_policy, V4) = EnumOrder(b.unknown_policy, V4)
          /\ a.bound = b.bound /\ a.domain_kind = b.domain_kind
          /\ a.locality_domain = b.locality_domain /\ a.isolation_class = b.isolation_class
          /\ a.preference_rank = b.preference_rank /\ a.preference_weight = b.preference_weight
      BY <1>1, <1>5
    <2>2. /\ a.kind = b.kind /\ a.scope = b.scope /\ a.latency_source = b.latency_source
          /\ a.relation = b.relation /\ a.unknown_policy = b.unknown_policy
      BY <1>2, <2>1
    <2> QED
      BY <1>3, <2>1, <2>2
  <1> QED
    BY <1>4, <1>5

LEMMA ListPayloadIs ==
    ASSUME NEW c, Typed(c)
    PROVE  /\ DOMAIN ListPayload(c) = 1..6 /\ Len(ListPayload(c)) = 6
           /\ ListPayload(c) \in Seq(Seq(Int))
           /\ \A i \in 1..6 : ListPayload(c)[i] = c.lists[ListNames[i]]
           /\ \A i \in 1..6 : ListPayload(c)[i] \in Seq(Int)
  <1>1. DOMAIN ListNames = 1..6 /\ \A i \in 1..6 : ListNames[i] \in ToSet(ListNames)
    BY DEF ListNames, ToSet
  <1>2. \A l \in ToSet(ListNames) : c.lists[l] \in Seq(Int)
    <2>1. c.lists \in [ToSet(ListNames) -> Seq(Nat)]
      BY DEF Typed, Constraint
    <2>2. Seq(Nat) \subseteq Seq(Int)
      <3> SUFFICES ASSUME NEW q \in Seq(Nat) PROVE q \in Seq(Int)
        OBVIOUS
      <3>1. q \in [1..Len(q) -> Int] /\ Len(q) \in Nat
        BY LenProperties, ElementOfSeq
      <3> QED
        BY <3>1
    <2> QED
      BY <2>1, <2>2
  <1>3. ListPayload(c) = [i \in 1..6 |-> c.lists[ListNames[i]]]
    BY <1>1 DEF ListPayload
  <1>4. \A i \in 1..6 : ListPayload(c)[i] \in Seq(Int)
    BY <1>1, <1>2, <1>3
  <1>5. ListPayload(c) \in [1..6 -> Seq(Int)]
    BY <1>3, <1>4
  <1> QED
    BY <1>3, <1>4, <1>5

\* The comparison of the entity lists of two constraints.
ListComparison(a, b) == Lexicographic(compare_lists, ListPayload(a), ListPayload(b))

ListsCompared(a, b) == [i \in 1..6 |-> compare_lists(ListPayload(a)[i], ListPayload(b)[i])]

LEMMA ListComparisonIs ==
    ASSUME NEW a, Typed(a), NEW b, Typed(b)
    PROVE  ListComparison(a, b) = Lexical(ListsCompared(a, b), 6, 6)
  <1> DEFINE x == ListPayload(a)
             y == ListPayload(b)
             f == ListsCompared(a, b)
             differ == {i \in 1..6 : f[i] # 0}
             first == CHOOSE i \in differ : \A j \in differ : i <= j
             differ0 == {i \in 1..6 : compare_lists(x[i], y[i]) # 0}
             first0 == CHOOSE i \in differ0 : \A j \in differ0 : i <= j
  <1>1. \A i \in 1..6 : f[i] = compare_lists(x[i], y[i])
    BY DEF ListsCompared
  <1>2. differ = differ0
    BY <1>1
  <1>3. Lexical(f, 6, 6) = IF differ = {} THEN Cmp(6, 6) ELSE f[first]
    BY DEF Lexical, Shorter
  <1>4. ListComparison(a, b) = IF differ0 = {} THEN Cmp(6, 6) ELSE compare_lists(x[first0], y[first0])
    <2>1. Len(x) = 6 /\ Len(y) = 6
      BY ListPayloadIs
    <2> HIDE DEF x, y
    <2>2. Lexicographic(compare_lists, x, y)
             = IF differ0 = {} THEN Cmp(6, 6) ELSE compare_lists(x[first0], y[first0])
      BY <2>1 DEF Lexicographic
    <2> QED
      BY <2>2 DEF ListComparison, x, y
  <1>5. differ # {} => first \in 1..6
    <2> SUFFICES ASSUME differ # {} PROVE first \in differ
      OBVIOUS
    <2>1. differ \in SUBSET Nat
      OBVIOUS
    <2>2. \E i \in differ : \A j \in differ : i <= j
      BY <2>1, Least
    <2> HIDE DEF differ
    <2> QED
      BY <2>2
  <1> HIDE DEF differ, differ0, f, x, y
  <1>6. first = first0
    BY <1>2
  <1> HIDE DEF first, first0
  <1>7. differ # {} => f[first] = compare_lists(x[first], y[first])
    BY <1>1, <1>5
  <1>8. Lexical(f, 6, 6) = ListComparison(a, b)
    BY <1>2, <1>3, <1>4, <1>6, <1>7
  <1> QED
    BY <1>8 DEF f

LEMMA ListComparisonOrders ==
    ASSUME NEW a, Typed(a), NEW b, Typed(b), NEW c, Typed(c)
    PROVE  /\ Triple(ListComparison(a, b), ListComparison(b, c), ListComparison(a, c))
           /\ Turned(ListComparison(a, b), ListComparison(b, a))
           /\ ListComparison(a, b) = 0 <=> a.lists = b.lists
  <1> DEFINE f == ListsCompared(a, b)
             g == ListsCompared(b, c)
             h == ListsCompared(a, c)
             r == ListsCompared(b, a)
  <1>0. 6 \in Nat /\ Shorter(6, 6) = 6 /\ Shorter(Shorter(6, 6), 6) = 6
    BY DEF Shorter
  <1>1. \A i \in 1..6 : Triple(f[i], g[i], h[i]) /\ Turned(f[i], r[i])
                        /\ (f[i] = 0 <=> a.lists[ListNames[i]] = b.lists[ListNames[i]])
    <2> SUFFICES ASSUME NEW i \in 1..6
                 PROVE  /\ Triple(f[i], g[i], h[i]) /\ Turned(f[i], r[i])
                        /\ f[i] = 0 <=> a.lists[ListNames[i]] = b.lists[ListNames[i]]
      OBVIOUS
    <2> DEFINE x == ListPayload(a)[i]
               y == ListPayload(b)[i]
               z == ListPayload(c)[i]
    <2>1. x \in Seq(Int) /\ y \in Seq(Int) /\ z \in Seq(Int)
          /\ x = a.lists[ListNames[i]] /\ y = b.lists[ListNames[i]]
      BY ListPayloadIs
    <2>2. /\ f[i] = compare_lists(x, y) /\ g[i] = compare_lists(y, z)
          /\ h[i] = compare_lists(x, z) /\ r[i] = compare_lists(y, x)
      BY DEF ListsCompared
    <2> HIDE DEF x, y, z, f, g, h, r
    <2>3. /\ Triple(compare_lists(x, y), compare_lists(y, z), compare_lists(x, z))
          /\ Turned(compare_lists(x, y), compare_lists(y, x))
      BY <2>1, ListsOrder
    <2>4. compare_lists(x, y) = 0 <=> x = y
      BY <2>1, ListsTie
    <2> QED
      BY <2>1, <2>2, <2>3, <2>4
  <1> HIDE DEF f, g, h, r
  <1>2. \A i \in 1..6 : f[i] \in Sign /\ g[i] \in Sign /\ h[i] \in Sign
    BY <1>1 DEF Triple
  <1>3. Triple(Lexical(f, 6, 6), Lexical(g, 6, 6), Lexical(h, 6, 6))
    BY <1>0, <1>1, <1>2, LexicalOrders
  <1>4. Turned(Lexical(f, 6, 6), Lexical(r, 6, 6))
    BY <1>0, <1>1, LexicalTurns
  <1>5. Lexical(f, 6, 6) = 0 <=> a.lists = b.lists
    <2>1. Lexical(f, 6, 6) = 0 <=> \A i \in 1..6 : f[i] = 0
      BY <1>0, EqualLengthsTie
    <2>2. (\A i \in 1..6 : f[i] = 0) <=> \A i \in 1..6 : a.lists[ListNames[i]] = b.lists[ListNames[i]]
      BY <1>1
    <2>3. \A l \in ToSet(ListNames) : \E i \in 1..6 : l = ListNames[i]
      BY DEF ToSet, ListNames
    <2>4. \A i \in 1..6 : ListNames[i] \in ToSet(ListNames)
      BY DEF ToSet, ListNames
    <2>5. a.lists \in [ToSet(ListNames) -> Seq(Nat)] /\ b.lists \in [ToSet(ListNames) -> Seq(Nat)]
      BY DEF Typed, Constraint
    <2>6. (\A i \in 1..6 : a.lists[ListNames[i]] = b.lists[ListNames[i]]) <=> a.lists = b.lists
      <3> DEFINE x == a.lists  y == b.lists
      <3> HIDE DEF x, y
      <3>1. ASSUME \A i \in 1..6 : x[ListNames[i]] = y[ListNames[i]] PROVE x = y
        <4>1. \A l \in ToSet(ListNames) : x[l] = y[l]
          BY <2>3, <3>1
        <4> QED
          BY <2>5, <4>1 DEF x, y
      <3> QED
        BY <3>1 DEF x, y
    <2> QED
      BY <2>1, <2>2, <2>6
  <1>6. /\ ListComparison(a, b) = Lexical(f, 6, 6) /\ ListComparison(b, c) = Lexical(g, 6, 6)
        /\ ListComparison(a, c) = Lexical(h, 6, 6) /\ ListComparison(b, a) = Lexical(r, 6, 6)
    BY ListComparisonIs DEF f, g, h, r
  <1> QED
    BY <1>3, <1>4, <1>5, <1>6

\* Constraints of one payload differ in identity and generation only.
LEMMA PayloadIs ==
    ASSUME NEW a, Typed(a), NEW b, Typed(b)
    PROVE  /\ Payload(a) = Payload(b) <=>
                 (\A f \in ScalarFields : a[f] = b[f]) /\ a.lists = b.lists
           /\ Payload(a) = Payload(b) /\ a.id = b.id /\ a.generation = b.generation => a = b
  <1> DEFINE F == DOMAIN a
  <1>1. /\ DOMAIN a = ScalarFields \cup {"lists", "id", "generation"}
        /\ DOMAIN b = ScalarFields \cup {"lists", "id", "generation"}
        /\ a = [f \in DOMAIN a |-> a[f]] /\ b = [f \in DOMAIN b |-> b[f]]
    BY DEF Typed, Constraint, ScalarFields
  <1>2. (DOMAIN a) \ {"id", "generation"} = ScalarFields \cup {"lists"}
        /\ (DOMAIN b) \ {"id", "generation"} = ScalarFields \cup {"lists"}
    BY <1>1 DEF ScalarFields
  <1>3. /\ Payload(a) = [f \in ScalarFields \cup {"lists"} |-> a[f]]
        /\ Payload(b) = [f \in ScalarFields \cup {"lists"} |-> b[f]]
    BY <1>2 DEF Payload
  <1>4. Payload(a) = Payload(b) <=> \A f \in ScalarFields \cup {"lists"} : a[f] = b[f]
    BY <1>3
  <1>5. Payload(a) = Payload(b) <=> (\A f \in ScalarFields : a[f] = b[f]) /\ a.lists = b.lists
    BY <1>4
  <1>6. ASSUME Payload(a) = Payload(b), a.id = b.id, a.generation = b.generation PROVE a = b
    <2>1. \A f \in DOMAIN a : a[f] = b[f]
      BY <1>1, <1>4, <1>6
    <2> QED
      BY <1>1, <2>1
  <1> QED
    BY <1>5, <1>6

\* canonical_less before it is reduced to a Boolean.
CanonicalComparison(a, b) ==
    OrElse(compare_payload(a, b), OrElse(Cmp(a.id, b.id), Cmp(a.generation, b.generation)))

LEMMA PayloadsOrder ==
    ASSUME NEW a, Typed(a), NEW b, Typed(b), NEW c, Typed(c)
    PROVE  /\ Triple(compare_payload(a, b), compare_payload(b, c), compare_payload(a, c))
           /\ Turned(compare_payload(a, b), compare_payload(b, a))
           /\ compare_payload(a, b) = 0 <=> Payload(a) = Payload(b)
  <1> DEFINE S(p, q) == compare_lists(ScalarPayload(p), ScalarPayload(q))
  <1>1. \A p, q : compare_payload(p, q) = OrElse(S(p, q), ListComparison(p, q))
    BY DEF compare_payload, ListComparison
  <1>2. Triple(S(a, b), S(b, c), S(a, c)) /\ Turned(S(a, b), S(b, a))
    BY ScalarPayloadIs, ListsOrder
  <1>3. S(a, b) = 0 <=> \A f \in ScalarFields : a[f] = b[f]
    BY ScalarPayloadIs, ScalarPayloadDetermines, ListsTie
  <1> HIDE DEF S
  <1>4. Triple(compare_payload(a, b), compare_payload(b, c), compare_payload(a, c))
    BY <1>1, <1>2, ListComparisonOrders, OrElseKeeps
  <1>5. Turned(compare_payload(a, b), compare_payload(b, a))
    BY <1>1, <1>2, ListComparisonOrders, OrElseTurns
  <1>6. compare_payload(a, b) = 0 <=> S(a, b) = 0 /\ ListComparison(a, b) = 0
    BY <1>1 DEF OrElse
  <1>7. compare_payload(a, b) = 0 <=> Payload(a) = Payload(b)
    BY <1>3, <1>6, ListComparisonOrders, PayloadIs
  <1> QED
    BY <1>4, <1>5, <1>7

\* The canonical order is a total order of the constraints, which groups those of
\* one payload.
LEMMA CanonicalOrders ==
    ASSUME NEW a, Typed(a), NEW b, Typed(b), NEW c, Typed(c)
    PROVE  /\ Triple(CanonicalComparison(a, b), CanonicalComparison(b, c), CanonicalComparison(a, c))
           /\ Turned(CanonicalComparison(a, b), CanonicalComparison(b, a))
           /\ CanonicalComparison(a, b) = 0 <=> a = b
           /\ canonical_less(a, b) <=> CanonicalComparison(a, b) < 0
  <1>0. /\ a.id \in Int /\ b.id \in Int /\ c.id \in Int
        /\ a.generation \in Int /\ b.generation \in Int /\ c.generation \in Int
    BY DEF Typed, Constraint
  <1> DEFINE I(p, q) == Cmp(p.id, q.id)
             G(p, q) == Cmp(p.generation, q.generation)
  <1>1. \A p, q : CanonicalComparison(p, q) = OrElse(compare_payload(p, q), OrElse(I(p, q), G(p, q)))
    BY DEF CanonicalComparison
  <1>2. Triple(I(a, b), I(b, c), I(a, c)) /\ Turned(I(a, b), I(b, a))
    BY <1>0, CmpOrders
  <1>3. Triple(G(a, b), G(b, c), G(a, c)) /\ Turned(G(a, b), G(b, a))
    BY <1>0, CmpOrders
  <1>4. (I(a, b) = 0 <=> a.id = b.id) /\ (G(a, b) = 0 <=> a.generation = b.generation)
    BY <1>0 DEF Cmp
  <1>5. canonical_less(a, b) <=> CanonicalComparison(a, b) < 0
    BY DEF canonical_less, CanonicalComparison
  <1> HIDE DEF I, G
  <1>6. /\ Triple(OrElse(I(a, b), G(a, b)), OrElse(I(b, c), G(b, c)), OrElse(I(a, c), G(a, c)))
        /\ Turned(OrElse(I(a, b), G(a, b)), OrElse(I(b, a), G(b, a)))
    BY <1>2, <1>3, OrElseKeeps, OrElseTurns
  <1>7. Triple(CanonicalComparison(a, b), CanonicalComparison(b, c), CanonicalComparison(a, c))
    BY <1>1, <1>6, PayloadsOrder, OrElseKeeps
  <1>8. Turned(CanonicalComparison(a, b), CanonicalComparison(b, a))
    BY <1>1, <1>6, PayloadsOrder, OrElseTurns
  <1>9. CanonicalComparison(a, b) = 0 <=>
          compare_payload(a, b) = 0 /\ I(a, b) = 0 /\ G(a, b) = 0
    BY <1>1 DEF OrElse
  <1>10. CanonicalComparison(a, b) = 0 <=> a = b
    BY <1>4, <1>9, PayloadsOrder, PayloadIs
  <1> QED
    BY <1>5, <1>7, <1>8, <1>10

(* The first of every run *)

\* The positions where the key changes.
Changes(n, key) == {i \in 1..n : i = 1 \/ key[i - 1] # key[i]}

\* In a sequence that keeps equal keys together, the positions where the key
\* changes have different keys, and every key occurs first at one of them.
LEMMA FirstOfRuns ==
    ASSUME NEW n \in Nat, NEW key,
           \A i, j, k \in 1..n : i < j /\ j < k /\ key[i] = key[k] => key[j] = key[k]
    PROVE  /\ \A i, j \in Changes(n, key) : key[i] = key[j] => i = j
           /\ \A i \in 1..n : \E m \in Changes(n, key) : m <= i /\ key[m] = key[i]
  <1>1. ASSUME NEW i \in Changes(n, key), NEW j \in Changes(n, key), i < j, key[i] = key[j]
        PROVE  FALSE
    <2>1. i \in 1..n /\ j \in 1..n /\ j # 1 /\ j - 1 \in 1..n /\ key[j - 1] # key[j]
      BY <1>1 DEF Changes
    <2>2. i = j - 1 \/ (i < j - 1 /\ j - 1 < j)
      BY <1>1, <2>1
    <2> QED
      BY <1>1, <2>1, <2>2
  <1>2. ASSUME NEW i \in Changes(n, key), NEW j \in Changes(n, key), key[i] = key[j]
        PROVE  i = j
    <2>1. i \in Int /\ j \in Int
      BY DEF Changes
    <2> QED
      BY <1>1, <1>2, <2>1
  <1>3. ASSUME NEW i \in 1..n
        PROVE  \E m \in Changes(n, key) : m <= i /\ key[m] = key[i]
    <2> DEFINE D == {m \in 1..n : m <= i /\ key[m] = key[i]}
    <2>1. D \in SUBSET Nat /\ i \in D
      OBVIOUS
    <2>2. PICK m \in D : \A j \in D : m <= j
      BY <2>1, Least
    <2>3. m \in 1..n /\ m <= i /\ key[m] = key[i]
      BY <2>2
    <2>4. m = 1 \/ key[m - 1] # key[m]
      <3> SUFFICES ASSUME m # 1, key[m - 1] = key[m] PROVE FALSE
        OBVIOUS
      <3>1. m - 1 \in 1..n /\ m - 1 <= i /\ ~(m <= m - 1)
        BY <2>3
      <3> QED
        BY <2>2, <2>3, <3>1
    <2> QED
      BY <2>3, <2>4 DEF Changes
  <1> QED
    BY <1>2, <1>3

\* A subsequence takes the elements at its positions, in their order.
LEMMA SubsequenceIs ==
    ASSUME NEW n \in Nat, NEW q, NEW positions \in SUBSET (1..n)
    PROVE  /\ Cardinality(positions) \in Nat
           /\ Increasing(positions) \in [1..Cardinality(positions) -> positions]
           /\ Subsequence(q, positions) = [k \in 1..Cardinality(positions) |-> q[Increasing(positions)[k]]]
           /\ \A i \in positions : \E k \in 1..Cardinality(positions) : Increasing(positions)[k] = i
           /\ \A j, k \in 1..Cardinality(positions) : j < k => Increasing(positions)[j] < Increasing(positions)[k]
  <1>1. IsFiniteSet(positions) /\ positions \in SUBSET Int
    <2>1. IsFiniteSet(1..n)
      BY FS_Interval
    <2>2. IsFiniteSet(positions)
      BY <2>1, FS_Subset
    <2>3. 1..n \subseteq Int
      OBVIOUS
    <2> QED
      BY <2>2, <2>3
  <1> DEFINE m == Cardinality(positions)
             at == Increasing(positions)
  <1>2. /\ m \in Nat
        /\ at \in [1..m -> positions]
        /\ \A x \in positions : \E k \in 1..m : at[k] = x
        /\ \A j, k \in 1..m : j < k <=> at[j] < at[k]
    BY <1>1, IncreasingSorts
  <1> HIDE DEF m
  <1>3. Subsequence(q, positions) = [k \in 1..m |-> q[at[k]]]
    BY <1>2 DEF Subsequence
  <1> HIDE DEF at
  <1>4. /\ m \in Nat
        /\ at \in [1..m -> positions]
        /\ Subsequence(q, positions) = [k \in 1..m |-> q[at[k]]]
        /\ \A i \in positions : \E k \in 1..m : at[k] = i
        /\ \A j, k \in 1..m : j < k => at[j] < at[k]
    BY <1>2, <1>3
  <1> QED
    BY <1>4 DEF m, at

(* Canonical constraints *)

\* The pairs of constraints in canonical order.
CanonicalPairs(S) == {xy \in S \X S : canonical_less(xy[1], xy[2])}

\* Of every payload the least constraint.
Leaders(S) == {d \in S : \A c \in S : Payload(c) = Payload(d) => ~canonical_less(c, d)}

LEMMA CanonicalPairsOrder ==
    ASSUME NEW S, \A c \in S : Typed(c)
    PROVE  StrictOrder(S, CanonicalPairs(S))
  <1>0. \A x, y \in S : <<x, y>> \in CanonicalPairs(S) <=> CanonicalComparison(x, y) < 0
    BY CanonicalOrders DEF CanonicalPairs
  <1>1. \A x \in S : <<x, x>> \notin CanonicalPairs(S)
    <2> SUFFICES ASSUME NEW x \in S PROVE ~(CanonicalComparison(x, x) < 0)
      BY <1>0
    <2>1. CanonicalComparison(x, x) = 0
      BY CanonicalOrders
    <2> QED
      BY <2>1
  <1>2. ASSUME NEW x \in S, NEW y \in S, NEW z \in S,
               <<x, y>> \in CanonicalPairs(S), <<y, z>> \in CanonicalPairs(S)
        PROVE  <<x, z>> \in CanonicalPairs(S)
    <2>1. CanonicalComparison(x, y) < 0 /\ CanonicalComparison(y, z) < 0
      BY <1>0, <1>2
    <2>2. Triple(CanonicalComparison(x, y), CanonicalComparison(y, z), CanonicalComparison(x, z))
      BY CanonicalOrders
    <2>3. CanonicalComparison(x, z) < 0
      BY <2>1, <2>2 DEF Triple, Sign
    <2> QED
      BY <1>0, <2>3
  <1>3. ASSUME NEW x \in S, NEW y \in S, x # y
        PROVE  <<x, y>> \in CanonicalPairs(S) \/ <<y, x>> \in CanonicalPairs(S)
    <2>1. CanonicalComparison(x, y) # 0 /\ Turned(CanonicalComparison(x, y), CanonicalComparison(y, x))
      BY <1>3, CanonicalOrders
    <2>2. CanonicalComparison(x, y) < 0 \/ CanonicalComparison(y, x) < 0
      BY <2>1 DEF Turned, Sign
    <2> QED
      BY <1>0, <2>2
  <1> QED
    BY <1>1, <1>2, <1>3 DEF StrictOrder

\* Only finitely many elements are in a sequence.
LEMMA ToSetIsFinite ==
    ASSUME NEW n \in Nat, NEW q, DOMAIN q = 1..n
    PROVE  IsFiniteSet(ToSet(q)) /\ ToSet(q) = {q[i] : i \in 1..n}
  <1> DEFINE f == [i \in 1..n |-> q[i]]
  <1>1. ToSet(q) = {q[i] : i \in 1..n}
    BY DEF ToSet
  <1>2. IsFiniteSet(1..n)
    BY FS_Interval
  <1>3. f \in Surjection(1..n, ToSet(q))
    <2>1. f \in [1..n -> ToSet(q)] /\ \A x \in ToSet(q) : \E i \in 1..n : f[i] = x
      BY <1>1
    <2> HIDE DEF f
    <2> QED
      BY <2>1, Fun_IsSurj
  <1> HIDE DEF f
  <1>4. IsFiniteSet(ToSet(q))
    BY <1>2, <1>3, FS_Surjection
  <1> QED
    BY <1>1, <1>4

\* The sort puts the constraints in canonical order, those of one payload together.
LEMMA SortedConstraints ==
    ASSUME NEW n \in Nat, NEW s, DOMAIN s = 1..n, \A i \in 1..n : Typed(s[i])
    PROVE  LET q == stable_sort(s, canonical_less)
           IN /\ DOMAIN q = 1..n
              /\ \A i \in 1..n : Typed(q[i]) /\ \E k \in 1..n : q[i] = s[k]
              /\ \A k \in 1..n : \E i \in 1..n : q[i] = s[k]
              /\ \A i, j \in 1..n : i < j => ~canonical_less(q[j], q[i])
  <1> DEFINE less == {ij \in (1..n) \X (1..n) : canonical_less(s[ij[1]], s[ij[2]])}
             cmp == [ij \in (1..n) \X (1..n) |-> CanonicalComparison(s[ij[1]], s[ij[2]])]
             q == stable_sort(s, canonical_less)
  <1>1. q = Arranged(s, less)
    BY DEF stable_sort
  <1>2. \A i, j \in 1..n : cmp[<<i, j>>] = CanonicalComparison(s[i], s[j])
    OBVIOUS
  <1>3. \A i, j \in 1..n : canonical_less(s[i], s[j]) <=> cmp[<<i, j>>] < 0
    BY <1>2, CanonicalOrders
  <1>4. less = {ij \in (1..n) \X (1..n) : cmp[ij] < 0}
    <2>1. \A ij \in (1..n) \X (1..n) : ij[1] \in 1..n /\ ij[2] \in 1..n /\ ij = <<ij[1], ij[2]>>
      OBVIOUS
    <2> HIDE DEF cmp
    <2> QED
      BY <1>3, <2>1
  <1>5. \A i, j \in 1..n : <<i, j>> \in less <=> canonical_less(s[i], s[j])
    OBVIOUS
  <1> HIDE DEF cmp
  <1>6. /\ \A x, y, z \in 1..n : Triple(cmp[<<x, y>>], cmp[<<y, z>>], cmp[<<x, z>>])
        /\ \A x, y \in 1..n : Turned(cmp[<<x, y>>], cmp[<<y, x>>])
    BY <1>2, CanonicalOrders
  <1>7. WeakOrder(1..n, less)
    BY <1>4, <1>6, ComparisonIsWeakOrder
  <1> DEFINE order == SortOrder(n, less)
  <1> HIDE DEF less, q
  <1>8. /\ order \in [1..n -> 1..n]
        /\ Arranged(s, less) = [k \in 1..n |-> s[order[k]]]
        /\ \A i \in 1..n : \E k \in 1..n : order[k] = i
        /\ \A j, k \in 1..n : j < k =>
              /\ order[j] # order[k]
              /\ <<order[k], order[j]>> \notin less
              /\ \/ <<order[j], order[k]>> \in less
                 \/ order[j] < order[k]
    BY <1>7, ArrangedSorts, Zenon
  <1> HIDE DEF order
  <1>9. DOMAIN q = 1..n /\ \A k \in 1..n : q[k] = s[order[k]] /\ order[k] \in 1..n
    BY <1>1, <1>8
  <1>10. \A i \in 1..n : Typed(q[i]) /\ \E k \in 1..n : q[i] = s[k]
    BY <1>9
  <1>11. \A k \in 1..n : \E i \in 1..n : q[i] = s[k]
    BY <1>8, <1>9
  <1>12. \A i, j \in 1..n : i < j => ~canonical_less(q[j], q[i])
    BY <1>5, <1>8, <1>9
  <1>13. /\ DOMAIN q = 1..n
         /\ \A i \in 1..n : Typed(q[i]) /\ \E k \in 1..n : q[i] = s[k]
         /\ \A k \in 1..n : \E i \in 1..n : q[i] = s[k]
         /\ \A i, j \in 1..n : i < j => ~canonical_less(q[j], q[i])
    BY <1>9, <1>10, <1>11, <1>12
  <1> QED
    BY <1>13 DEF q

LEMMA CanonicalConstraintsAre ==
    ASSUME NEW n \in Nat, NEW s, DOMAIN s = 1..n, \A i \in 1..n : Typed(s[i])
    PROVE  LET L == Leaders(ToSet(s))
           IN /\ canonical_constraints(s) = Ascending(L, CanonicalPairs(L))
              /\ \A c \in ToSet(s) : \E d \in L : Payload(d) = Payload(c)
  <1> DEFINE q == stable_sort(s, canonical_less)
             S == ToSet(s)
             L == Leaders(S)
             key == [i \in 1..n |-> Payload(q[i])]
             keep == Changes(n, key)
  <1>1. /\ DOMAIN q = 1..n
        /\ \A i \in 1..n : Typed(q[i]) /\ \E k \in 1..n : q[i] = s[k]
        /\ \A k \in 1..n : \E i \in 1..n : q[i] = s[k]
        /\ \A i, j \in 1..n : i < j => ~canonical_less(q[j], q[i])
    BY SortedConstraints
  <1>2. canonical_constraints(s) = collapse(q)
    BY DEF canonical_constraints
  <1> HIDE DEF q
  <1>3. S = {s[i] : i \in 1..n} /\ IsFiniteSet(S)
    BY ToSetIsFinite
  <1>4. S = {q[i] : i \in 1..n} /\ \A c \in S : Typed(c)
    <2>1. \A i \in 1..n : s[i] \in {q[k] : k \in 1..n}
      BY <1>1
    <2>2. \A i \in 1..n : q[i] \in {s[k] : k \in 1..n}
      BY <1>1
    <2>3. {s[i] : i \in 1..n} = {q[i] : i \in 1..n}
      BY <2>1, <2>2
    <2> QED
      BY <1>1, <1>3, <2>3
  <1>5. collapse(q) = Subsequence(q, keep)
    <2>1. keep = {i \in DOMAIN q : i = 1 \/ ~equivalent_payload(q[i - 1], q[i])}
      <3>1. \A i \in 1..n : i # 1 => i - 1 \in 1..n
        OBVIOUS
      <3> QED
        BY <1>1, <3>1 DEF Changes, equivalent_payload
    <2> HIDE DEF keep
    <2> QED
      BY <2>1 DEF collapse
  <1>6. \A i, j \in 1..n : i < j =>
           /\ compare_payload(q[i], q[j]) <= 0
           /\ compare_payload(q[i], q[j]) # 0 => canonical_less(q[i], q[j])
    <2> SUFFICES ASSUME NEW i \in 1..n, NEW j \in 1..n, i < j
                 PROVE  /\ compare_payload(q[i], q[j]) <= 0
                        /\ compare_payload(q[i], q[j]) # 0 => canonical_less(q[i], q[j])
      OBVIOUS
    <2>1. ~(CanonicalComparison(q[j], q[i]) < 0)
      BY <1>1, CanonicalOrders
    <2>2. Turned(CanonicalComparison(q[i], q[j]), CanonicalComparison(q[j], q[i]))
          /\ Turned(compare_payload(q[i], q[j]), compare_payload(q[j], q[i]))
      BY <1>1, CanonicalOrders, PayloadsOrder
    <2>3. CanonicalComparison(q[i], q[j]) <= 0
      BY <2>1, <2>2 DEF Turned, Sign
    <2>4. compare_payload(q[i], q[j]) # 0 => CanonicalComparison(q[i], q[j]) = compare_payload(q[i], q[j])
      BY DEF CanonicalComparison, OrElse
    <2>5. compare_payload(q[i], q[j]) # 0 => CanonicalComparison(q[i], q[j]) < 0
      BY <2>2, <2>3, <2>4 DEF Turned, Sign
    <2>6. compare_payload(q[i], q[j]) <= 0
      BY <2>2, <2>3, <2>4 DEF Turned, Sign
    <2>7. CanonicalComparison(q[i], q[j]) < 0 => canonical_less(q[i], q[j])
      BY <1>1, CanonicalOrders
    <2> QED
      BY <2>5, <2>6, <2>7
  <1>7. \A i, j, k \in 1..n : i < j /\ j < k /\ key[i] = key[k] => key[j] = key[k]
    <2> SUFFICES ASSUME NEW i \in 1..n, NEW j \in 1..n, NEW k \in 1..n, i < j, j < k,
                        Payload(q[i]) = Payload(q[k])
                 PROVE  Payload(q[j]) = Payload(q[k])
      OBVIOUS
    <2>1. compare_payload(q[i], q[j]) <= 0 /\ compare_payload(q[j], q[k]) <= 0
      BY <1>6
    <2>2. Triple(compare_payload(q[i], q[j]), compare_payload(q[j], q[k]), compare_payload(q[i], q[k]))
      BY <1>1, PayloadsOrder
    <2>3. compare_payload(q[i], q[k]) = 0
      BY <1>1, PayloadsOrder
    <2>4. compare_payload(q[j], q[k]) = 0
      BY <2>1, <2>2, <2>3 DEF Triple
    <2>5. Typed(q[j]) /\ Typed(q[k])
      BY <1>1
    <2> QED
      BY <2>4, <2>5, PayloadsOrder
  <1>8. /\ \A i, j \in keep : key[i] = key[j] => i = j
        /\ \A i \in 1..n : \E m \in keep : m <= i /\ key[m] = key[i]
    <2> HIDE DEF key
    <2> QED
      BY <1>7, FirstOfRuns
  <1>9. keep \in SUBSET (1..n) /\ \A i \in 1..n : key[i] = Payload(q[i])
    BY DEF Changes
  <1> HIDE DEF keep, key
  <1> DEFINE m == Cardinality(keep)
             at == Increasing(keep)
  <1>10. m \in Nat /\ keep \in SUBSET (1..n)
    BY <1>9, SubsequenceIs
  <1>11. /\ m \in Nat
         /\ at \in [1..m -> keep]
         /\ Subsequence(q, keep) = [k \in 1..m |-> q[at[k]]]
         /\ \A i \in keep : \E k \in 1..m : at[k] = i
         /\ \A j, k \in 1..m : j < k => at[j] < at[k]
    <2>1. at \in [1..m -> keep]
      BY <1>9, SubsequenceIs
    <2>2. Subsequence(q, keep) = [k \in 1..m |-> q[at[k]]]
      <3>1. Subsequence(q, keep) = [k \in DOMAIN at |-> q[at[k]]]
        BY DEF Subsequence
      <3>2. DOMAIN at = 1..m
        BY <2>1
      <3> HIDE DEF at, m
      <3> QED
        BY <3>1, <3>2
    <2>3. \A i \in keep : \E k \in 1..m : at[k] = i
      BY <1>9, SubsequenceIs
    <2>4. \A j, k \in 1..m : j < k => at[j] < at[k]
      BY <1>9, SubsequenceIs
    <2> QED
      BY <1>10, <2>1, <2>2, <2>3, <2>4
  <1> HIDE DEF m, at
  <1> DEFINE f == [k \in 1..m |-> q[at[k]]]
  <1>12. \A k \in 1..m : at[k] \in keep /\ at[k] \in 1..n /\ f[k] = q[at[k]]
    BY <1>9, <1>11
  <1>13. \A i \in keep : q[i] \in L
    <2> SUFFICES ASSUME NEW i \in keep, NEW c \in S, Payload(c) = Payload(q[i])
                 PROVE  q[i] \in S /\ ~canonical_less(c, q[i])
      BY <1>4, <1>9 DEF Leaders
    <2>1. PICK j \in 1..n : c = q[j]
      BY <1>4
    <2>2. i \in 1..n
      BY <1>9
    <2>3. PICK k \in keep : k <= j /\ key[k] = key[j]
      BY <1>8
    <2>4. k = i
      BY <1>8, <1>9, <2>1, <2>2, <2>3
    <2>5. i < j \/ i = j
      BY <2>2, <2>3, <2>4
    <2>6. CASE i < j
      BY <1>1, <1>4, <2>1, <2>2, <2>6
    <2>7. CASE i = j
      <3>1. ~(CanonicalComparison(c, c) < 0)
        <4>1. CanonicalComparison(c, c) = 0
          BY <1>4, CanonicalOrders
        <4> QED
          BY <4>1
      <3> QED
        BY <1>4, <2>1, <2>2, <2>7, <3>1, CanonicalOrders
    <2> QED
      BY <2>5, <2>6, <2>7
  <1>14. \A d \in L : \E i \in keep : q[i] = d
    <2> SUFFICES ASSUME NEW d \in L PROVE \E i \in keep : q[i] = d
      OBVIOUS
    <2>1. d \in S /\ \A c \in S : Payload(c) = Payload(d) => ~canonical_less(c, d)
      BY DEF Leaders
    <2>2. PICK j \in 1..n : d = q[j]
      BY <1>4, <2>1
    <2>3. PICK i \in keep : i <= j /\ key[i] = key[j]
      BY <1>8
    <2>4. i \in 1..n /\ q[i] \in S /\ Payload(q[i]) = Payload(d)
      BY <1>4, <1>9, <2>2, <2>3
    <2>5. ~canonical_less(q[i], d)
      BY <2>1, <2>4
    <2>6. i = j \/ i < j
      BY <2>3, <2>4
    <2>7. ~canonical_less(d, q[i])
      <3>1. CASE i < j
        BY <1>1, <2>2, <2>4, <3>1
      <3>2. CASE i = j
        BY <2>2, <2>5, <3>2
      <3> QED
        BY <2>6, <3>1, <3>2
    <2>8. ~(CanonicalComparison(q[i], d) < 0) /\ ~(CanonicalComparison(d, q[i]) < 0)
      BY <1>4, <2>1, <2>4, <2>5, <2>7, CanonicalOrders
    <2>9. CanonicalComparison(q[i], d) = 0
      <3>1. Turned(CanonicalComparison(q[i], d), CanonicalComparison(d, q[i]))
        BY <1>4, <2>1, <2>4, CanonicalOrders
      <3> QED
        BY <2>8, <3>1 DEF Turned, Sign
    <2>10. q[i] = d
      BY <1>4, <2>1, <2>4, <2>9, CanonicalOrders
    <2> QED
      BY <2>10
  <1>15. IsFiniteSet(L) /\ StrictOrder(L, CanonicalPairs(L))
    <2>1. L \in SUBSET S
      BY DEF Leaders
    <2> HIDE DEF L, S
    <2>2. \A c \in L : Typed(c)
      BY <1>4, <2>1
    <2> QED
      BY <1>3, <2>1, <2>2, FS_Subset, CanonicalPairsOrder
  <1>16. f \in [1..m -> L]
    BY <1>12, <1>13
  <1>17. \A x \in L : \E k \in 1..m : f[k] = x
    BY <1>11, <1>12, <1>14
  <1>18. \A j, k \in 1..m : j < k => <<f[j], f[k]>> \in CanonicalPairs(L)
    <2> SUFFICES ASSUME NEW j \in 1..m, NEW k \in 1..m, j < k
                 PROVE  <<f[j], f[k]>> \in CanonicalPairs(L)
      OBVIOUS
    <2>1. at[j] \in keep /\ at[k] \in keep /\ at[j] < at[k] /\ at[j] \in 1..n /\ at[k] \in 1..n
      BY <1>11, <1>12
    <2>2. at[j] # at[k]
      BY <2>1
    <2>3. Payload(q[at[j]]) # Payload(q[at[k]])
      BY <1>8, <1>9, <2>1, <2>2
    <2>4. compare_payload(q[at[j]], q[at[k]]) # 0
      BY <1>1, <2>1, <2>3, PayloadsOrder
    <2>5. canonical_less(q[at[j]], q[at[k]])
      BY <1>6, <2>1, <2>4
    <2> HIDE DEF f
    <2> QED
      BY <1>12, <1>16, <2>5 DEF CanonicalPairs
  <1> HIDE DEF f, L
  <1>19. f = Ascending(L, CanonicalPairs(L))
    BY <1>10, <1>15, <1>16, <1>17, <1>18, AscendingIsUnique
  <1>20. canonical_constraints(s) = Ascending(L, CanonicalPairs(L))
    BY <1>2, <1>5, <1>11, <1>19 DEF f
  <1>21. \A c \in S : \E d \in L : Payload(d) = Payload(c)
    <2> SUFFICES ASSUME NEW c \in S PROVE \E d \in L : Payload(d) = Payload(c)
      OBVIOUS
    <2>1. PICK j \in 1..n : c = q[j]
      BY <1>4
    <2>2. PICK i \in keep : key[i] = key[j]
      BY <1>8
    <2>3. q[i] \in L /\ Payload(q[i]) = Payload(c)
      BY <1>9, <1>13, <2>1, <2>2
    <2> QED
      BY <2>3
  <1> QED
    BY <1>20, <1>21 DEF L

-----------------------------------------------------------------------------
(* Entity lists *)

\* The same constraint with the same entities, listed as lists has them.
Relisted(c, d) ==
    /\ c \in Constraint /\ d \in Constraint
    /\ d = [c EXCEPT !.lists = d.lists]
    /\ \A l \in ToSet(ListNames) : ToSet(d.lists[l]) = ToSet(c.lists[l])
                                   /\ Len(d.lists[l]) <= Len(c.lists[l])

\* A sorted list has the entities it was made from, no more than were listed.
LEMMA SortedList ==
    ASSUME NEW s \in Seq(Nat)
    PROVE  /\ Increasing(ToSet(s)) \in Seq(Nat)
           /\ ToSet(Increasing(ToSet(s))) = ToSet(s)
           /\ Len(Increasing(ToSet(s))) \in Nat /\ Len(s) \in Nat
           /\ Len(Increasing(ToSet(s))) <= Len(s)
  <1> DEFINE S == ToSet(s)
             m == Cardinality(S)
             at == Increasing(S)
             n == Len(s)
  <1>1. n \in Nat /\ DOMAIN s = 1..n /\ s \in [1..n -> Nat]
    OBVIOUS
  <1>2. IsFiniteSet(S) /\ S = {s[i] : i \in 1..n}
    BY <1>1, ToSetIsFinite
  <1>3. S \in SUBSET Int /\ S \in SUBSET Nat
    BY <1>1, <1>2
  <1>4. m <= n
    <2>1. s \in Surjection(1..n, S)
      BY <1>1, <1>2, Fun_IsSurj
    <2>2. IsFiniteSet(1..n) /\ Cardinality(1..n) = IF 1 > n THEN 0 ELSE n - 1 + 1
      BY <1>1, FS_Interval
    <2>3. Cardinality(1..n) = n
      BY <1>1, <2>2
    <2> HIDE DEF S, n
    <2>4. Cardinality(S) <= Cardinality(1..n)
      BY <2>1, <2>2, FS_Surjection
    <2> QED
      BY <2>3, <2>4
  <1> HIDE DEF S, n
  <1>5. /\ m \in Nat
        /\ at \in [1..m -> S]
        /\ \A x \in S : \E k \in 1..m : at[k] = x
    BY <1>2, <1>3, IncreasingSorts
  <1> HIDE DEF m, at
  <1>6. at \in Seq(Nat) /\ Len(at) = m /\ DOMAIN at = 1..m
    <2>1. at \in [1..m -> Nat]
      BY <1>3, <1>5
    <2> QED
      BY <1>5, <2>1
  <1>7. ToSet(at) = S
    <2>1. ToSet(at) = {at[i] : i \in 1..m}
      BY <1>6 DEF ToSet
    <2> QED
      BY <1>5, <2>1
  <1>8. at \in Seq(Nat) /\ ToSet(at) = S /\ Len(at) \in Nat /\ n \in Nat /\ Len(at) <= n
    BY <1>1, <1>4, <1>5, <1>6, <1>7
  <1> QED
    BY <1>8 DEF at, S, n

\* Canonical lists are a relisting, and the same for every relisting.
LEMMA CanonicalLists ==
    ASSUME NEW c \in Constraint
    PROVE  /\ Relisted(c, canonicalize_lists(c))
           /\ canonicalize_lists(c).lists = [l \in ToSet(ListNames) |-> Increasing(ToSet(c.lists[l]))]
  <1> DEFINE lists == [l \in ToSet(ListNames) |-> Increasing(ToSet(c.lists[l]))]
             d == canonicalize_lists(c)
  <1>1. c.lists \in [ToSet(ListNames) -> Seq(Nat)] /\ DOMAIN c.lists = ToSet(ListNames)
    BY DEF Constraint
  <1>2. \A l \in ToSet(ListNames) : c.lists[l] \in Seq(Nat)
    BY <1>1
  <1>3. d = [c EXCEPT !.lists = lists]
    BY <1>1 DEF canonicalize_lists
  <1>4. \A l \in ToSet(ListNames) :
           /\ lists[l] \in Seq(Nat)
           /\ ToSet(lists[l]) = ToSet(c.lists[l])
           /\ Len(lists[l]) <= Len(c.lists[l])
    BY <1>2, SortedList
  <1>5. lists \in [ToSet(ListNames) -> Seq(Nat)]
    BY <1>4
  <1> HIDE DEF lists, d
  <1>6. d \in Constraint /\ d.lists = lists
    BY <1>3, <1>5 DEF Constraint
  <1>7. Relisted(c, d)
    BY <1>3, <1>4, <1>6 DEF Relisted
  <1>8. Relisted(c, d) /\ d.lists = lists
    BY <1>6, <1>7
  <1> QED
    BY <1>8 DEF d, lists

LEMMA RelistingsAgree ==
    ASSUME NEW c, NEW d, Relisted(c, d)
    PROVE  canonicalize_lists(d) = canonicalize_lists(c)
  <1>1. /\ c \in Constraint /\ d \in Constraint /\ d = [c EXCEPT !.lists = d.lists]
        /\ \A l \in ToSet(ListNames) : ToSet(d.lists[l]) = ToSet(c.lists[l])
    BY DEF Relisted
  <1>2. /\ canonicalize_lists(c).lists = [l \in ToSet(ListNames) |-> Increasing(ToSet(c.lists[l]))]
        /\ canonicalize_lists(d).lists = [l \in ToSet(ListNames) |-> Increasing(ToSet(d.lists[l]))]
    BY <1>1, CanonicalLists
  <1>3. canonicalize_lists(c).lists = canonicalize_lists(d).lists
    BY <1>1, <1>2
  <1> DEFINE cc == canonicalize_lists(c)
             dd == canonicalize_lists(d)
  <1>4. /\ cc \in Constraint /\ cc = [c EXCEPT !.lists = cc.lists]
        /\ dd \in Constraint /\ dd = [d EXCEPT !.lists = dd.lists]
    BY <1>1, CanonicalLists DEF Relisted
  <1> HIDE DEF cc, dd
  <1>5. \A x, y : [[c EXCEPT !.lists = x] EXCEPT !.lists = y] = [c EXCEPT !.lists = y]
    BY <1>1 DEF Constraint
  <1>6. cc.lists = dd.lists
    BY <1>3 DEF cc, dd
  <1>7. dd = [c EXCEPT !.lists = dd.lists]
    BY <1>1, <1>4, <1>5
  <1>8. cc = dd
    BY <1>4, <1>6, <1>7
  <1> QED
    BY <1>8 DEF cc, dd

\* A valid constraint stays valid when its lists are canonical.
LEMMA RelistedIsValid ==
    ASSUME NEW c, NEW d, Relisted(c, d), validate_constraint(c)
    PROVE  validate_constraint(d)
  <1>1. /\ c \in Constraint /\ d \in Constraint /\ d = [c EXCEPT !.lists = d.lists]
        /\ \A l \in ToSet(ListNames) : ToSet(d.lists[l]) = ToSet(c.lists[l])
                                       /\ Len(d.lists[l]) <= Len(c.lists[l])
    BY DEF Relisted
  <1>2. \A l \in ToSet(ListNames) : c.lists[l] \in Seq(Nat) /\ d.lists[l] \in Seq(Nat)
    BY <1>1 DEF Constraint
  <1>3. \A l \in ToSet(ListNames) : Len(d.lists[l]) \in Nat /\ Len(c.lists[l]) \in Nat
    BY <1>2
  <1>4. ASSUME NEW s \in Seq(Nat) PROVE s = <<>> <=> ToSet(s) = {}
    <2>1. Len(s) \in Nat /\ DOMAIN s = 1..Len(s)
      OBVIOUS
    <2>2. ToSet(s) = {s[i] : i \in 1..Len(s)}
      BY <2>1 DEF ToSet
    <2>3. CASE Len(s) = 0
      BY <2>2, <2>3
    <2>4. CASE Len(s) # 0
      <3>1. 1 \in 1..Len(s)
        BY <2>1, <2>4
      <3>2. s[1] \in ToSet(s)
        BY <2>2, <3>1
      <3>3. s # <<>>
        BY <2>4
      <3> QED
        BY <3>2, <3>3
    <2> QED
      BY <2>3, <2>4
  <1>5. \A l \in ToSet(ListNames) : (d.lists[l] = <<>>) <=> (c.lists[l] = <<>>)
    BY <1>1, <1>2, <1>4
  <1>6. /\ d.id = c.id /\ d.generation = c.generation /\ d.kind = c.kind /\ d.scope = c.scope
        /\ d.unknown_policy = c.unknown_policy /\ d.bound = c.bound
        /\ d.latency_source = c.latency_source /\ d.domain_kind = c.domain_kind
        /\ d.relation = c.relation /\ d.locality_domain = c.locality_domain
        /\ d.isolation_class = c.isolation_class /\ d.preference_rank = c.preference_rank
        /\ d.preference_weight = c.preference_weight
    BY <1>1 DEF Constraint
  <1>7. any_entity_list(d) <=> any_entity_list(c)
    BY <1>5 DEF any_entity_list
  <1>8. valid_payload(d) <=> valid_payload(c)
    <2>0. c.bound \in Int /\ kMaxFixedPointBound \in Nat
      BY <1>1, LimitsAssumption DEF Constraint
    <2>1. CASE c.kind = "MaxLatency"
      BY <1>6, <1>7, <2>0, <2>1 DEF valid_payload
    <2>8. CASE c.kind = "MinBandwidthCapability"
      BY <1>6, <1>7, <2>0, <2>8 DEF valid_payload
    <2>2. CASE c.kind = "MaxHopCount"
      BY <1>6, <1>7, <2>0, <2>2 DEF valid_payload
    <2>3. CASE c.kind = "LocalityScope"
      BY <1>6, <1>7, <2>3 DEF valid_payload
    <2>4. CASE c.kind = "IsolationClass"
      BY <1>6, <1>7, <2>4 DEF valid_payload
    <2>5. CASE c.kind = "RequiredFailureDomainRelation"
      BY <1>6, <1>7, <2>5 DEF valid_payload
    <2>6. CASE c.kind = "ForbiddenFailureDomainRelation"
      BY <1>6, <1>7, <2>6 DEF valid_payload
    <2>7. CASE c.kind \notin {"MaxLatency", "MinBandwidthCapability", "MaxHopCount", "LocalityScope",
                              "IsolationClass", "RequiredFailureDomainRelation",
                              "ForbiddenFailureDomainRelation"}
      <3> DEFINE Listed(x) == \A l \in ToSet(ListNames) : (x.lists[l] # <<>>) <=> (l = ListOf[x.kind])
      <3>1. Listed(d) <=> Listed(c)
        BY <1>5, <1>6
      <3>2. valid_payload(c) <=> Listed(c)
        BY <2>7 DEF valid_payload
      <3>3. valid_payload(d) <=> Listed(d)
        BY <1>6, <2>7 DEF valid_payload
      <3> HIDE DEF Listed
      <3> QED
        BY <3>1, <3>2, <3>3
    <2> QED
      BY <2>1, <2>2, <2>3, <2>4, <2>5, <2>6, <2>7, <2>8
  <1>9. \A l \in ToSet(ListNames) : /\ Len(d.lists[l]) <= max_entity_refs_per_constraint
                                    /\ 0 \notin ToSet(d.lists[l])
    <2>1. \A l \in ToSet(ListNames) : /\ Len(c.lists[l]) <= max_entity_refs_per_constraint
                                      /\ 0 \notin ToSet(c.lists[l])
      BY DEF validate_constraint
    <2>2. max_entity_refs_per_constraint \in Nat
      BY LimitsAssumption
    <2> QED
      BY <1>1, <1>3, <2>1, <2>2
  <1> QED
    BY <1>6, <1>8, <1>9 DEF validate_constraint

-----------------------------------------------------------------------------
(* The canonical form *)

\* Of one payload there is one least constraint.
LEMMA LeadersAreDistinct ==
    ASSUME NEW S, \A c \in S : Typed(c)
    PROVE  /\ Leaders(S) \subseteq S
           /\ \A d, e \in Leaders(S) : Payload(d) = Payload(e) => d = e
           /\ Leaders(Leaders(S)) = Leaders(S)
  <1>1. Leaders(S) \subseteq S
    BY DEF Leaders
  <1>2. Leaders(Leaders(S)) = Leaders(S)
    BY <1>1 DEF Leaders
  <1>3. ASSUME NEW d \in Leaders(S), NEW e \in Leaders(S), Payload(d) = Payload(e)
        PROVE  d = e
    <2>1. ~canonical_less(d, e) /\ ~canonical_less(e, d)
      BY <1>1, <1>3 DEF Leaders
    <2>2. Typed(d) /\ Typed(e)
      BY <1>1
    <2>3. ~(CanonicalComparison(d, e) < 0) /\ ~(CanonicalComparison(e, d) < 0)
      BY <2>1, <2>2, CanonicalOrders
    <2>4. Turned(CanonicalComparison(d, e), CanonicalComparison(e, d))
      BY <2>2, CanonicalOrders
    <2>5. CanonicalComparison(d, e) = 0
      BY <2>3, <2>4 DEF Turned, Sign
    <2> QED
      BY <2>2, <2>5, CanonicalOrders
  <1> QED
    BY <1>1, <1>2, <1>3

\* The canonical constraints are those of each payload with the least identity,
\* in canonical order, whatever order they came in.
LEMMA CanonicalSequence ==
    ASSUME NEW n \in Nat, NEW s, DOMAIN s = 1..n, \A i \in 1..n : Typed(s[i])
    PROVE  LET q == canonical_constraints(s)
               m == Cardinality(Leaders(ToSet(s)))
           IN /\ m \in Nat /\ m <= n /\ DOMAIN q = 1..m /\ q \in [1..m -> ToSet(s)]
              /\ \A i \in 1..m : \E k \in 1..n : q[i] = s[k]
              /\ \A k \in 1..n : \E i \in 1..m : Payload(q[i]) = Payload(s[k])
              /\ \A i, j \in 1..m : i < j => canonical_less(q[i], q[j])
              /\ \A i, j \in 1..m : i # j => Payload(q[i]) # Payload(q[j])
              /\ canonical_constraints(q) = q
  <1> DEFINE q == canonical_constraints(s)
             S == ToSet(s)
             L == Leaders(S)
             m == Cardinality(L)
             R == CanonicalPairs(L)
  <1>1. S = {s[i] : i \in 1..n} /\ IsFiniteSet(S)
    BY ToSetIsFinite
  <1>2. \A c \in S : Typed(c)
    BY <1>1
  <1>3. q = Ascending(L, R) /\ \A c \in S : \E d \in L : Payload(d) = Payload(c)
    BY CanonicalConstraintsAre
  <1>4. Cardinality(S) \in Nat /\ Cardinality(S) <= n
    <2> DEFINE f == [i \in 1..n |-> s[i]]
    <2>1. f \in Surjection(1..n, S)
      <3>1. f \in [1..n -> S] /\ \A x \in S : \E i \in 1..n : f[i] = x
        BY <1>1
      <3> HIDE DEF f, S
      <3> QED
        BY <3>1, Fun_IsSurj
    <2>2. IsFiniteSet(1..n) /\ Cardinality(1..n) = IF 1 > n THEN 0 ELSE n - 1 + 1
      BY FS_Interval
    <2>3. Cardinality(1..n) = n
      BY <2>2
    <2> HIDE DEF S, f
    <2>4. Cardinality(S) <= Cardinality(1..n)
      BY <2>1, <2>2, FS_Surjection
    <2> QED
      BY <1>1, <2>3, <2>4, FS_CardinalityType
  <1> HIDE DEF S, q
  <1>5. /\ L \subseteq S
        /\ \A d, e \in L : Payload(d) = Payload(e) => d = e
        /\ Leaders(L) = L
    BY <1>2, LeadersAreDistinct
  <1> HIDE DEF L
  <1>6. /\ IsFiniteSet(L) /\ m \in Nat /\ m <= n
    <2>1. IsFiniteSet(L) /\ Cardinality(L) <= Cardinality(S)
      BY <1>1, <1>5, FS_Subset
    <2>2. Cardinality(L) \in Nat
      BY <2>1, FS_CardinalityType
    <2> QED
      BY <1>4, <2>1, <2>2
  <1>7. \A c \in L : Typed(c)
    BY <1>2, <1>5
  <1>8. StrictOrder(L, R)
    BY <1>7, CanonicalPairsOrder
  <1>9. \A x, y \in L : <<x, y>> \in R <=> canonical_less(x, y)
    BY DEF CanonicalPairs
  <1> HIDE DEF R
  <1>10. /\ q \in [1..m -> L]
         /\ \A x \in L : \E k \in 1..m : q[k] = x
         /\ \A j, k \in 1..m : j < k <=> <<q[j], q[k]>> \in R
    BY <1>3, <1>6, <1>8, AscendingSorts
  <1> HIDE DEF m
  <1>11. \A i \in 1..m : \E k \in 1..n : q[i] = s[k]
    BY <1>1, <1>5, <1>10
  <1>12. \A k \in 1..n : \E i \in 1..m : Payload(q[i]) = Payload(s[k])
    BY <1>1, <1>3, <1>10
  <1>13. \A i, j \in 1..m : i < j => canonical_less(q[i], q[j])
    BY <1>9, <1>10
  <1>14. \A i, j \in 1..m : i # j => Payload(q[i]) # Payload(q[j])
    <2> SUFFICES ASSUME NEW i \in 1..m, NEW j \in 1..m, i # j, Payload(q[i]) = Payload(q[j])
                 PROVE  FALSE
      OBVIOUS
    <2>1. q[i] = q[j] /\ q[i] \in L
      BY <1>5, <1>10
    <2>2. i < j \/ j < i
      BY <1>6
    <2>3. <<q[i], q[i]>> \in R
      BY <1>10, <2>1, <2>2
    <2> QED
      BY <1>8, <2>1, <2>3 DEF StrictOrder
  <1>15. DOMAIN q = 1..m
    BY <1>10
  <1>16. canonical_constraints(q) = q
    <2>1. ToSet(q) = L
      <3>1. ToSet(q) = {q[i] : i \in 1..m}
        BY <1>6, <1>15, ToSetIsFinite
      <3> QED
        BY <1>10, <3>1
    <2>2. \A i \in 1..m : Typed(q[i])
      BY <1>7, <1>10
    <2>3. canonical_constraints(q) = Ascending(Leaders(ToSet(q)), CanonicalPairs(Leaders(ToSet(q))))
      BY <1>6, <1>15, <2>2, CanonicalConstraintsAre
    <2>4. Leaders(ToSet(q)) = L
      BY <1>5, <2>1
    <2> QED
      BY <1>3, <2>3, <2>4 DEF R
  <1>17. q \in [1..m -> S]
    BY <1>5, <1>10
  <1>18. /\ m \in Nat /\ m <= n /\ DOMAIN q = 1..m /\ q \in [1..m -> S]
         /\ \A i \in 1..m : \E k \in 1..n : q[i] = s[k]
         /\ \A k \in 1..n : \E i \in 1..m : Payload(q[i]) = Payload(s[k])
         /\ \A i, j \in 1..m : i < j => canonical_less(q[i], q[j])
         /\ \A i, j \in 1..m : i # j => Payload(q[i]) # Payload(q[j])
         /\ canonical_constraints(q) = q
    BY <1>6, <1>11, <1>12, <1>13, <1>14, <1>15, <1>16, <1>17
  <1> QED
    BY <1>18 DEF q, m, L, S

\* The submitted constraints with their lists canonical, as they are sorted.
Listed(s) == [i \in DOMAIN s |-> canonicalize_lists(s[i])]

\* What the constraints of an accepted definition have to do with the submitted
\* ones.
LEMMA CanonicalForm ==
    ASSUME NEW raw \in Undigested, canonicalizable(raw)
    PROVE  LET s == raw.constraints
               q == canonical_constraints(Listed(s))
           IN /\ q \in Seq(Constraint) /\ Len(q) <= max_constraints_per_set
              /\ \A i \in 1..Len(q) : /\ validate_constraint(q[i]) /\ canonicalize_lists(q[i]) = q[i]
                                      /\ \E k \in 1..Len(s) : q[i] = canonicalize_lists(s[k])
              /\ \A i, j \in 1..Len(q) : i < j => canonical_less(q[i], q[j])
              /\ \A i, j \in 1..Len(q) : i # j => Payload(q[i]) # Payload(q[j]) /\ q[i].id # q[j].id
              /\ {Payload(q[i]) : i \in DOMAIN q} = {Payload(canonicalize_lists(s[i])) : i \in DOMAIN s}
              /\ Listed(q) = q /\ canonical_constraints(q) = q
              /\ ~duplicate_identity(Listed(q))
  <1> DEFINE s == raw.constraints
             n == Len(s)
             t == Listed(s)
             q == canonical_constraints(t)
             m == Cardinality(Leaders(ToSet(t)))
  <1>1. s \in Seq(Constraint) /\ n \in Nat /\ DOMAIN s = 1..n /\ \A i \in 1..n : s[i] \in Constraint
    BY DEF Undigested
  <1>2. /\ n <= max_constraints_per_set
        /\ \A i \in 1..n : validate_constraint(s[i])
        /\ ~duplicate_identity(t)
    BY <1>1 DEF canonicalizable, Listed
  <1>3. DOMAIN t = 1..n /\ \A i \in 1..n : t[i] = canonicalize_lists(s[i])
    BY <1>1 DEF Listed
  <1> HIDE DEF s, n, t, q, m
  <1>4. ASSUME NEW i \in 1..n
        PROVE  t[i] \in Constraint /\ validate_constraint(t[i]) /\ canonicalize_lists(t[i]) = t[i] /\ Typed(t[i])
    <2>1. Relisted(s[i], t[i])
      BY <1>1, <1>3, CanonicalLists
    <2>2. t[i] \in Constraint
      BY <2>1 DEF Relisted
    <2>3. validate_constraint(t[i])
      BY <1>2, <2>1, RelistedIsValid
    <2>4. canonicalize_lists(t[i]) = t[i]
      BY <1>3, <2>1, RelistingsAgree
    <2>5. Typed(t[i])
      BY <2>2, <2>3 DEF Typed, validate_constraint
    <2> QED
      BY <2>2, <2>3, <2>4, <2>5
  <1>5. /\ m \in Nat /\ m <= n /\ DOMAIN q = 1..m /\ q \in [1..m -> ToSet(t)]
        /\ \A i \in 1..m : \E k \in 1..n : q[i] = t[k]
        /\ \A k \in 1..n : \E i \in 1..m : Payload(q[i]) = Payload(t[k])
        /\ \A i, j \in 1..m : i < j => canonical_less(q[i], q[j])
        /\ \A i, j \in 1..m : i # j => Payload(q[i]) # Payload(q[j])
        /\ canonical_constraints(q) = q
    BY <1>1, <1>3, <1>4, CanonicalSequence DEF q, m
  <1>6. q = [i \in 1..m |-> q[i]]
    BY <1>5
  <1>7. \A i \in 1..m : q[i] \in Constraint /\ validate_constraint(q[i]) /\ canonicalize_lists(q[i]) = q[i]
    BY <1>4, <1>5
  <1>8. q \in Seq(Constraint) /\ Len(q) = m
    <2>1. q \in [1..m -> Constraint]
      BY <1>6, <1>7
    <2> QED
      BY <1>5, <2>1
  <1>9. Len(q) <= max_constraints_per_set
    <2>1. max_constraints_per_set \in Nat
      BY LimitsAssumption
    <2> QED
      BY <1>1, <1>2, <1>5, <1>8, <2>1
  <1>10. \A i \in 1..Len(q) : /\ validate_constraint(q[i]) /\ canonicalize_lists(q[i]) = q[i]
                              /\ \E k \in 1..n : q[i] = canonicalize_lists(s[k])
    <2> SUFFICES ASSUME NEW i \in 1..m
                 PROVE  /\ validate_constraint(q[i]) /\ canonicalize_lists(q[i]) = q[i]
                        /\ \E k \in 1..n : q[i] = canonicalize_lists(s[k])
      BY <1>8
    <2>1. validate_constraint(q[i]) /\ canonicalize_lists(q[i]) = q[i]
      BY <1>7
    <2>2. PICK k \in 1..n : q[i] = t[k]
      BY <1>5
    <2>3. t[k] = canonicalize_lists(s[k])
      BY <1>3
    <2> QED
      BY <2>1, <2>2, <2>3
  <1>11. \A i, j \in 1..Len(q) : i # j => Payload(q[i]) # Payload(q[j]) /\ q[i].id # q[j].id
    <2> SUFFICES ASSUME NEW i \in 1..m, NEW j \in 1..m, i # j
                 PROVE  Payload(q[i]) # Payload(q[j]) /\ q[i].id # q[j].id
      BY <1>8
    <2>1. PICK k \in 1..n : q[i] = t[k]
      BY <1>5
    <2>2. PICK l \in 1..n : q[j] = t[l]
      BY <1>5
    <2>3. Payload(q[i]) # Payload(q[j])
      BY <1>5
    <2> QED
      BY <1>2, <1>3, <2>1, <2>2, <2>3 DEF duplicate_identity
  <1>12. {Payload(q[i]) : i \in DOMAIN q} = {Payload(canonicalize_lists(s[i])) : i \in DOMAIN s}
    <2>1. \A i \in DOMAIN q : \E k \in DOMAIN s : Payload(q[i]) = Payload(canonicalize_lists(s[k]))
      BY <1>1, <1>3, <1>5
    <2>2. \A k \in DOMAIN s : \E i \in DOMAIN q : Payload(q[i]) = Payload(canonicalize_lists(s[k]))
      BY <1>1, <1>3, <1>5
    <2> QED
      BY <2>1, <2>2
  <1>13. Listed(q) = q
    <2>1. Listed(q) = [i \in 1..m |-> canonicalize_lists(q[i])]
      BY <1>5 DEF Listed
    <2>2. [i \in 1..m |-> canonicalize_lists(q[i])] = [i \in 1..m |-> q[i]]
      BY <1>7
    <2> QED
      BY <1>6, <2>1, <2>2
  <1>14. ~duplicate_identity(q)
    <2> SUFFICES ASSUME NEW i \in 1..m, NEW j \in 1..m, q[i].id = q[j].id
                 PROVE  Payload(q[i]) = Payload(q[j])
      BY <1>5 DEF duplicate_identity
    <2> QED
      BY <1>8, <1>11
  <1>15. /\ q \in Seq(Constraint) /\ Len(q) <= max_constraints_per_set
         /\ \A i \in 1..Len(q) : /\ validate_constraint(q[i]) /\ canonicalize_lists(q[i]) = q[i]
                                 /\ \E k \in 1..n : q[i] = canonicalize_lists(s[k])
         /\ \A i, j \in 1..Len(q) : i < j => canonical_less(q[i], q[j])
         /\ \A i, j \in 1..Len(q) : i # j => Payload(q[i]) # Payload(q[j]) /\ q[i].id # q[j].id
         /\ {Payload(q[i]) : i \in DOMAIN q} = {Payload(canonicalize_lists(s[i])) : i \in DOMAIN s}
         /\ Listed(q) = q /\ canonical_constraints(q) = q
         /\ ~duplicate_identity(Listed(q))
    BY <1>5, <1>8, <1>9, <1>10, <1>11, <1>12, <1>13, <1>14
  <1> QED
    BY <1>15 DEF q, t, n, s

\* A definition with the canonical constraints of another, whatever its state.
Canonical(raw, state) ==
    LET q == canonical_constraints(Listed(raw.constraints))
    IN [generation |-> raw.generation, constraints |-> q, state |-> state,
        digest |-> <<raw.generation, q, raw.ranking>>, ranking |-> raw.ranking]

LEMMA CanonicalizedIs ==
    ASSUME NEW raw \in Undigested
    PROVE  canonicalize_constraint_set(raw) = Canonical(raw, raw.state)
  <1> DEFINE q == canonical_constraints(Listed(raw.constraints))
  <1>1. canonicalize_constraint_set(raw) = Finalized(raw, q)
    BY DEF canonicalize_constraint_set, Listed
  <1> HIDE DEF q
  <1>2. Finalized(raw, q) = [generation |-> raw.generation, constraints |-> q, state |-> raw.state,
                             digest |-> <<raw.generation, q, raw.ranking>>, ranking |-> raw.ranking]
    <2>1. raw = [generation |-> raw.generation, constraints |-> raw.constraints, state |-> raw.state,
                 digest |-> raw.digest, ranking |-> raw.ranking]
      BY DEF Undigested
    <2>2. [raw EXCEPT !.constraints = q]
             = [generation |-> raw.generation, constraints |-> q, state |-> raw.state,
                digest |-> raw.digest, ranking |-> raw.ranking]
      BY <2>1
    <2>3. Finalized(raw, q)
             = [[raw EXCEPT !.constraints = q] EXCEPT !.digest = <<raw.generation, q, raw.ranking>>]
      BY <2>2 DEF Finalized, constraint_set_digest
    <2> QED
      BY <2>2, <2>3
  <1> QED
    BY <1>1, <1>2 DEF q, Canonical

\* It is verified, and canonical once more.
LEMMA CanonicalIsVerified ==
    ASSUME NEW raw \in Undigested, canonicalizable(raw), NEW state,
           detect_contradictions(Canonical(raw, state).constraints) = {}
    PROVE  /\ verify_canonical_constraint_set(Canonical(raw, state))
           /\ validate_and_finalize_constraint_set(Canonical(raw, state)).set = Canonical(raw, state)
  <1> DEFINE q == canonical_constraints(Listed(raw.constraints))
             set == Canonical(raw, state)
  <1>1. set = [generation |-> raw.generation, constraints |-> q, state |-> state,
               digest |-> <<raw.generation, q, raw.ranking>>, ranking |-> raw.ranking]
    BY DEF Canonical
  <1>2. /\ q \in Seq(Constraint) /\ Len(q) <= max_constraints_per_set
        /\ \A i \in 1..Len(q) : validate_constraint(q[i]) /\ canonicalize_lists(q[i]) = q[i]
        /\ \A i, j \in 1..Len(q) : i < j => canonical_less(q[i], q[j])
        /\ \A i, j \in 1..Len(q) : i # j => Payload(q[i]) # Payload(q[j]) /\ q[i].id # q[j].id
        /\ Listed(q) = q /\ canonical_constraints(q) = q
        /\ ~duplicate_identity(Listed(q))
    BY CanonicalForm
  <1> HIDE DEF q, set
  <1>3. /\ set.generation = raw.generation /\ set.constraints = q /\ set.ranking = raw.ranking
        /\ set.digest = <<raw.generation, q, raw.ranking>>
    BY <1>1
  <1>4. Len(q) \in Nat /\ DOMAIN q = 1..Len(q) /\ raw.generation > 0
    BY <1>2 DEF canonicalizable
  <1>5. \A i \in 2..Len(q) : canonical_less(q[i - 1], q[i]) /\ q[i - 1].id # q[i].id
    <2> SUFFICES ASSUME NEW i \in 2..Len(q)
                 PROVE  canonical_less(q[i - 1], q[i]) /\ q[i - 1].id # q[i].id
      OBVIOUS
    <2>1. i - 1 \in 1..Len(q) /\ i \in 1..Len(q) /\ i - 1 < i /\ i - 1 # i
      BY <1>4
    <2> QED
      BY <1>2, <2>1
  <1>6. set.digest = constraint_set_digest(set)
    BY <1>3 DEF constraint_set_digest
  <1>7. detect_contradictions(q) = {}
    BY <1>3 DEF set
  <1>8. verify_canonical_constraint_set(set)
    BY <1>2, <1>3, <1>4, <1>5, <1>6, <1>7 DEF verify_canonical_constraint_set
  <1>9. canonicalizable(set)
    BY <1>2, <1>3, <1>4 DEF canonicalizable, Listed
  <1>10. canonicalize_constraint_set(set) = set
    <2>1. canonicalize_constraint_set(set) = Finalized(set, q)
      BY <1>2, <1>3 DEF canonicalize_constraint_set, Listed
    <2>2. Finalized(set, q) = set
      <3>1. [set EXCEPT !.constraints = q] = set /\ [set EXCEPT !.digest = set.digest] = set
        BY <1>1
      <3> QED
        BY <1>6, <3>1 DEF Finalized
    <2> QED
      BY <2>1, <2>2
  <1>11. validate_and_finalize_constraint_set(set).set = set
    BY <1>3, <1>7, <1>9, <1>10 DEF validate_and_finalize_constraint_set
  <1> QED
    BY <1>8, <1>11 DEF set

-----------------------------------------------------------------------------
(* Order of submission *)

LEMMA ReversedList ==
    ASSUME NEW s \in Seq(Nat)
    PROVE  /\ Reverse(s) \in Seq(Nat)
           /\ Len(Reverse(s)) = Len(s) /\ Len(s) \in Nat
           /\ ToSet(Reverse(s)) = ToSet(s)
  <1> DEFINE n == Len(s)
             r == Reverse(s)
  <1>1. n \in Nat /\ DOMAIN s = 1..n /\ \A i \in 1..n : s[i] \in Nat
    OBVIOUS
  <1>2. r = [i \in 1..n |-> s[(n - i) + 1]]
    BY DEF Reverse
  <1> HIDE DEF n, r
  <1>3. \A i \in 1..n : (n - i) + 1 \in 1..n /\ (n - ((n - i) + 1)) + 1 = i
    BY <1>1
  <1>4. DOMAIN r = 1..n /\ \A i \in 1..n : r[i] = s[(n - i) + 1]
    BY <1>2
  <1>5. r \in [1..n -> Nat]
    BY <1>1, <1>2, <1>3
  <1>6. r \in Seq(Nat) /\ Len(r) = n
    BY <1>1, <1>5
  <1>7. ToSet(r) = {r[i] : i \in 1..n} /\ ToSet(s) = {s[i] : i \in 1..n}
    BY <1>1, <1>4 DEF ToSet
  <1>8. \A i \in 1..n : r[i] \in {s[k] : k \in 1..n}
    BY <1>3, <1>4
  <1>9. \A i \in 1..n : s[i] \in {r[k] : k \in 1..n}
    <2> SUFFICES ASSUME NEW i \in 1..n PROVE \E k \in 1..n : r[k] = s[i]
      OBVIOUS
    <2>1. r[(n - i) + 1] = s[i]
      BY <1>3, <1>4
    <2> QED
      BY <1>3, <2>1
  <1>10. ToSet(r) = ToSet(s)
    <2>1. ToSet(r) \subseteq ToSet(s)
      BY <1>7, <1>8
    <2>2. ToSet(s) \subseteq ToSet(r)
      BY <1>7, <1>9
    <2> QED
      BY <2>1, <2>2
  <1>11. r \in Seq(Nat) /\ Len(r) = n /\ n \in Nat /\ ToSet(r) = ToSet(s)
    BY <1>1, <1>6, <1>10
  <1> QED
    BY <1>11 DEF r, n

\* A constraint with its lists reversed has the same entities.
LEMMA ReversedIsRelisted ==
    ASSUME NEW c \in Constraint
    PROVE  LET d == [c EXCEPT !.lists = [l \in DOMAIN @ |-> Reverse(@[l])]]
           IN Relisted(c, d) /\ Relisted(d, c)
  <1> DEFINE d == [c EXCEPT !.lists = [l \in DOMAIN @ |-> Reverse(@[l])]]
             lists == [l \in ToSet(ListNames) |-> Reverse(c.lists[l])]
  <1>1. DOMAIN c.lists = ToSet(ListNames) /\ \A l \in ToSet(ListNames) : c.lists[l] \in Seq(Nat)
    BY DEF Constraint
  <1>2. d = [c EXCEPT !.lists = lists]
    BY <1>1
  <1>3. \A l \in ToSet(ListNames) :
           /\ lists[l] \in Seq(Nat)
           /\ Len(lists[l]) = Len(c.lists[l]) /\ Len(c.lists[l]) \in Nat
           /\ ToSet(lists[l]) = ToSet(c.lists[l])
    BY <1>1, ReversedList
  <1>4. lists \in [ToSet(ListNames) -> Seq(Nat)]
    BY <1>3
  <1> HIDE DEF lists, d
  <1>5. d \in Constraint /\ d.lists = lists
    BY <1>2, <1>4 DEF Constraint
  <1>6. c = [d EXCEPT !.lists = c.lists]
    BY <1>2 DEF Constraint
  <1>7. \A l \in ToSet(ListNames) : Len(lists[l]) <= Len(c.lists[l]) /\ Len(c.lists[l]) <= Len(lists[l])
    BY <1>3
  <1>8. Relisted(c, d) /\ Relisted(d, c)
    BY <1>2, <1>3, <1>5, <1>6, <1>7 DEF Relisted
  <1> QED
    BY <1>8 DEF d

\* The constraints of one definition, in another order and with the entities of
\* each in another order.
Shuffled(s, t) ==
    /\ DOMAIN t = DOMAIN s
    /\ \E p \in [DOMAIN s -> DOMAIN s] :
          /\ \A i \in DOMAIN s : \E k \in DOMAIN s : p[k] = i
          /\ \A i \in DOMAIN s : Relisted(s[p[i]], t[i]) /\ Relisted(t[i], s[p[i]])

\* Such definitions are accepted or refused together, and have one canonical
\* form.
LEMMA ShufflesAgree ==
    ASSUME NEW raw \in Undigested, NEW alt \in Undigested,
           alt.generation = raw.generation, Shuffled(raw.constraints, alt.constraints)
    PROVE  /\ canonicalizable(alt) <=> canonicalizable(raw)
           /\ canonicalizable(raw) =>
                canonicalize_constraint_set(alt).constraints = canonicalize_constraint_set(raw).constraints
  <1> DEFINE s == raw.constraints
             t == alt.constraints
             n == Len(s)
             sl == Listed(s)
             tl == Listed(t)
  <1>1. /\ s \in Seq(Constraint) /\ t \in Seq(Constraint) /\ n \in Nat
        /\ DOMAIN s = 1..n /\ DOMAIN t = 1..Len(t) /\ Len(t) \in Nat
    BY DEF Undigested
  <1>2. DOMAIN t = 1..n
    BY <1>1 DEF Shuffled
  <1>3. Len(t) = n
    BY <1>1, <1>2
  <1> HIDE DEF s, t, n, sl, tl
  <1>4. PICK p \in [1..n -> 1..n] :
          /\ \A i \in 1..n : \E k \in 1..n : p[k] = i
          /\ \A i \in 1..n : Relisted(s[p[i]], t[i]) /\ Relisted(t[i], s[p[i]])
    <2>1. PICK p \in [DOMAIN s -> DOMAIN s] :
             /\ \A i \in DOMAIN s : \E k \in DOMAIN s : p[k] = i
             /\ \A i \in DOMAIN s : Relisted(s[p[i]], t[i]) /\ Relisted(t[i], s[p[i]])
      <3>1. Shuffled(s, t)
        BY DEF s, t
      <3> QED
        BY <3>1 DEF Shuffled
    <2>2. p \in [1..n -> 1..n]
      BY <1>1, <2>1
    <2>3. \A i \in 1..n : \E k \in 1..n : p[k] = i
      BY <1>1, <2>1
    <2>4. \A i \in 1..n : Relisted(s[p[i]], t[i]) /\ Relisted(t[i], s[p[i]])
      BY <1>1, <2>1
    <2> QED
      BY <2>2, <2>3, <2>4
  <1>5. DOMAIN sl = 1..n /\ \A i \in 1..n : sl[i] = canonicalize_lists(s[i])
    BY <1>1 DEF Listed, sl
  <1>6. DOMAIN tl = 1..n /\ \A i \in 1..n : tl[i] = canonicalize_lists(t[i])
    BY <1>2 DEF Listed, tl
  <1>7. \A i \in 1..n : p[i] \in 1..n /\ tl[i] = sl[p[i]]
    <2> SUFFICES ASSUME NEW i \in 1..n PROVE p[i] \in 1..n /\ tl[i] = sl[p[i]]
      OBVIOUS
    <2>1. p[i] \in 1..n /\ Relisted(s[p[i]], t[i])
      BY <1>4
    <2>2. canonicalize_lists(t[i]) = canonicalize_lists(s[p[i]])
      BY <2>1, RelistingsAgree
    <2> QED
      BY <1>5, <1>6, <2>1, <2>2
  <1>8. \A i \in 1..n : \E k \in 1..n : sl[i] = tl[k]
    <2> SUFFICES ASSUME NEW i \in 1..n PROVE \E k \in 1..n : sl[i] = tl[k]
      OBVIOUS
    <2>1. PICK k \in 1..n : p[k] = i
      BY <1>4
    <2>2. sl[i] = tl[k]
      BY <1>7, <2>1
    <2> QED
      BY <2>2
  <1>9. (\A i \in 1..n : validate_constraint(t[i])) <=> (\A i \in 1..n : validate_constraint(s[i]))
    <2>1. \A i \in 1..n : validate_constraint(t[i]) <=> validate_constraint(s[p[i]])
      BY <1>4, RelistedIsValid
    <2> QED
      BY <1>4, <2>1
  <1>10. duplicate_identity(tl) <=> duplicate_identity(sl)
    <2>1. ASSUME NEW i \in 1..n, NEW j \in 1..n
          PROVE  \E k \in 1..n, l \in 1..n : sl[i] = tl[k] /\ sl[j] = tl[l]
      BY <1>8
    <2>2. ASSUME duplicate_identity(sl) PROVE duplicate_identity(tl)
      <3>1. PICK i \in 1..n, j \in 1..n : sl[i].id = sl[j].id /\ Payload(sl[i]) # Payload(sl[j])
        BY <1>5, <2>2 DEF duplicate_identity
      <3>2. PICK k \in 1..n, l \in 1..n : sl[i] = tl[k] /\ sl[j] = tl[l]
        BY <2>1
      <3> QED
        BY <1>6, <3>1, <3>2 DEF duplicate_identity
    <2>3. ASSUME duplicate_identity(tl) PROVE duplicate_identity(sl)
      <3>1. PICK i \in 1..n, j \in 1..n : tl[i].id = tl[j].id /\ Payload(tl[i]) # Payload(tl[j])
        BY <1>6, <2>3 DEF duplicate_identity
      <3>2. tl[i] = sl[p[i]] /\ tl[j] = sl[p[j]] /\ p[i] \in 1..n /\ p[j] \in 1..n
        BY <1>7
      <3> QED
        BY <1>5, <3>1, <3>2 DEF duplicate_identity
    <2> QED
      BY <2>2, <2>3
  <1>11. canonicalizable(raw) <=> /\ raw.generation > 0 /\ n <= max_constraints_per_set
                                  /\ \A i \in 1..n : validate_constraint(s[i])
                                  /\ ~duplicate_identity(sl)
    BY <1>1 DEF canonicalizable, s, sl, n, Listed
  <1>12. canonicalizable(alt) <=> /\ alt.generation > 0 /\ n <= max_constraints_per_set
                                  /\ \A i \in 1..n : validate_constraint(t[i])
                                  /\ ~duplicate_identity(tl)
    BY <1>2, <1>3 DEF canonicalizable, t, tl, Listed
  <1>13. canonicalizable(alt) <=> canonicalizable(raw)
    BY <1>9, <1>10, <1>11, <1>12
  <1>14. ASSUME canonicalizable(raw)
         PROVE  canonicalize_constraint_set(alt).constraints = canonicalize_constraint_set(raw).constraints
    <2>1. ToSet(tl) = ToSet(sl)
      <3>1. ToSet(tl) = {tl[i] : i \in 1..n} /\ ToSet(sl) = {sl[i] : i \in 1..n}
        BY <1>1, <1>5, <1>6, ToSetIsFinite
      <3>2. \A i \in 1..n : tl[i] \in {sl[k] : k \in 1..n}
        BY <1>7
      <3>3. \A i \in 1..n : sl[i] \in {tl[k] : k \in 1..n}
        BY <1>8
      <3> QED
        BY <3>1, <3>2, <3>3
    <2>2. \A i \in 1..n : Typed(sl[i])
      <3> SUFFICES ASSUME NEW i \in 1..n PROVE Typed(sl[i])
        OBVIOUS
      <3>1. s[i] \in Constraint /\ validate_constraint(s[i])
        BY <1>1, <1>11, <1>14
      <3>2. Relisted(s[i], sl[i])
        BY <1>5, <3>1, CanonicalLists
      <3>3. validate_constraint(sl[i]) /\ sl[i] \in Constraint
        BY <3>1, <3>2, RelistedIsValid DEF Relisted
      <3> QED
        BY <3>3 DEF Typed, validate_constraint
    <2>3. \A i \in 1..n : Typed(tl[i])
      BY <1>7, <2>2
    <2>4. canonical_constraints(tl) = Ascending(Leaders(ToSet(tl)), CanonicalPairs(Leaders(ToSet(tl))))
      BY <1>1, <1>6, <2>3, CanonicalConstraintsAre
    <2>5. canonical_constraints(sl) = Ascending(Leaders(ToSet(sl)), CanonicalPairs(Leaders(ToSet(sl))))
      BY <1>1, <1>5, <2>2, CanonicalConstraintsAre
    <2>6. canonical_constraints(sl) = canonical_constraints(tl)
      BY <2>1, <2>4, <2>5
    <2>7. /\ canonicalize_constraint_set(raw) = Canonical(raw, raw.state)
          /\ canonicalize_constraint_set(alt) = Canonical(alt, alt.state)
      BY CanonicalizedIs
    <2>8. /\ Canonical(raw, raw.state).constraints = canonical_constraints(sl)
          /\ Canonical(alt, alt.state).constraints = canonical_constraints(tl)
      BY DEF Canonical, sl, tl, s, t
    <2> QED
      BY <2>6, <2>7, <2>8
  <1> QED
    BY <1>13, <1>14
==============================================================================

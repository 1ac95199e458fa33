------------------------------- MODULE Ordering -------------------------------
(***************************************************************************)
(* The deterministic ranking of admissible candidates (ordering.cpp).      *)
(* A comparison returns -1, 0 or 1 as in the code; smaller ranks first.    *)
(* The sorts of the code are stable; they are described here by where they *)
(* put each element.                                                       *)
(***************************************************************************)
EXTENDS Integers, Sequences, FiniteSets

\* The elements of a finite set, the least first; less is a set of pairs.
Ascending(S, less) ==
    LET place(x) == Cardinality({y \in S : <<y, x>> \in less}) + 1
    IN [k \in 1..Cardinality(S) |-> CHOOSE x \in S : place(x) = k]

\* Positions that less does not tell apart keep their order.
Stably(positions, less) ==
    {ij \in positions \X positions :
        \/ ij \in less
        \/ <<ij[2], ij[1]>> \notin less /\ ij[1] < ij[2]}

\* The positions of a set in the order std::stable_sort leaves them.
stable_order(positions, Less(_, _)) ==
    Ascending(positions,
              Stably(positions, {ij \in positions \X positions : Less(ij[1], ij[2])}))

\* A sequence with its positions in that order.
Arranged(s, less) ==
    LET order == Ascending(DOMAIN s, Stably(DOMAIN s, less)) IN [k \in DOMAIN s |-> s[order[k]]]

stable_sort(s, Less(_, _)) ==
    Arranged(s, {ij \in (DOMAIN s) \X (DOMAIN s) : Less(s[ij[1]], s[ij[2]])})

\* The numbers of a set in increasing order.
Increasing(S) == Ascending(S, {xy \in S \X S : xy[1] < xy[2]})

\* The elements of a sequence at a set of positions.
Subsequence(s, positions) ==
    LET at == Increasing(positions) IN [k \in DOMAIN at |-> s[at[k]]]

Cmp(a, b) == IF a < b THEN -1 ELSE IF b < a THEN 1 ELSE 0

\* The first comparison that decides.
OrElse(c, d) == IF c # 0 THEN c ELSE d

\* A flag that, when set, ranks first.
CmpFlag(a, b) == IF a = b THEN 0 ELSE IF a THEN -1 ELSE 1

\* Lexicographic comparison of two sequences by C, the shorter one first.
Lexicographic(C(_, _), a, b) ==
    LET shared == IF Len(a) < Len(b) THEN Len(a) ELSE Len(b)
        differ == {i \in 1..shared : C(a[i], b[i]) # 0}
    IN IF differ = {} THEN Cmp(Len(a), Len(b))
       ELSE LET first == CHOOSE i \in differ : \A j \in differ : i <= j
            IN C(a[first], b[first])

compare_lists(a, b) == Lexicographic(Cmp, a, b)

compare_slot(a, b) ==
    OrElse(CmpFlag(a.satisfied, b.satisfied),
    OrElse(Cmp(b.margin, a.margin), Cmp(b.weight, a.weight)))

compare_preferences(a, b) == Lexicographic(compare_slot, a, b)

compare_node_sequences(a, b) ==
    compare_lists([i \in DOMAIN a.nodes |-> a.nodes[i].node],
                  [i \in DOMAIN b.nodes |-> b.nodes[i].node])

compare_planner_rank(a, b) ==
    OrElse(CmpFlag(a.has_planner_rank, b.has_planner_rank),
           IF a.has_planner_rank THEN Cmp(a.planner_rank, b.planner_rank) ELSE 0)

compare_planner_cost(a, b, policy) ==
    OrElse(CmpFlag(a.has_planner_cost, b.has_planner_cost),
           IF ~a.has_planner_cost THEN 0
           ELSE IF policy.prefer_lower_cost THEN Cmp(a.planner_cost, b.planner_cost)
           ELSE Cmp(b.planner_cost, a.planner_cost))

\* Mutant: the planner's cost decides before the preferences.
CostBeforePreferences(ra, a, rb, b, policy) ==
    OrElse(IF policy.consume_planner_cost THEN compare_planner_cost(a, b, policy) ELSE 0,
    OrElse(compare_preferences(ra.preferences, rb.preferences), Cmp(a.path, b.path)))

compare_ranked(ra, a, rb, b, policy) ==
    OrElse(compare_preferences(ra.preferences, rb.preferences),
    OrElse(IF policy.consume_planner_rank THEN compare_planner_rank(a, b) ELSE 0,
    OrElse(IF policy.consume_planner_cost THEN compare_planner_cost(a, b, policy) ELSE 0,
    OrElse(IF policy.tiebreak = "NodeSequenceLexicographic"
           THEN compare_node_sequences(a, b) ELSE 0,
           Cmp(a.path, b.path)))))
===============================================================================

--------------------------- MODULE EvaluatorProofs ---------------------------
(***************************************************************************)
(* Proofs about Evaluator, for any definitions, contexts, candidates and   *)
(* limits.                                                                 *)
(***************************************************************************)
EXTENDS Evaluator, ConstraintSetProofs

(* Definitions *)

\* What becomes of a submission.
Outcome(submission) ==
    LET raw == submission.raw
        result == validate_and_finalize_constraint_set(raw)
    IN [raw |-> raw, ok |-> result.ok, contradictions |-> result.contradictions,
        set |-> IF result.ok
                THEN [result.set EXCEPT !.generation = submission.assigned, !.state = submission.state]
                ELSE result.set]

\* A definition is what became of some submission.
DefinitionInv == definition # None => \E submission \in Submission : definition = Outcome(submission)

\* The definition evaluations run against is always the outcome of the last
\* publication: validate_and_finalize_constraint_set, then the generation and
\* state the coordinator assigns.
THEOREM DefinitionsAreSubmitted == Spec => []DefinitionInv
  <1>1. Init => DefinitionInv
    BY DEF Init, DefinitionInv
  <1>2. DefinitionInv /\ [Next]_vars => DefinitionInv'
    <2> SUFFICES ASSUME DefinitionInv, [Next]_vars PROVE DefinitionInv'
      OBVIOUS
    <2>1. ASSUME NEW submission \in Submission, Submit(submission) PROVE DefinitionInv'
      <3>1. definition' = Outcome(submission)
        BY <2>1 DEF Submit, Outcome
      <3> QED
        BY <3>1 DEF DefinitionInv
    <2>2. ASSUME NEW ctx \in Context, NEW candidates \in Population, Evaluate(ctx, candidates)
          PROVE  DefinitionInv'
      BY <2>2 DEF Evaluate, DefinitionInv
    <2>3. CASE Return \/ Withdraw \/ UNCHANGED vars
      BY <2>3 DEF Return, Withdraw, vars, DefinitionInv
    <2> QED
      BY <2>1, <2>2, <2>3 DEF Next
  <1> QED
    BY <1>1, <1>2, PTL DEF Spec

\* A canonical definition, as it is stored under a generation.
Stored(raw, state, assigned) == [Canonical(raw, state) EXCEPT !.generation = assigned]

LEMMA CanonicalIs ==
    ASSUME NEW raw, NEW state
    PROVE  /\ Canonical(raw, state)
                = [generation |-> raw.generation,
                   constraints |-> canonical_constraints(Listed(raw.constraints)), state |-> state,
                   digest |-> <<raw.generation, canonical_constraints(Listed(raw.constraints)), raw.ranking>>,
                   ranking |-> raw.ranking]
           /\ Canonical(raw, state).constraints = canonical_constraints(Listed(raw.constraints))
  BY DEF Canonical

LEMMA StoredIs ==
    ASSUME NEW raw, NEW state, NEW assigned
    PROVE  /\ Stored(raw, state, assigned)
                = [generation |-> assigned,
                   constraints |-> canonical_constraints(Listed(raw.constraints)), state |-> state,
                   digest |-> <<raw.generation, canonical_constraints(Listed(raw.constraints)), raw.ranking>>,
                   ranking |-> raw.ranking]
           /\ Stored(raw, state, assigned).generation = assigned
           /\ Stored(raw, state, assigned).state = state
           /\ Stored(raw, state, assigned).constraints = canonical_constraints(Listed(raw.constraints))
           /\ Stored(raw, state, assigned).ranking = raw.ranking
           /\ Stored(raw, state, assigned).digest
                 = <<raw.generation, canonical_constraints(Listed(raw.constraints)), raw.ranking>>
           /\ [Stored(raw, state, assigned) EXCEPT !.generation = raw.generation] = Canonical(raw, state)
  <1> DEFINE q == canonical_constraints(Listed(raw.constraints))
             digest == <<raw.generation, q, raw.ranking>>
             canon == Canonical(raw, state)
             stored == Stored(raw, state, assigned)
  <1>1. canon = [generation |-> raw.generation, constraints |-> q, state |-> state,
                 digest |-> digest, ranking |-> raw.ranking]
    BY DEF Canonical
  <1>2. stored = [canon EXCEPT !.generation = assigned]
    BY DEF Stored
  <1>3. digest = <<raw.generation, q, raw.ranking>>
    OBVIOUS
  <1> HIDE DEF q, digest, canon, stored
  <1>4. stored = [generation |-> assigned, constraints |-> q, state |-> state,
                  digest |-> digest, ranking |-> raw.ranking]
    BY <1>1, <1>2
  <1>5. [stored EXCEPT !.generation = raw.generation] = canon
    BY <1>1, <1>4
  <1>6. /\ stored.generation = assigned /\ stored.state = state
        /\ stored.constraints = q /\ stored.ranking = raw.ranking /\ stored.digest = digest
    BY <1>4
  <1> QED
    BY <1>3, <1>4, <1>5, <1>6 DEF stored, canon, q

\* An accepted definition has the canonical constraints of its submission; a
\* refused one is left as it was.
LEMMA OutcomeIs ==
    ASSUME NEW submission \in Submission
    PROVE  LET raw == submission.raw
               q == canonical_constraints(Listed(raw.constraints))
               o == Outcome(submission)
           IN /\ raw \in Undigested /\ o.raw = raw /\ o.ok \in BOOLEAN
              /\ o.ok <=> canonicalizable(raw) /\ detect_contradictions(q) = {}
              /\ o.ok => /\ o.set = Stored(raw, submission.state, submission.assigned)
                         /\ o.contradictions = {}
              /\ ~o.ok => /\ o.set = raw
                          /\ o.contradictions = IF canonicalizable(raw) THEN detect_contradictions(q)
                                                ELSE {}
  <1> DEFINE raw == submission.raw
             q == canonical_constraints(Listed(raw.constraints))
             o == Outcome(submission)
             result == validate_and_finalize_constraint_set(raw)
             set == [result.set EXCEPT !.generation = submission.assigned, !.state = submission.state]
  <1>1. raw \in Undigested
    BY SubmissionAssumption
  <1>2. canonicalize_constraint_set(raw) = Canonical(raw, raw.state)
    BY <1>1, CanonicalizedIs
  <1>3. Canonical(raw, raw.state).constraints = q
    BY DEF Canonical
  <1>4. o = [raw |-> raw, ok |-> result.ok, contradictions |-> result.contradictions,
             set |-> IF result.ok THEN set ELSE result.set]
    BY DEF Outcome
  <1>5. result = IF ~canonicalizable(raw) THEN [ok |-> FALSE, set |-> raw, contradictions |-> {}]
                 ELSE IF detect_contradictions(q) = {}
                      THEN [ok |-> TRUE, set |-> Canonical(raw, raw.state), contradictions |-> {}]
                      ELSE [ok |-> FALSE, set |-> raw, contradictions |-> detect_contradictions(q)]
    BY <1>2, <1>3 DEF validate_and_finalize_constraint_set
  <1> HIDE DEF q, o, result, raw
  <1>6. CASE ~canonicalizable(raw)
    BY <1>1, <1>4, <1>5, <1>6 DEF raw, q, o
  <1>7. CASE canonicalizable(raw) /\ detect_contradictions(q) # {}
    BY <1>1, <1>4, <1>5, <1>7 DEF raw, q, o
  <1>8. CASE canonicalizable(raw) /\ detect_contradictions(q) = {}
    <2>1. result.ok /\ result.set = Canonical(raw, raw.state) /\ result.contradictions = {} /\ result.ok = TRUE
      BY <1>5, <1>8
    <2>2. set = Stored(raw, submission.state, submission.assigned)
      <3> DEFINE digest == <<raw.generation, q, raw.ranking>>
                 assigned == submission.assigned
                 state == submission.state
                 old == [generation |-> raw.generation, constraints |-> q, state |-> raw.state,
                         digest |-> digest, ranking |-> raw.ranking]
                 new == [generation |-> assigned, constraints |-> q, state |-> state,
                         digest |-> digest, ranking |-> raw.ranking]
      <3>1. result.set = old /\ Stored(raw, state, assigned) = new
        BY <2>1, CanonicalIs, StoredIs DEF q
      <3> HIDE DEF digest, assigned, state
      <3>2. [old EXCEPT !.generation = assigned, !.state = state]
               = [[old EXCEPT !.generation = assigned] EXCEPT !.state = state]
        OBVIOUS
      <3>3. [old EXCEPT !.generation = assigned]
               = [generation |-> assigned, constraints |-> q, state |-> raw.state,
                  digest |-> digest, ranking |-> raw.ranking]
        OBVIOUS
      <3>4. [[generation |-> assigned, constraints |-> q, state |-> raw.state,
              digest |-> digest, ranking |-> raw.ranking] EXCEPT !.state = state] = new
        OBVIOUS
      <3> HIDE DEF old, new
      <3>5. set = [old EXCEPT !.generation = assigned, !.state = state]
        BY <3>1 DEF assigned, state
      <3> QED
        BY <3>1, <3>2, <3>3, <3>4, <3>5 DEF assigned, state
    <2> HIDE DEF set
    <2>3. o.ok = TRUE /\ o.set = set /\ o.contradictions = {} /\ o.raw = raw
      BY <1>4, <2>1
    <2> QED
      BY <1>1, <1>8, <2>2, <2>3 DEF raw, q, o
  <1> QED
    BY <1>6, <1>7, <1>8

\* Whatever order the constraints and their entities are submitted in, a
\* definition is accepted or refused alike, for the same contradictions, and its
\* canonical form is the same: canonicalize_constraint_set leaves no trace of
\* the order.
THEOREM OneCanonicalForm == Spec => []CanonicalFormIsUnique
  <1>1. DefinitionInv => CanonicalFormIsUnique
    <2> SUFFICES ASSUME DefinitionInv, definition # None,
                        NEW p \in Rearrangements(DOMAIN definition.raw.constraints)
                 PROVE  LET s == definition.raw.constraints
                            shuffled == [i \in DOMAIN s |->
                                [s[p[i]] EXCEPT !.lists = [l \in DOMAIN @ |-> Reverse(@[l])]]]
                            other == validate_and_finalize_constraint_set(
                                         [definition.raw EXCEPT !.constraints = shuffled])
                        IN /\ other.ok = definition.ok
                           /\ other.ok => other.set.constraints = definition.set.constraints
                           /\ other.contradictions = definition.contradictions
      BY DEF CanonicalFormIsUnique
    <2>1. PICK submission \in Submission : definition = Outcome(submission)
      BY DEF DefinitionInv
    <2> DEFINE raw == submission.raw
               s == raw.constraints
               n == Len(s)
               t == [i \in DOMAIN s |-> [s[p[i]] EXCEPT !.lists = [l \in DOMAIN @ |-> Reverse(@[l])]]]
               alt == [raw EXCEPT !.constraints = t]
               q == canonical_constraints(Listed(s))
               other == validate_and_finalize_constraint_set(alt)
    <2>2. /\ raw \in Undigested /\ definition.raw = raw /\ definition.ok \in BOOLEAN
          /\ definition.ok <=> canonicalizable(raw) /\ detect_contradictions(q) = {}
          /\ definition.ok => /\ definition.set = Stored(raw, submission.state, submission.assigned)
                              /\ definition.contradictions = {}
          /\ ~definition.ok =>
               definition.contradictions = IF canonicalizable(raw) THEN detect_contradictions(q) ELSE {}
      BY <2>1, OutcomeIs
    <2>3. s \in Seq(Constraint) /\ n \in Nat /\ DOMAIN s = 1..n /\ \A i \in 1..n : s[i] \in Constraint
      BY <2>2 DEF Undigested
    <2>4. p \in [1..n -> 1..n] /\ \A x \in 1..n : \E y \in 1..n : p[y] = x
      BY <2>2, <2>3 DEF Rearrangements
    <2>5. DOMAIN t = 1..n
      BY <2>3
    <2>6. \A i \in 1..n : Relisted(s[p[i]], t[i]) /\ Relisted(t[i], s[p[i]])
      <3> SUFFICES ASSUME NEW i \in 1..n PROVE Relisted(s[p[i]], t[i]) /\ Relisted(t[i], s[p[i]])
        OBVIOUS
      <3>1. s[p[i]] \in Constraint
        BY <2>3, <2>4
      <3>2. t[i] = [s[p[i]] EXCEPT !.lists = [l \in DOMAIN @ |-> Reverse(@[l])]]
        BY <2>3
      <3> HIDE DEF s, t
      <3> QED
        BY <3>1, <3>2, ReversedIsRelisted
    <2>7. t = [i \in 1..n |-> t[i]]
      BY <2>3
    <2> HIDE DEF s, t, n, q
    <2>8. Shuffled(s, t)
      BY <2>3, <2>4, <2>5, <2>6 DEF Shuffled
    <2>9. t \in Seq(Constraint)
      <3>1. \A i \in 1..n : t[i] \in Constraint
        BY <2>6 DEF Relisted
      <3>2. t \in [1..n -> Constraint]
        BY <2>7, <3>1
      <3> QED
        BY <2>3, <3>2
    <2>10. alt \in Undigested /\ alt.generation = raw.generation /\ alt.constraints = t
      BY <2>2, <2>9 DEF Undigested
    <2> HIDE DEF raw, alt, other
    <2>11. /\ canonicalizable(alt) <=> canonicalizable(raw)
           /\ canonicalizable(raw) =>
                canonicalize_constraint_set(alt).constraints = canonicalize_constraint_set(raw).constraints
      BY <2>2, <2>8, <2>10, ShufflesAgree DEF s
    <2>12. canonicalize_constraint_set(raw).constraints = q
      BY <2>2, CanonicalizedIs DEF Canonical, q, s
    <2>13. other = IF ~canonicalizable(alt) THEN [ok |-> FALSE, set |-> alt, contradictions |-> {}]
                   ELSE IF detect_contradictions(canonicalize_constraint_set(alt).constraints) = {}
                   THEN [ok |-> TRUE, set |-> canonicalize_constraint_set(alt), contradictions |-> {}]
                   ELSE [ok |-> FALSE, set |-> alt,
                         contradictions |-> detect_contradictions(canonicalize_constraint_set(alt).constraints)]
      BY DEF validate_and_finalize_constraint_set, other
    <2>14. definition.ok => definition.set.constraints = q
      BY <2>2, StoredIs DEF q, s
    <2>15. /\ other.ok = definition.ok
           /\ other.ok => other.set.constraints = definition.set.constraints
           /\ other.contradictions = definition.contradictions
      <3>1. CASE ~canonicalizable(raw)
        BY <2>2, <2>11, <2>13, <3>1
      <3>2. CASE canonicalizable(raw) /\ detect_contradictions(q) = {}
        BY <2>2, <2>11, <2>12, <2>13, <2>14, <3>2
      <3>3. CASE canonicalizable(raw) /\ detect_contradictions(q) # {}
        BY <2>2, <2>11, <2>12, <2>13, <3>3
      <3> QED
        BY <3>1, <3>2, <3>3
    <2> QED
      BY <2>2, <2>15 DEF other, alt, t, s
  <1> QED
    BY <1>1, DefinitionsAreSubmitted, PTL

\* What the coordinator accepts passes the verification every reader applies:
\* sorted, without duplicates of a payload or an identity, free of
\* contradictions; it keeps each submitted requirement and canonicalizing it
\* again changes nothing.
THEOREM AcceptedVerifies == Spec => []AcceptedIsCanonical
  <1>1. DefinitionInv => AcceptedIsCanonical
    <2> SUFFICES ASSUME DefinitionInv, definition # None, definition.ok
                 PROVE  LET set == [definition.set EXCEPT !.generation = definition.raw.generation]
                            s == set.constraints
                            raw == definition.raw.constraints
                        IN /\ verify_canonical_constraint_set(set)
                           /\ validate_and_finalize_constraint_set(set).set = set
                           /\ {Payload(s[i]) : i \in DOMAIN s}
                                 = {Payload(canonicalize_lists(raw[i])) : i \in DOMAIN raw}
                           /\ \A i, j \in DOMAIN s : i # j => Payload(s[i]) # Payload(s[j]) /\ s[i].id # s[j].id
      BY DEF AcceptedIsCanonical
    <2>1. PICK submission \in Submission : definition = Outcome(submission)
      BY DEF DefinitionInv
    <2> DEFINE raw == submission.raw
               s == raw.constraints
               q == canonical_constraints(Listed(s))
               canon == Canonical(raw, submission.state)
               set == [definition.set EXCEPT !.generation = definition.raw.generation]
    <2>2. /\ raw \in Undigested /\ definition.raw = raw
          /\ canonicalizable(raw) /\ detect_contradictions(q) = {}
          /\ definition.set = Stored(raw, submission.state, submission.assigned)
      BY <2>1, OutcomeIs
    <2>3. set = canon /\ canon.constraints = q
      <3>1. /\ [Stored(raw, submission.state, submission.assigned) EXCEPT !.generation = raw.generation]
                  = canon
            /\ canon.constraints = q
        BY CanonicalIs, StoredIs
      <3> HIDE DEF canon, raw
      <3> QED
        BY <2>2, <3>1
    <2>4. /\ q \in Seq(Constraint)
          /\ \A i, j \in 1..Len(q) : i # j => Payload(q[i]) # Payload(q[j]) /\ q[i].id # q[j].id
          /\ {Payload(q[i]) : i \in DOMAIN q} = {Payload(canonicalize_lists(s[i])) : i \in DOMAIN s}
      BY <2>2, CanonicalForm
    <2>5. /\ verify_canonical_constraint_set(canon)
          /\ validate_and_finalize_constraint_set(canon).set = canon
      BY <2>2, <2>3, CanonicalIsVerified
    <2> HIDE DEF q, canon, set
    <2>6. DOMAIN q = 1..Len(q)
      BY <2>4
    <2>7. /\ verify_canonical_constraint_set(set)
          /\ validate_and_finalize_constraint_set(set).set = set
          /\ set.constraints = q
      BY <2>3, <2>5
    <2>8. \A i, j \in DOMAIN q : i # j => Payload(q[i]) # Payload(q[j]) /\ q[i].id # q[j].id
      BY <2>4, <2>6
    <2>9. definition.raw.constraints = s
      BY <2>2
    <2>10. {Payload(set.constraints[i]) : i \in DOMAIN set.constraints}
              = {Payload(canonicalize_lists(s[i])) : i \in DOMAIN s}
      BY <2>4, <2>7
    <2>11. \A i, j \in DOMAIN set.constraints :
              i # j => /\ Payload(set.constraints[i]) # Payload(set.constraints[j])
                       /\ set.constraints[i].id # set.constraints[j].id
      BY <2>7, <2>8
    <2> HIDE DEF s
    <2> QED
      BY <2>7, <2>9, <2>10, <2>11 DEF set
  <1> QED
    BY <1>1, DefinitionsAreSubmitted, PTL

-----------------------------------------------------------------------------
(* Order of the preferences *)

\* Where evaluate_preferences takes its slots from.
PreferenceOrder(set) ==
    LET P == Scoped(set, "Preference")
    IN Ascending(P, Stably(P, {ij \in P \X P : set.constraints[ij[1]].preference_rank
                                                  < set.constraints[ij[2]].preference_rank}))

LEMMA PreferenceOrderIs ==
    ASSUME NEW set, set.constraints \in Seq(Constraint)
    PROVE  LET P == Scoped(set, "Preference")
           IN /\ IsFiniteSet(P) /\ Cardinality(P) \in Nat
              /\ PreferenceOrder(set) \in [1..Cardinality(P) -> P]
              /\ \A x \in P : \E k \in 1..Cardinality(P) : PreferenceOrder(set)[k] = x
  <1> DEFINE P == Scoped(set, "Preference")
             s == set.constraints
             less == {ij \in P \X P : s[ij[1]].preference_rank < s[ij[2]].preference_rank}
             R == Stably(P, less)
  <1>1. P \subseteq 1..Len(s) /\ Len(s) \in Nat /\ \A i \in P : s[i].preference_rank \in Nat
    <2>1. \A i \in 1..Len(s) : s[i] \in Constraint
      OBVIOUS
    <2>2. P \subseteq 1..Len(s) /\ Len(s) \in Nat
      BY DEF Scoped
    <2>3. \A i \in 1..Len(s) : s[i].preference_rank \in Nat
      BY <2>1 DEF Constraint
    <2> QED
      BY <2>2, <2>3
  <1>2. PreferenceOrder(set) = Ascending(P, R)
    BY DEF PreferenceOrder
  <1>3. \A i, j \in P : <<i, j>> \in less <=> s[i].preference_rank < s[j].preference_rank
    OBVIOUS
  <1> HIDE DEF P, s, less, R
  <1>4. WeakOrder(P, less)
    <2> DEFINE rank == [i \in P |-> s[i].preference_rank]
    <2>1. \A i \in P : rank[i] \in Nat /\ rank[i] = s[i].preference_rank
      BY <1>1
    <2> HIDE DEF rank
    <2>2. \A i, j \in P : <<i, j>> \in less <=> rank[i] < rank[j]
      BY <1>3, <2>1
    <2> QED
      BY <2>1, <2>2 DEF WeakOrder
  <1>5. IsFiniteSet(P)
    <2>1. IsFiniteSet(1..Len(s))
      BY <1>1, FS_Interval
    <2> QED
      BY <1>1, <2>1, FS_Subset
  <1>6. StrictOrder(P, R)
    <2>1. P \in SUBSET Int
      BY <1>1
    <2> QED
      BY <1>4, <2>1, StablyOrders DEF R
  <1>7. /\ Cardinality(P) \in Nat
        /\ Ascending(P, R) \in [1..Cardinality(P) -> P]
        /\ \A x \in P : \E k \in 1..Cardinality(P) : Ascending(P, R)[k] = x
    BY <1>5, <1>6, AscendingSorts
  <1>8. /\ IsFiniteSet(P) /\ Cardinality(P) \in Nat
        /\ PreferenceOrder(set) \in [1..Cardinality(P) -> P]
        /\ \A x \in P : \E k \in 1..Cardinality(P) : PreferenceOrder(set)[k] = x
    BY <1>2, <1>5, <1>7
  <1> QED
    BY <1>8 DEF P

LEMMA PreferencesAre ==
    ASSUME NEW set, set.constraints \in Seq(Constraint), NEW ctx, NEW candidate
    PROVE  evaluate_preferences(set, ctx, candidate)
             = [k \in 1..Cardinality(Scoped(set, "Preference")) |->
                   evaluate_preference(set.constraints[PreferenceOrder(set)[k]],
                                       PreferenceOrder(set)[k] - 1, candidate, ctx.current)]
  <1> DEFINE order == PreferenceOrder(set)
             n == Cardinality(Scoped(set, "Preference"))
  <1>1. evaluate_preferences(set, ctx, candidate)
           = [k \in DOMAIN order |->
                 evaluate_preference(set.constraints[order[k]], order[k] - 1, candidate, ctx.current)]
    BY DEF evaluate_preferences, stable_order, PreferenceOrder
  <1>2. DOMAIN order = 1..n
    BY PreferenceOrderIs
  <1> HIDE DEF order, n
  <1>3. evaluate_preferences(set, ctx, candidate)
           = [k \in 1..n |->
                 evaluate_preference(set.constraints[order[k]], order[k] - 1, candidate, ctx.current)]
    BY <1>1, <1>2
  <1> QED
    BY <1>3 DEF order, n

-----------------------------------------------------------------------------
(* Consulted families *)

\* A check looks at the current generation of one family only.
LEMMA ChecksReadOneFamily ==
    ASSUME NEW c, NEW candidate, NEW x, NEW y
    PROVE  /\ x["FailureDomain"] = y["FailureDomain"] =>
                check_isolation_class(c, candidate, x) = check_isolation_class(c, candidate, y)
           /\ x["Capability"] = y["Capability"] =>
                /\ check_required_capability(c, candidate, x)
                      = check_required_capability(c, candidate, y)
                /\ check_forbidden_capability(c, candidate, x)
                      = check_forbidden_capability(c, candidate, y)
           /\ x["Policy"] = y["Policy"] =>
                check_administrative_policy(c, candidate, x)
                   = check_administrative_policy(c, candidate, y)
  <1>1. x["FailureDomain"] = y["FailureDomain"] =>
          check_isolation_class(c, candidate, x) = check_isolation_class(c, candidate, y)
    BY DEF check_isolation_class, ForEach
  <1>2. x["Capability"] = y["Capability"] =>
          check_required_capability(c, candidate, x) = check_required_capability(c, candidate, y)
    BY DEF check_required_capability, ForEach
  <1>3. x["Capability"] = y["Capability"] =>
          check_forbidden_capability(c, candidate, x) = check_forbidden_capability(c, candidate, y)
    BY DEF check_forbidden_capability, ForEach
  <1>4. x["Policy"] = y["Policy"] =>
          check_administrative_policy(c, candidate, x) = check_administrative_policy(c, candidate, y)
    BY DEF check_administrative_policy, ForEach
  <1> QED
    BY <1>1, <1>2, <1>3, <1>4

\* Two assignments of generations that agree on what a constraint consults.
Agree(families, x, y) == \A f \in families : x[f] = y[f]

\* The family a kind is evaluated against is among those it reports.
LEMMA KindFamilies ==
    ASSUME NEW c
    PROVE  /\ c.kind \in {"MinBandwidthCapability", "RequiredCapability", "ForbiddenCapability"} =>
                "Capability" \in families_of(c)
           /\ c.kind = "IsolationClass" => "FailureDomain" \in families_of(c)
           /\ c.kind = "AdministrativePolicy" => "Policy" \in families_of(c)
  BY DEF families_of, evidence_families

\* A constraint's verdict depends on the families it consults.
LEMMA MandatoryReads ==
    ASSUME NEW c, c.kind \in ToSet(Kinds), NEW candidate, NEW x, NEW y, Agree(families_of(c), x, y)
    PROVE  evaluate_mandatory(c, candidate, x) = evaluate_mandatory(c, candidate, y)
  <1>1. /\ c.kind \in {"MinBandwidthCapability", "RequiredCapability", "ForbiddenCapability"} =>
             x["Capability"] = y["Capability"]
        /\ c.kind = "IsolationClass" => x["FailureDomain"] = y["FailureDomain"]
        /\ c.kind = "AdministrativePolicy" => x["Policy"] = y["Policy"]
    BY KindFamilies DEF Agree
  <1>2. CASE c.kind = "MinBandwidthCapability"
    BY <1>1, <1>2 DEF evaluate_mandatory, check_min_bandwidth
  <1>3. CASE c.kind \in {"RequiredCapability", "ForbiddenCapability", "IsolationClass",
                         "AdministrativePolicy"}
    BY <1>1, <1>3, ChecksReadOneFamily DEF evaluate_mandatory
  <1>4. CASE c.kind \in {"MaxLatency", "MaxHopCount", "RequiredNode", "ForbiddenNode",
                         "RequiredLink", "ForbiddenLink", "RequiredTier", "ForbiddenTier"}
    BY <1>4 DEF evaluate_mandatory
  <1>5. CASE c.kind \in {"RequiredSite", "ForbiddenSite", "LocalityScope",
                         "RequiredFailureDomainRelation", "ForbiddenFailureDomainRelation"}
    BY <1>5 DEF evaluate_mandatory
  <1> QED
    BY <1>2, <1>3, <1>4, <1>5 DEF Kinds, ToSet

\* The slot of a preference depends on the same families.
LEMMA PreferenceReads ==
    ASSUME NEW c, c.kind \in ToSet(Kinds), NEW candidate, NEW x, NEW y, Agree(families_of(c), x, y)
    PROVE  preference_slot(c, candidate, x) = preference_slot(c, candidate, y)
  <1>1. c.kind = "MinBandwidthCapability" => x["Capability"] = y["Capability"]
    BY KindFamilies DEF Agree
  <1>2. c.kind \in NumericKind =>
           preference_slack(c, candidate, x) = preference_slack(c, candidate, y)
    BY <1>1 DEF preference_slack, NumericKind
  <1>3. evaluate_mandatory(c, candidate, x) = evaluate_mandatory(c, candidate, y)
    BY MandatoryReads
  <1> QED
    BY <1>2, <1>3 DEF preference_slot

\* Contexts that differ in generations a definition does not consult.
Alike(set, ctx, alt) ==
    /\ ctx.max_age = alt.max_age /\ ctx.now_tick = alt.now_tick
    /\ ctx.requested_generation = alt.requested_generation
    /\ ctx.authority_verified = alt.authority_verified
    /\ ctx.provenance_complete = alt.provenance_complete
    /\ Agree(consulted(set), ctx.current, alt.current)

\* The stages before the constraints look at consulted families only.
LEMMA GateReads ==
    ASSUME NEW set, NEW ctx, NEW alt, Alike(set, ctx, alt), NEW candidate
    PROVE  gate_reasons(set, ctx, candidate) = gate_reasons(set, alt, candidate)
  <1>1. structure_reasons(set, ctx, candidate) = structure_reasons(set, alt, candidate)
    BY DEF structure_reasons
  <1>2. authority_context_reasons(ctx) = authority_context_reasons(alt)
    BY DEF Alike, authority_context_reasons
  <1>3. lifecycle_reasons(set, ctx) = lifecycle_reasons(set, alt)
    BY DEF Alike, lifecycle_reasons
  <1>4. ctx.current["PathAuthority"] = alt.current["PathAuthority"]
    <2>1. "PathAuthority" \in consulted(set)
      <3> DEFINE own == UNION {families_of(set.constraints[i]) : i \in DOMAIN set.constraints}
                 ranking == IF set.ranking.consume_planner_cost THEN {"Planner"} ELSE {}
      <3>1. consulted(set) = own \cup {"PathAuthority"} \cup ranking
        BY DEF consulted
      <3> HIDE DEF own, ranking
      <3> QED
        BY <3>1
    <2> QED
      BY <2>1 DEF Alike, Agree
  <1>5. path_authority_reasons(ctx, candidate) = path_authority_reasons(alt, candidate)
    BY <1>4 DEF path_authority_reasons
  <1>6. \A f : family_currentness(set, ctx, candidate, f) = family_currentness(set, alt, candidate, f)
    BY DEF Alike, Agree, family_currentness
  <1>7. too_old(ctx, candidate) = too_old(alt, candidate)
    BY DEF Alike, too_old
  <1>8. currentness_reasons(set, ctx, candidate) = currentness_reasons(set, alt, candidate)
    <2> DEFINE Stale(x) == [i \in DOMAIN EvidenceFamilies |->
                   UnlessNone(family_currentness(set, x, candidate, EvidenceFamilies[i]), i + 1,
                              PathSubject(candidate))]
    <2>1. Stale(ctx) = Stale(alt)
      BY <1>6
    <2> QED
      BY <1>7, <2>1 DEF currentness_reasons
  <1> QED
    BY <1>1, <1>2, <1>3, <1>5, <1>8 DEF gate_reasons

\* A set that passes verification has constraints of known kinds, each of which
\* consults no more than the set.
LEMMA VerifiedKinds ==
    ASSUME NEW set, NEW ctx, NEW candidate, structure_reasons(set, ctx, candidate) = <<>>,
           NEW i \in DOMAIN set.constraints
    PROVE  /\ set.constraints[i].kind \in ToSet(Kinds)
           /\ families_of(set.constraints[i]) \subseteq consulted(set)
  <1>1. Unbound("TooManyConstraints", 0, SetSubject) # <<>>
    BY DEF Unbound
  <1>2. ~(Len(set.constraints) > max_constraints_per_set)
    BY <1>1 DEF structure_reasons
  <1>3. verify_canonical_constraint_set(set)
    <2> SUFFICES ASSUME ~verify_canonical_constraint_set(set) PROVE FALSE
      OBVIOUS
    <2> DEFINE first == Unbound("MalformedConstraint", 0, SetSubject)
               second == UnlessNone(validate_candidate(candidate), 0, PathSubject(candidate))
    <2>1. structure_reasons(set, ctx, candidate) = first \o second
      BY <1>2 DEF structure_reasons
    <2>2. \E r : first = <<r>>
      BY DEF Unbound
    <2>3. second = <<>> \/ \E r : second = <<r>>
      BY DEF UnlessNone, Unbound
    <2> HIDE DEF first, second
    <2>4. Len(first \o second) # 0
      BY <2>2, <2>3
    <2> QED
      BY <2>1, <2>4
  <1>4. set.constraints[i].kind \in ToSet(Kinds)
    BY <1>3 DEF verify_canonical_constraint_set, validate_constraint
  <1>5. families_of(set.constraints[i]) \subseteq consulted(set)
    BY DEF consulted
  <1> QED
    BY <1>4, <1>5

\* A record depends on the families it reports as consulted.
LEMMA CandidateReads ==
    ASSUME NEW set, set.constraints \in Seq(Constraint),
           NEW ctx, NEW alt, Alike(set, ctx, alt), NEW candidate
    PROVE  evaluate_candidate(set, ctx, candidate) = evaluate_candidate(set, alt, candidate)
  <1> DEFINE gate == gate_reasons(set, ctx, candidate)
  <1>1. gate_reasons(set, alt, candidate) = gate
    BY GateReads
  <1>2. CASE gate # <<>>
    BY <1>1, <1>2 DEF evaluate_candidate, RecordOfGate
  <1>3. CASE gate = <<>>
    <2>1. structure_reasons(set, ctx, candidate) = <<>>
      BY <1>3 DEF gate_reasons, Unless
    <2>2. ASSUME NEW i \in DOMAIN set.constraints
          PROVE  /\ set.constraints[i].kind \in ToSet(Kinds)
                 /\ Agree(families_of(set.constraints[i]), ctx.current, alt.current)
      BY <2>1, VerifiedKinds DEF Alike, Agree
    <2>3. \A i \in DOMAIN set.constraints :
             evaluate_mandatory(set.constraints[i], candidate, ctx.current)
                = evaluate_mandatory(set.constraints[i], candidate, alt.current)
      BY <2>2, MandatoryReads
    <2>4. \A i \in DOMAIN set.constraints :
             evaluate_preference(set.constraints[i], i - 1, candidate, ctx.current)
                = evaluate_preference(set.constraints[i], i - 1, candidate, alt.current)
      BY <2>2, PreferenceReads DEF evaluate_preference
    <2>5. mandatory_reasons(set, ctx, candidate) = mandatory_reasons(set, alt, candidate)
      BY <2>3 DEF mandatory_reasons
    <2>6. evaluate_preferences(set, ctx, candidate) = evaluate_preferences(set, alt, candidate)
      <3> DEFINE order == PreferenceOrder(set)
                 n == Cardinality(Scoped(set, "Preference"))
                 Slots(x) == [k \in 1..n |->
                    evaluate_preference(set.constraints[order[k]], order[k] - 1, candidate, x.current)]
      <3>1. Scoped(set, "Preference") \subseteq DOMAIN set.constraints
        BY DEF Scoped
      <3>2. order \in [1..n -> Scoped(set, "Preference")]
        BY PreferenceOrderIs
      <3>3. \A k \in 1..n : order[k] \in DOMAIN set.constraints
        BY <3>1, <3>2
      <3> HIDE DEF order, n
      <3>4. Slots(ctx) = Slots(alt)
        BY <2>4, <3>3
      <3>5. /\ evaluate_preferences(set, ctx, candidate) = Slots(ctx)
            /\ evaluate_preferences(set, alt, candidate) = Slots(alt)
        BY PreferencesAre DEF order, n
      <3> QED
        BY <3>4, <3>5
    <2>7. \A failed : RecordOfChecks(set, ctx, candidate, failed)
                         = RecordOfChecks(set, alt, candidate, failed)
      BY <2>6 DEF RecordOfChecks
    <2> QED
      BY <1>1, <1>3, <2>5, <2>7 DEF evaluate_candidate, RecordOfGate
  <1> QED
    BY <1>2, <1>3

\* So does the answer to a population.
LEMMA BatchReads ==
    ASSUME NEW set, set.constraints \in Seq(Constraint),
           NEW ctx, NEW alt, Alike(set, ctx, alt), NEW candidates
    PROVE  evaluate_batch(set, ctx, candidates) = evaluate_batch(set, alt, candidates)
  <1>1. ASSUME NEW canonical
        PROVE  EvaluateCanonical(set, ctx, canonical) = EvaluateCanonical(set, alt, canonical)
    <2> DEFINE Records(x) == [i \in DOMAIN canonical |-> evaluate_candidate(set, x, canonical[i])]
    <2>1. Records(ctx) = Records(alt)
      BY CandidateReads
    <2> QED
      BY <2>1 DEF EvaluateCanonical
  <1> QED
    BY <1>1 DEF evaluate_batch

-----------------------------------------------------------------------------
(* Calls *)

\* The answer in a call is that of its inputs.
CallInv ==
    call # None =>
        /\ definition # None /\ definition.ok
        /\ call.ctx \in Context /\ call.candidates \in Population
        /\ call.batch = evaluate_batch(definition.set, call.ctx, call.candidates)

\* An answer in progress belongs to the definition it was computed from.
THEOREM AnswersAreOfTheirCall == Spec => []CallInv
  <1>1. Init => CallInv
    BY DEF Init, CallInv
  <1>2. CallInv /\ [Next]_vars => CallInv'
    <2> SUFFICES ASSUME CallInv, [Next]_vars PROVE CallInv'
      OBVIOUS
    <2>1. ASSUME NEW submission \in Submission, Submit(submission) PROVE CallInv'
      BY <2>1 DEF Submit, CallInv
    <2>2. ASSUME NEW ctx \in Context, NEW candidates \in Population, Evaluate(ctx, candidates)
          PROVE  CallInv'
      BY <2>2 DEF Evaluate, CallInv
    <2>3. CASE Return \/ Withdraw \/ UNCHANGED vars
      BY <2>3 DEF Return, Withdraw, vars, CallInv
    <2> QED
      BY <2>1, <2>2, <2>3 DEF Next
  <1> QED
    BY <1>1, <1>2, PTL DEF Spec

\* The definition a call is evaluated against is an accepted one, of the
\* generation and in the state it was given.
LEMMA EvaluatedSetIs ==
    ASSUME CallInv, DefinitionInv, call # None
    PROVE  LET set == definition.set
               raw == definition.raw
           IN /\ raw \in Undigested /\ canonicalizable(raw)
              /\ set.constraints = canonical_constraints(Listed(raw.constraints))
              /\ set.constraints \in Seq(Constraint)
              /\ detect_contradictions(set.constraints) = {}
              /\ set.digest = <<raw.generation, set.constraints, raw.ranking>>
              /\ set.ranking = raw.ranking /\ set.generation \in Nat
  <1>1. definition # None /\ definition.ok
    BY DEF CallInv
  <1>2. PICK submission \in Submission : definition = Outcome(submission)
    BY <1>1 DEF DefinitionInv
  <1> DEFINE raw == submission.raw
             q == canonical_constraints(Listed(raw.constraints))
             stored == Stored(raw, submission.state, submission.assigned)
  <1>3. /\ raw \in Undigested /\ definition.raw = raw
        /\ canonicalizable(raw) /\ detect_contradictions(q) = {}
        /\ definition.set = stored
    BY <1>1, <1>2, OutcomeIs
  <1>4. /\ stored.generation = submission.assigned
        /\ stored.constraints = q /\ stored.ranking = raw.ranking
        /\ stored.digest = <<raw.generation, q, raw.ranking>>
    BY StoredIs
  <1>5. submission.assigned \in Nat
    BY SubmissionAssumption
  <1>6. q \in Seq(Constraint)
    BY <1>3, CanonicalForm
  <1> HIDE DEF raw, q, stored
  <1>7. /\ definition.raw = raw /\ definition.set.constraints = q
        /\ q = canonical_constraints(Listed(raw.constraints))
    BY <1>3, <1>4 DEF q
  <1> QED
    BY <1>3, <1>4, <1>5, <1>6, <1>7

\* Advancing a family that a record does not report as consulted changes no
\* answer: the reverse index, which invalidates only what consulted the family,
\* leaves no result current that evaluate_candidate would now decide otherwise.
THEOREM OnlyConsultedMatters == Spec => []UnconsultedIsIrrelevant
  <1>1. CallInv /\ DefinitionInv => UnconsultedIsIrrelevant
    <2> SUFFICES ASSUME CallInv, DefinitionInv, call # None, NEW alt \in Context,
                        [alt EXCEPT !.current = call.ctx.current] = call.ctx,
                        \A f \in consulted(definition.set) : alt.current[f] = call.ctx.current[f]
                 PROVE  evaluate_batch(definition.set, alt, call.candidates) = call.batch
      BY DEF UnconsultedIsIrrelevant
    <2>1. alt \in ContextType
      BY ContextAssumption
    <2>2. Alike(definition.set, call.ctx, alt)
      BY <2>1 DEF Alike, Agree, ContextType
    <2>3. definition.set.constraints \in Seq(Constraint)
      BY EvaluatedSetIs
    <2> QED
      BY <2>2, <2>3, BatchReads DEF CallInv
  <1> QED
    BY <1>1, AnswersAreOfTheirCall, DefinitionsAreSubmitted, PTL

-----------------------------------------------------------------------------
(* Contradictions *)

\* A well-formed candidate has a node, and a link between each two.
LEMMA WellFormed ==
    ASSUME NEW candidate, NEW Node, candidate.nodes \in Seq(Node),
           NEW Link, candidate.links \in Seq(Link), validate_candidate(candidate) = "None"
    PROVE  /\ Len(candidate.nodes) \in Nat /\ Len(candidate.nodes) >= 2
           /\ Len(candidate.links) = Len(candidate.nodes) - 1
           /\ \E n : n \in ToSet(candidate.nodes)
  <1>1. Len(candidate.nodes) \in Nat /\ DOMAIN candidate.nodes = 1..Len(candidate.nodes)
    BY LenProperties
  <1>2. ~(Len(candidate.nodes) < 2) /\ Len(candidate.links) = Len(candidate.nodes) - 1
    BY DEF validate_candidate
  <1>3. candidate.nodes[1] \in ToSet(candidate.nodes)
    BY <1>1, <1>2 DEF ToSet
  <1> QED
    BY <1>1, <1>2, <1>3

\* The constraints x is about, among those of s.
Involved(s, x) ==
    {c \in ToSet(s) : \/ c.id \in {x.first, x.second}
                      \/ x.kind = "MaxHopCount" /\ c.kind = "RequiredNode"}

\* What an irreconcilable contradiction says of the constraints it names.
LEMMA ContradictionIs ==
    ASSUME NEW s, NEW x \in detect_contradictions(s), x.kind \in Irreconcilable
    PROVE  \/ \E c, d \in Involved(s, x) :
                \/ /\ ToSet(items(c)) \cap ToSet(items(d)) # {}
                   /\ \/ c.kind = "RequiredNode" /\ d.kind = "ForbiddenNode"
                      \/ c.kind = "RequiredLink" /\ d.kind = "ForbiddenLink"
                      \/ c.kind = "RequiredCapability" /\ d.kind = "ForbiddenCapability"
                \/ /\ c.kind = "LocalityScope" /\ d.kind = "LocalityScope"
                   /\ c.domain_kind = d.domain_kind /\ c.locality_domain # d.locality_domain
                \/ /\ c.kind = "RequiredFailureDomainRelation"
                   /\ d.kind = "ForbiddenFailureDomainRelation"
                   /\ c.domain_kind = d.domain_kind
                   /\ d.relation = "Distinct" /\ d.bound <= c.bound
           \/ /\ x.kind = "MaxHopCount"
              /\ \E c \in Involved(s, x) :
                    /\ c.kind = "MaxHopCount"
                    /\ Cardinality(RequiredNodes(s)) - 1 > c.bound
  <1> DEFINE Same(required, forbidden) ==
               \E i, j \in DOMAIN s :
                  /\ s[i].kind = required /\ s[j].kind = forbidden
                  /\ x = Contradiction(required, s[i].id, s[j].id)
                  /\ ToSet(items(s[i])) \cap ToSet(items(s[j])) # {}
             Scopes ==
               \E i, j \in DOMAIN s :
                  /\ s[i].kind = "LocalityScope" /\ s[j].kind = "LocalityScope"
                  /\ x = Contradiction("LocalityScope", s[i].id, s[j].id)
                  /\ s[i].domain_kind = s[j].domain_kind
                  /\ s[i].locality_domain # s[j].locality_domain
             Relations ==
               \E i, j \in DOMAIN s :
                  /\ s[i].kind = "RequiredFailureDomainRelation"
                  /\ s[j].kind = "ForbiddenFailureDomainRelation"
                  /\ x = Contradiction("Distinct", s[i].id, s[j].id)
                  /\ s[i].domain_kind = s[j].domain_kind
                  /\ s[j].relation = "Distinct" /\ s[j].bound <= s[i].bound
             Budget ==
               \E i \in DOMAIN s :
                  /\ s[i].kind = "MaxHopCount" /\ x = Contradiction("MaxHopCount", s[i].id, 0)
                  /\ Cardinality(RequiredNodes(s)) - 1 > s[i].bound
             Other ==
               x.kind \in {"RequiredTier", "RequiredSite", "IsolationClass", "Shared"}
  <1>1. ASSUME NEW required, NEW forbidden,
               x \in add_same_entity_contradictions(s, required, forbidden)
        PROVE  Same(required, forbidden) /\ x.kind = required
    BY <1>1 DEF add_same_entity_contradictions, bucket_of, Contradiction
  <1>2. \/ Same("RequiredNode", "ForbiddenNode") \/ Same("RequiredLink", "ForbiddenLink")
        \/ Same("RequiredCapability", "ForbiddenCapability")
        \/ Scopes \/ Relations \/ Budget \/ Other
    <2>1. CASE x \in PairContradictions(s, "LocalityScope",
                 LAMBDA a, b : a.domain_kind = b.domain_kind
                               /\ a.locality_domain # b.locality_domain)
      BY <2>1 DEF PairContradictions, bucket_of
    <2>2. CASE x \in PairContradictions(s, "IsolationClass",
                 LAMBDA a, b : a.isolation_class # b.isolation_class)
      BY <2>2 DEF PairContradictions, Contradiction
    <2>3. CASE x \in RelationContradictions(s, "Shared", LAMBDA r, f : r.bound >= 2)
      BY <2>3 DEF RelationContradictions, Contradiction
    <2>4. CASE x \in RelationContradictions(s, "Distinct", LAMBDA r, f : f.bound <= r.bound)
      BY <2>4 DEF RelationContradictions, bucket_of
    <2>5. CASE x \in hop_budget_contradictions(s)
      BY <2>5 DEF hop_budget_contradictions, bucket_of
    <2>6. CASE \/ x \in add_same_entity_contradictions(s, "RequiredTier", "ForbiddenTier")
               \/ x \in add_same_entity_contradictions(s, "RequiredSite", "ForbiddenSite")
      BY <1>1, <2>6
    <2>7. CASE \/ x \in add_same_entity_contradictions(s, "RequiredNode", "ForbiddenNode")
               \/ x \in add_same_entity_contradictions(s, "RequiredLink", "ForbiddenLink")
               \/ x \in add_same_entity_contradictions(s, "RequiredCapability", "ForbiddenCapability")
      BY <1>1, <2>7
    <2> QED
      BY <2>1, <2>2, <2>3, <2>4, <2>5, <2>6, <2>7 DEF detect_contradictions
  <1>3. ASSUME NEW i \in DOMAIN s, s[i].id \in {x.first, x.second} PROVE s[i] \in Involved(s, x)
    BY <1>3 DEF Involved, ToSet
  <1>4. ASSUME NEW required, NEW forbidden, Same(required, forbidden)
        PROVE  \E c, d \in Involved(s, x) :
                  /\ c.kind = required /\ d.kind = forbidden
                  /\ ToSet(items(c)) \cap ToSet(items(d)) # {}
    <2>1. PICK i \in DOMAIN s, j \in DOMAIN s :
            /\ s[i].kind = required /\ s[j].kind = forbidden
            /\ x = Contradiction(required, s[i].id, s[j].id)
            /\ ToSet(items(s[i])) \cap ToSet(items(s[j])) # {}
      BY <1>4
    <2>2. s[i] \in Involved(s, x) /\ s[j] \in Involved(s, x)
      BY <1>3, <2>1 DEF Contradiction
    <2> QED
      BY <2>1, <2>2
  <1>5. CASE Same("RequiredNode", "ForbiddenNode")
    <2>1. PICK c \in Involved(s, x), d \in Involved(s, x) :
            /\ c.kind = "RequiredNode" /\ d.kind = "ForbiddenNode"
            /\ ToSet(items(c)) \cap ToSet(items(d)) # {}
      BY <1>4, <1>5
    <2> QED
      BY <2>1
  <1>6. CASE Same("RequiredLink", "ForbiddenLink")
    <2>1. PICK c \in Involved(s, x), d \in Involved(s, x) :
            /\ c.kind = "RequiredLink" /\ d.kind = "ForbiddenLink"
            /\ ToSet(items(c)) \cap ToSet(items(d)) # {}
      BY <1>4, <1>6
    <2> QED
      BY <2>1
  <1>7. CASE Same("RequiredCapability", "ForbiddenCapability")
    <2>1. PICK c \in Involved(s, x), d \in Involved(s, x) :
            /\ c.kind = "RequiredCapability" /\ d.kind = "ForbiddenCapability"
            /\ ToSet(items(c)) \cap ToSet(items(d)) # {}
      BY <1>4, <1>7
    <2> QED
      BY <2>1
  <1>8. CASE Scopes
    <2>1. PICK i \in DOMAIN s, j \in DOMAIN s :
            /\ s[i].kind = "LocalityScope" /\ s[j].kind = "LocalityScope"
            /\ x = Contradiction("LocalityScope", s[i].id, s[j].id)
            /\ s[i].domain_kind = s[j].domain_kind /\ s[i].locality_domain # s[j].locality_domain
      BY <1>8
    <2>2. s[i] \in Involved(s, x) /\ s[j] \in Involved(s, x)
      BY <1>3, <2>1 DEF Contradiction
    <2> QED
      BY <2>1, <2>2
  <1>9. CASE Relations
    <2>1. PICK i \in DOMAIN s, j \in DOMAIN s :
            /\ s[i].kind = "RequiredFailureDomainRelation"
            /\ s[j].kind = "ForbiddenFailureDomainRelation"
            /\ x = Contradiction("Distinct", s[i].id, s[j].id)
            /\ s[i].domain_kind = s[j].domain_kind
            /\ s[j].relation = "Distinct" /\ s[j].bound <= s[i].bound
      BY <1>9
    <2>2. s[i] \in Involved(s, x) /\ s[j] \in Involved(s, x)
      BY <1>3, <2>1 DEF Contradiction
    <2> QED
      BY <2>1, <2>2
  <1>10. CASE Budget
    <2>1. PICK i \in DOMAIN s :
            /\ s[i].kind = "MaxHopCount" /\ x = Contradiction("MaxHopCount", s[i].id, 0)
            /\ Cardinality(RequiredNodes(s)) - 1 > s[i].bound
      BY <1>10
    <2>2. s[i] \in Involved(s, x) /\ x.kind = "MaxHopCount"
      BY <1>3, <2>1 DEF Contradiction
    <2> QED
      BY <2>1, <2>2
  <1>11. ~Other
    BY DEF Irreconcilable
  <1> HIDE DEF Same, Scopes, Relations, Budget, Other
  <1> QED
    BY <1>2, <1>5, <1>6, <1>7, <1>8, <1>9, <1>10, <1>11

\* What Satisfies says for the kinds an irreconcilable contradiction is about.
LEMMA SatisfiesIs ==
    ASSUME NEW c, NEW candidate, NEW current, Satisfies(c, candidate, current)
    PROVE  LET nodes == ToSet(candidate.nodes)
               links == ToSet(candidate.links)
               wanted == ToSet(items(c))
           IN /\ c.kind = "RequiredNode" => wanted \subseteq {n.node : n \in nodes}
              /\ c.kind = "ForbiddenNode" => wanted \cap {n.node : n \in nodes} = {}
              /\ c.kind = "RequiredLink" => wanted \subseteq {l.link : l \in links}
              /\ c.kind = "ForbiddenLink" => wanted \cap {l.link : l \in links} = {}
              /\ c.kind = "RequiredCapability" =>
                   \A e \in nodes, w \in wanted : find(e.capabilities, w) = current["Capability"]
              /\ c.kind = "ForbiddenCapability" =>
                   \A e \in nodes : wanted \cap {r[1] : r \in e.capabilities} = {}
              /\ c.kind = "LocalityScope" =>
                   \A n \in nodes : find(n.localities, c.domain_kind) = c.locality_domain
              /\ c.kind = "MaxHopCount" => Len(candidate.links) <= c.bound
  <1>1. \A k \in {"RequiredNode", "ForbiddenNode", "RequiredLink", "ForbiddenLink",
                  "RequiredCapability", "ForbiddenCapability"} : k \in DOMAIN ListOf
    BY DEF ListOf
  <1>2. CASE c.kind = "RequiredNode"
    BY <1>1, <1>2 DEF Satisfies
  <1>3. CASE c.kind = "ForbiddenNode"
    BY <1>1, <1>3 DEF Satisfies
  <1>4. CASE c.kind = "RequiredLink"
    BY <1>1, <1>4 DEF Satisfies
  <1>5. CASE c.kind = "ForbiddenLink"
    BY <1>1, <1>5 DEF Satisfies
  <1>6. CASE c.kind = "RequiredCapability"
    BY <1>1, <1>6 DEF Satisfies
  <1>7. CASE c.kind = "ForbiddenCapability"
    BY <1>1, <1>7 DEF Satisfies
  <1>8. CASE c.kind = "LocalityScope"
    BY <1>8 DEF Satisfies
  <1>9. CASE c.kind = "MaxHopCount"
    BY <1>9 DEF Satisfies
  <1> QED
    BY <1>2, <1>3, <1>4, <1>5, <1>6, <1>7, <1>8, <1>9

\* The domains of a kind that a path runs through.
Domains(candidate, kind) ==
    {find(e.domains, kind) : e \in ToSet(candidate.nodes) \cup ToSet(candidate.links)} \ {NoRef}

LEMMA RelationIs ==
    ASSUME NEW c, NEW candidate, NEW current, Satisfies(c, candidate, current)
    PROVE  /\ c.kind = "RequiredFailureDomainRelation" =>
                Cardinality(Domains(candidate, c.domain_kind)) >= c.bound
           /\ c.kind = "ForbiddenFailureDomainRelation" /\ c.relation = "Distinct" =>
                Cardinality(Domains(candidate, c.domain_kind)) < c.bound
  <1> DEFINE entities == ToSet(candidate.nodes) \cup ToSet(candidate.links)
             domain == [e \in entities |-> find(e.domains, c.domain_kind)]
  <1>1. {domain[e] : e \in entities} \ {NoRef} = Domains(candidate, c.domain_kind)
    BY DEF Domains
  <1>2. CASE c.kind = "RequiredFailureDomainRelation"
    <2>1. Cardinality({domain[e] : e \in entities} \ {NoRef}) >= c.bound
      BY <1>2 DEF Satisfies
    <2> QED
      BY <1>1, <1>2, <2>1
  <1>3. CASE c.kind = "ForbiddenFailureDomainRelation" /\ c.relation = "Distinct"
    <2>1. Cardinality({domain[e] : e \in entities} \ {NoRef}) < c.bound
      BY <1>3 DEF Satisfies
    <2> QED
      BY <1>1, <1>3, <2>1
  <1> QED
    BY <1>2, <1>3

\* The elements of a sequence are finitely many, no more than its length.
LEMMA ElementsAreFinite ==
    ASSUME NEW S, NEW q \in Seq(S)
    PROVE  /\ IsFiniteSet(ToSet(q)) /\ Cardinality(ToSet(q)) <= Len(q)
           /\ Cardinality(ToSet(q)) \in Nat /\ Len(q) \in Nat
  <1>1. Len(q) \in Nat /\ DOMAIN q = 1..Len(q)
    BY LenProperties
  <1>2. IsFiniteSet(1..Len(q)) /\ Cardinality(1..Len(q)) = Len(q)
    <2>1. IsFiniteSet(1..Len(q)) /\ Cardinality(1..Len(q)) = IF 1 > Len(q) THEN 0 ELSE Len(q) - 1 + 1
      BY <1>1, FS_Interval
    <2> QED
      BY <1>1, <2>1
  <1>3. q \in Surjection(1..Len(q), ToSet(q))
    BY <1>1 DEF ToSet, Surjection
  <1>4. IsFiniteSet(ToSet(q)) /\ Cardinality(ToSet(q)) <= Cardinality(1..Len(q))
    BY <1>2, <1>3, FS_Surjection
  <1> QED
    BY <1>1, <1>2, <1>4, FS_CardinalityType

LEMMA DomainsAreFinite ==
    ASSUME NEW candidate, NEW kind, NEW Node, candidate.nodes \in Seq(Node),
           NEW Link, candidate.links \in Seq(Link)
    PROVE  Cardinality(Domains(candidate, kind)) \in Nat
  <1> DEFINE entities == ToSet(candidate.nodes) \cup ToSet(candidate.links)
             all == {find(e.domains, kind) : e \in entities}
             image == [e \in entities |-> find(e.domains, kind)]
  <1>1. IsFiniteSet(ToSet(candidate.nodes)) /\ IsFiniteSet(ToSet(candidate.links))
    BY ElementsAreFinite
  <1>2. IsFiniteSet(entities)
    BY <1>1, FS_Union
  <1>3. image \in Surjection(entities, all)
    BY DEF Surjection
  <1>4. IsFiniteSet(all)
    BY <1>2, <1>3, FS_Surjection
  <1>5. Domains(candidate, kind) \subseteq all
    BY DEF Domains
  <1>6. IsFiniteSet(Domains(candidate, kind))
    BY <1>4, <1>5, FS_Subset
  <1> QED
    BY <1>6, FS_CardinalityType

\* A contradiction a definition is refused for is real: no well-formed candidate,
\* whatever its evidence and whatever is current, satisfies the constraints it
\* names.  detect_contradictions never refuses what evaluate_mandatory could
\* have passed.
THEOREM ContradictionsExclude ==
    ASSUME NEW s, \A i \in DOMAIN s : s[i].bound \in Int,
           NEW x \in detect_contradictions(s), x.kind \in Irreconcilable,
           NEW candidate, NEW Node, candidate.nodes \in Seq(Node),
           NEW Link, candidate.links \in Seq(Link),
           validate_candidate(candidate) = "None",
           NEW ctx \in Context
    PROVE  \E c \in Involved(s, x) : ~Satisfies(c, candidate, ctx.current)
  <1> SUFFICES ASSUME \A c \in Involved(s, x) : Satisfies(c, candidate, ctx.current)
               PROVE  FALSE
    OBVIOUS
  <1> DEFINE nodes == ToSet(candidate.nodes)
             named == {n.node : n \in nodes}
  <1>1. ctx.current["Capability"] \in Nat
    BY ContextAssumption DEF ContextType, Family
  <1>2. PICK n : n \in nodes
    BY WellFormed
  <1>3. \A c \in Involved(s, x) : c.bound \in Int
    BY DEF Involved, ToSet
  <1>4. ASSUME NEW c \in Involved(s, x), NEW d \in Involved(s, x),
               ToSet(items(c)) \cap ToSet(items(d)) # {}
        PROVE  /\ ~(c.kind = "RequiredNode" /\ d.kind = "ForbiddenNode")
               /\ ~(c.kind = "RequiredLink" /\ d.kind = "ForbiddenLink")
               /\ ~(c.kind = "RequiredCapability" /\ d.kind = "ForbiddenCapability")
    <2> PICK w : w \in ToSet(items(c)) /\ w \in ToSet(items(d))
      BY <1>4
    <2>1. Satisfies(c, candidate, ctx.current) /\ Satisfies(d, candidate, ctx.current)
      OBVIOUS
    <2>2. ~(c.kind = "RequiredNode" /\ d.kind = "ForbiddenNode")
      BY <2>1, SatisfiesIs
    <2>3. ~(c.kind = "RequiredLink" /\ d.kind = "ForbiddenLink")
      BY <2>1, SatisfiesIs
    <2>4. ASSUME c.kind = "RequiredCapability", d.kind = "ForbiddenCapability" PROVE FALSE
      <3>1. find(n.capabilities, w) = ctx.current["Capability"]
        BY <1>2, <2>1, <2>4, SatisfiesIs
      <3>2. w \notin {r[1] : r \in n.capabilities}
        BY <1>2, <2>1, <2>4, SatisfiesIs
      <3>3. find(n.capabilities, w) = NoRef
        BY <3>2 DEF find
      <3> QED
        BY <1>1, <3>1, <3>3 DEF NoRef
    <2> QED
      BY <2>2, <2>3, <2>4
  <1>5. ASSUME NEW c \in Involved(s, x), NEW d \in Involved(s, x),
               c.kind = "LocalityScope", d.kind = "LocalityScope", c.domain_kind = d.domain_kind
        PROVE  c.locality_domain = d.locality_domain
    <2>1. Satisfies(c, candidate, ctx.current) /\ Satisfies(d, candidate, ctx.current)
      OBVIOUS
    <2>2. find(n.localities, c.domain_kind) = c.locality_domain
      BY <1>2, <1>5, <2>1, SatisfiesIs
    <2>3. find(n.localities, d.domain_kind) = d.locality_domain
      BY <1>2, <1>5, <2>1, SatisfiesIs
    <2> QED
      BY <1>5, <2>2, <2>3
  <1>6. ASSUME NEW c \in Involved(s, x), NEW d \in Involved(s, x),
               c.kind = "RequiredFailureDomainRelation",
               d.kind = "ForbiddenFailureDomainRelation",
               c.domain_kind = d.domain_kind, d.relation = "Distinct"
        PROVE  ~(d.bound <= c.bound)
    <2>1. Satisfies(c, candidate, ctx.current) /\ Satisfies(d, candidate, ctx.current)
      OBVIOUS
    <2>2. PICK n0 \in Nat : n0 = Cardinality(Domains(candidate, c.domain_kind))
      BY DomainsAreFinite
    <2>3. n0 >= c.bound
      BY <1>6, <2>1, <2>2, RelationIs
    <2>4. n0 < d.bound
      BY <1>6, <2>1, <2>2, RelationIs
    <2> QED
      BY <1>3, <2>3, <2>4
  <1>7. ASSUME NEW c \in Involved(s, x), c.kind = "MaxHopCount", x.kind = "MaxHopCount"
        PROVE  ~(Cardinality(RequiredNodes(s)) - 1 > c.bound)
    <2> DEFINE names == [i \in DOMAIN candidate.nodes |-> candidate.nodes[i].node]
    <2>1. RequiredNodes(s) \subseteq named
      <3> SUFFICES ASSUME NEW i \in bucket_of(s, "RequiredNode") PROVE ToSet(items(s[i])) \subseteq named
        BY DEF RequiredNodes
      <3>1. i \in DOMAIN s /\ s[i].kind = "RequiredNode"
        BY DEF bucket_of
      <3>2. s[i] \in Involved(s, x)
        BY <1>7, <3>1 DEF Involved, ToSet
      <3> QED
        BY <3>1, <3>2, SatisfiesIs
    <2>2. Len(candidate.nodes) \in Nat /\ DOMAIN candidate.nodes = 1..Len(candidate.nodes)
      BY LenProperties
    <2>3. names \in Seq(named) /\ Len(names) = Len(candidate.nodes) /\ ToSet(names) = named
      <3>1. \A i \in DOMAIN candidate.nodes : names[i] \in named
        BY DEF ToSet
      <3>2. names \in [1..Len(candidate.nodes) -> named]
        BY <2>2, <3>1
      <3>3. names \in Seq(named) /\ Len(names) = Len(candidate.nodes)
        BY <2>2, <3>2
      <3>4. ToSet(names) = named
        BY <2>2 DEF ToSet
      <3> QED
        BY <3>3, <3>4
    <2>4. IsFiniteSet(named) /\ Cardinality(named) <= Len(candidate.nodes)
      BY <2>3, ElementsAreFinite
    <2>5. Cardinality(RequiredNodes(s)) \in Nat /\ Cardinality(named) \in Nat
            /\ Cardinality(RequiredNodes(s)) <= Cardinality(named)
      BY <2>1, <2>4, FS_Subset, FS_CardinalityType
    <2>6. Len(candidate.links) <= c.bound
      BY <1>7, SatisfiesIs
    <2>7. Len(candidate.links) = Len(candidate.nodes) - 1
      BY WellFormed
    <2> HIDE DEF named, names
    <2> QED
      BY <1>3, <2>2, <2>4, <2>5, <2>6, <2>7
  <1> QED
    BY ContradictionIs, <1>4, <1>5, <1>6, <1>7

\* The entities a constraint is about, as Satisfies has them.
Wanted(c) == IF c.kind \in DOMAIN ListOf THEN ToSet(items(c)) ELSE {}

LEMMA RelistedWants ==
    ASSUME NEW c, NEW d, Relisted(c, d)
    PROVE  /\ Wanted(d) = Wanted(c)
           /\ d.id = c.id /\ d.kind = c.kind /\ d.unknown_policy = c.unknown_policy /\ d.bound = c.bound
           /\ d.latency_source = c.latency_source /\ d.domain_kind = c.domain_kind
           /\ d.relation = c.relation /\ d.locality_domain = c.locality_domain
           /\ d.isolation_class = c.isolation_class /\ d.scope = c.scope
  <1>1. /\ c \in Constraint /\ d \in Constraint /\ d = [c EXCEPT !.lists = d.lists]
        /\ \A l \in ToSet(ListNames) : ToSet(d.lists[l]) = ToSet(c.lists[l])
    BY DEF Relisted
  <1>2. /\ d.id = c.id /\ d.kind = c.kind /\ d.unknown_policy = c.unknown_policy /\ d.bound = c.bound
        /\ d.latency_source = c.latency_source /\ d.domain_kind = c.domain_kind
        /\ d.relation = c.relation /\ d.locality_domain = c.locality_domain
        /\ d.isolation_class = c.isolation_class /\ d.scope = c.scope
    BY <1>1 DEF Constraint
  <1>3. \A k \in DOMAIN ListOf : ListOf[k] \in ToSet(ListNames)
    <2>1. \A l \in {"nodes", "links", "tiers", "sites", "capabilities", "policies"} :
             l \in ToSet(ListNames)
      BY DEF ListNames, ToSet
    <2>2. \A k \in DOMAIN ListOf :
             ListOf[k] \in {"nodes", "links", "tiers", "sites", "capabilities", "policies"}
      BY DEF ListOf
    <2> QED
      BY <2>1, <2>2
  <1>4. Wanted(d) = Wanted(c)
    BY <1>1, <1>2, <1>3 DEF Wanted, items
  <1> QED
    BY <1>2, <1>4

\* Whether a candidate satisfies a constraint does not depend on how its entities
\* are listed.
LEMMA RelistedSatisfies ==
    ASSUME NEW c, NEW d, Relisted(c, d), c.kind \in ToSet(Kinds), NEW candidate, NEW current
    PROVE  Satisfies(d, candidate, current) <=> Satisfies(c, candidate, current)
  <1>1. /\ Wanted(d) = Wanted(c)
        /\ d.kind = c.kind /\ d.unknown_policy = c.unknown_policy /\ d.bound = c.bound
        /\ d.latency_source = c.latency_source /\ d.domain_kind = c.domain_kind
        /\ d.relation = c.relation /\ d.locality_domain = c.locality_domain
        /\ d.isolation_class = c.isolation_class
    BY RelistedWants
  <1>2. Permits(d) <=> Permits(c)
    BY <1>1 DEF Permits
  <1>3. CASE c.kind \in {"MaxLatency", "MinBandwidthCapability", "MaxHopCount"}
    BY <1>1, <1>3 DEF Satisfies
  <1>4. CASE c.kind \in {"RequiredNode", "ForbiddenNode", "RequiredLink", "ForbiddenLink"}
    BY <1>1, <1>4 DEF Satisfies, Wanted
  <1>5. CASE c.kind \in {"RequiredTier", "RequiredSite", "RequiredCapability", "AdministrativePolicy"}
    BY <1>1, <1>5 DEF Satisfies, Wanted
  <1>6. CASE c.kind = "ForbiddenTier"
    BY <1>1, <1>2, <1>6 DEF Satisfies, Wanted
  <1>7. CASE c.kind = "ForbiddenSite"
    BY <1>1, <1>2, <1>7 DEF Satisfies, Wanted
  <1>8. CASE c.kind = "ForbiddenCapability"
    BY <1>1, <1>2, <1>8 DEF Satisfies, Wanted
  <1>9. CASE c.kind \in {"LocalityScope", "IsolationClass"}
    BY <1>1, <1>9 DEF Satisfies
  <1>10. CASE c.kind = "RequiredFailureDomainRelation"
    BY <1>1, <1>10 DEF Satisfies
  <1>11. CASE c.kind = "ForbiddenFailureDomainRelation"
    BY <1>1, <1>2, <1>11 DEF Satisfies
  <1> QED
    BY <1>3, <1>4, <1>5, <1>6, <1>7, <1>8, <1>9, <1>10, <1>11 DEF Kinds, ToSet

\* A definition refused for an irreconcilable contradiction is one that no
\* well-formed candidate of the caller satisfies, under any context: of the
\* constraints the contradiction names, as they were submitted, one fails.
THEOREM RefusalsAreReal == Spec => []ContradictionsAreReal
  <1>1. DefinitionInv => ContradictionsAreReal
    <2> SUFFICES ASSUME DefinitionInv, definition # None,
                        NEW x \in definition.contradictions, x.kind \in Irreconcilable,
                        NEW candidate \in Probe, NEW ctx \in Context,
                        validate_candidate(candidate) = "None"
                 PROVE  \E c \in Involved(definition.raw.constraints, x) :
                           ~Satisfies(c, candidate, ctx.current)
      BY DEF ContradictionsAreReal, Involved
    <2>1. PICK submission \in Submission : definition = Outcome(submission)
      BY DEF DefinitionInv
    <2> DEFINE raw == submission.raw
               s == raw.constraints
               q == canonical_constraints(Listed(s))
    <2>2. /\ raw \in Undigested /\ definition.raw = raw
          /\ definition.ok => definition.contradictions = {}
          /\ ~definition.ok =>
               definition.contradictions = IF canonicalizable(raw) THEN detect_contradictions(q) ELSE {}
      BY <2>1, OutcomeIs
    <2>3. canonicalizable(raw) /\ x \in detect_contradictions(q)
      BY <2>2
    <2>4. /\ q \in Seq(Constraint)
          /\ \A i \in 1..Len(q) : /\ validate_constraint(q[i])
                                  /\ \E k \in 1..Len(s) : q[i] = canonicalize_lists(s[k])
      BY <2>2, <2>3, CanonicalForm
    <2>5. s \in Seq(Constraint)
      BY <2>2 DEF Undigested
    <2> HIDE DEF s, q
    <2>6. DOMAIN q = 1..Len(q) /\ \A i \in 1..Len(q) : q[i] \in Constraint
      BY <2>4
    <2>7. \A i \in DOMAIN q : q[i].bound \in Int
      BY <2>6 DEF Constraint
    <2>8. candidate.nodes \in Seq(NodeFact) /\ candidate.links \in Seq(LinkFact)
      BY CandidateAssumption DEF CandidatePath
    <2>9. PICK c \in Involved(q, x) : ~Satisfies(c, candidate, ctx.current)
      BY <2>3, <2>7, <2>8, ContradictionsExclude
    <2>10. PICK i \in 1..Len(q) : c = q[i]
      BY <2>6 DEF Involved, ToSet
    <2>11. PICK k \in 1..Len(s) : c = canonicalize_lists(s[k])
      BY <2>4, <2>10
    <2>12. s[k] \in ToSet(s) /\ s[k] \in Constraint
      BY <2>5 DEF ToSet
    <2>13. Relisted(s[k], c)
      BY <2>11, <2>12, CanonicalLists
    <2>14. c.id = s[k].id /\ c.kind = s[k].kind /\ s[k].kind \in ToSet(Kinds)
      BY <2>4, <2>10, <2>13, RelistedWants DEF validate_constraint
    <2>15. ~Satisfies(s[k], candidate, ctx.current)
      BY <2>9, <2>13, <2>14, RelistedSatisfies
    <2>16. s[k] \in Involved(s, x)
      BY <2>12, <2>14 DEF Involved
    <2> QED
      BY <2>2, <2>15, <2>16 DEF s
  <1> QED
    BY <1>1, DefinitionsAreSubmitted, PTL

-----------------------------------------------------------------------------
(* Populations *)

\* The candidates a batch evaluates.
Kept(candidates) == drop_duplicates(canonical_population(candidates))

\* The population sorted by path.
LEMMA SortedPopulation ==
    ASSUME NEW candidates \in Seq(CandidatePath)
    PROVE  LET n == Len(candidates)
               q == canonical_population(candidates)
           IN /\ n \in Nat /\ DOMAIN candidates = 1..n /\ DOMAIN q = 1..n
              /\ \A i \in 1..n : q[i] \in CandidatePath /\ q[i].path \in Nat
              /\ \A i \in 1..n : \E k \in 1..n : q[i] = candidates[k]
              /\ \A k \in 1..n : \E i \in 1..n : q[i] = candidates[k]
              /\ \A i, j \in 1..n : i < j => q[i].path <= q[j].path
  <1> DEFINE n == Len(candidates)
             c == candidates
             path == [i \in 1..n |-> c[i].path]
             less == {ij \in (1..n) \X (1..n) : c[ij[1]].path < c[ij[2]].path}
             q == canonical_population(candidates)
             order == SortOrder(n, less)
  <1>1. n \in Nat /\ DOMAIN c = 1..n /\ \A i \in 1..n : c[i] \in CandidatePath
    OBVIOUS
  <1>2. \A i \in 1..n : c[i].path \in Nat /\ path[i] = c[i].path
    BY <1>1 DEF CandidatePath
  <1>3. q = Arranged(c, less)
    BY <1>1 DEF canonical_population, stable_sort
  <1>4. \A i, j \in 1..n : <<i, j>> \in less <=> path[i] < path[j]
    BY <1>2
  <1> HIDE DEF n, path, less, q
  <1>5. WeakOrder(1..n, less)
    <2>1. \A i \in 1..n : path[i] \in Nat
      BY <1>2
    <2> QED
      BY <1>4, <2>1 DEF WeakOrder
  <1>6. /\ order \in [1..n -> 1..n]
        /\ Arranged(c, less) = [k \in 1..n |-> c[order[k]]]
        /\ \A i \in 1..n : \E k \in 1..n : order[k] = i
        /\ \A j, k \in 1..n : j < k =>
              /\ order[j] # order[k]
              /\ <<order[k], order[j]>> \notin less
              /\ \/ <<order[j], order[k]>> \in less
                 \/ order[j] < order[k]
    BY <1>1, <1>5, ArrangedSorts, Zenon
  <1> HIDE DEF order
  <1>7. DOMAIN q = 1..n /\ \A k \in 1..n : order[k] \in 1..n /\ q[k] = c[order[k]]
    BY <1>3, <1>6
  <1>8. \A i \in 1..n : q[i] \in CandidatePath /\ q[i].path \in Nat /\ q[i].path = path[order[i]]
    BY <1>1, <1>2, <1>7
  <1>9. \A i, j \in 1..n : i < j => q[i].path <= q[j].path
    <2> SUFFICES ASSUME NEW i \in 1..n, NEW j \in 1..n, i < j PROVE q[i].path <= q[j].path
      OBVIOUS
    <2>1. order[i] \in 1..n /\ order[j] \in 1..n /\ <<order[j], order[i]>> \notin less
      BY <1>6, <1>7
    <2>2. ~(path[order[j]] < path[order[i]])
      BY <1>4, <2>1
    <2>3. path[order[i]] \in Nat /\ path[order[j]] \in Nat
      BY <1>2, <2>1
    <2> QED
      BY <1>8, <2>2, <2>3
  <1>10. \A k \in 1..n : \E i \in 1..n : q[i] = c[k]
    <2> SUFFICES ASSUME NEW k \in 1..n PROVE \E i \in 1..n : q[i] = c[k]
      OBVIOUS
    <2>1. PICK i \in 1..n : order[i] = k
      BY <1>6
    <2>2. q[i] = c[k]
      BY <1>7, <2>1
    <2> QED
      BY <2>2
  <1>11. /\ n \in Nat /\ DOMAIN c = 1..n /\ DOMAIN q = 1..n
         /\ \A i \in 1..n : q[i] \in CandidatePath /\ q[i].path \in Nat
         /\ \A i \in 1..n : \E k \in 1..n : q[i] = c[k]
         /\ \A k \in 1..n : \E i \in 1..n : q[i] = c[k]
         /\ \A i, j \in 1..n : i < j => q[i].path <= q[j].path
    BY <1>1, <1>7, <1>8, <1>9, <1>10
  <1> QED
    BY <1>11 DEF n, q

\* Of each path one candidate is kept, in the order of their paths.
LEMMA KeptIs ==
    ASSUME NEW candidates \in Seq(CandidatePath)
    PROVE  LET n == Len(candidates)
               kept == Kept(candidates)
               m == Len(kept)
           IN /\ kept \in Seq(CandidatePath) /\ m \in Nat /\ DOMAIN kept = 1..m
              /\ \A i \in 1..m : \E k \in 1..n : kept[i] = candidates[k]
              /\ \A k \in 1..n : \E i \in 1..m : kept[i].path = candidates[k].path
              /\ \A i, j \in 1..m : i < j => kept[i].path < kept[j].path
  <1> DEFINE n == Len(candidates)
             q == canonical_population(candidates)
             kept == Kept(candidates)
             path == [i \in 1..n |-> q[i].path]
             keep == Changes(n, path)
             m == Cardinality(keep)
             at == Increasing(keep)
  <1>1. /\ n \in Nat /\ DOMAIN candidates = 1..n /\ DOMAIN q = 1..n
        /\ \A i \in 1..n : q[i] \in CandidatePath /\ q[i].path \in Nat
        /\ \A i \in 1..n : \E k \in 1..n : q[i] = candidates[k]
        /\ \A k \in 1..n : \E i \in 1..n : q[i] = candidates[k]
        /\ \A i, j \in 1..n : i < j => q[i].path <= q[j].path
    BY SortedPopulation
  <1>2. kept = drop_duplicates(q)
    BY DEF Kept
  <1> HIDE DEF n, q, kept
  <1>3. \A i \in 1..n : path[i] = q[i].path /\ path[i] \in Nat
    BY <1>1
  <1>4. keep = {i \in DOMAIN q : i = 1 \/ q[i - 1].path # q[i].path}
    <2>1. \A i \in 1..n : i # 1 => i - 1 \in 1..n
      BY <1>1
    <2> QED
      BY <1>1, <2>1 DEF Changes
  <1> HIDE DEF path
  <1>5. \A i, j, k \in 1..n : i < j /\ j < k /\ path[i] = path[k] => path[j] = path[k]
    <2>1. \A i, j \in 1..n : i < j => path[i] <= path[j]
      BY <1>1, <1>3
    <2>2. \A i \in 1..n : path[i] \in Nat
      BY <1>3
    <2> QED
      BY <2>1, <2>2
  <1>6. /\ \A i, j \in keep : path[i] = path[j] => i = j
        /\ \A i \in 1..n : \E l \in keep : l <= i /\ path[l] = path[i]
    BY <1>1, <1>5, FirstOfRuns
  <1>7. keep \in SUBSET (1..n)
    BY DEF Changes
  <1>8. kept = Subsequence(q, keep)
    BY <1>2, <1>4 DEF drop_duplicates
  <1> HIDE DEF keep
  <1>9. m \in Nat
    BY <1>1, <1>7, SubsequenceIs
  <1>10. /\ at \in [1..m -> keep]
         /\ kept = [k \in 1..m |-> q[at[k]]]
         /\ \A i \in keep : \E k \in 1..m : at[k] = i
         /\ \A j, k \in 1..m : j < k => at[j] < at[k]
    <2>1. at \in [1..m -> keep]
      BY <1>1, <1>7, SubsequenceIs
    <2>2. \A i \in keep : \E k \in 1..m : at[k] = i
      BY <1>1, <1>7, SubsequenceIs
    <2>3. \A j, k \in 1..m : j < k => at[j] < at[k]
      BY <1>1, <1>7, SubsequenceIs
    <2>4. Subsequence(q, keep) = [k \in DOMAIN at |-> q[at[k]]]
      BY DEF Subsequence
    <2>5. DOMAIN at = 1..m
      BY <2>1
    <2> HIDE DEF at, m
    <2> QED
      BY <1>8, <2>1, <2>2, <2>3, <2>4, <2>5
  <1> HIDE DEF at, m
  <1>11. \A k \in 1..m : at[k] \in 1..n /\ at[k] \in keep /\ kept[k] = q[at[k]] /\ kept[k] \in CandidatePath
    BY <1>1, <1>7, <1>10
  <1>12. kept \in Seq(CandidatePath) /\ Len(kept) = m /\ DOMAIN kept = 1..m
    <2>1. kept \in [1..m -> CandidatePath]
      BY <1>10, <1>11
    <2> QED
      BY <1>9, <2>1
  <1>13. \A i \in 1..m : \E k \in 1..n : kept[i] = candidates[k]
    <2> SUFFICES ASSUME NEW i \in 1..m PROVE \E k \in 1..n : kept[i] = candidates[k]
      OBVIOUS
    <2>1. at[i] \in 1..n /\ kept[i] = q[at[i]]
      BY <1>11
    <2>2. PICK k \in 1..n : q[at[i]] = candidates[k]
      BY <1>1, <2>1
    <2> QED
      BY <2>1, <2>2
  <1>14. \A k \in 1..n : \E i \in 1..m : kept[i].path = candidates[k].path
    <2> SUFFICES ASSUME NEW k \in 1..n PROVE \E i \in 1..m : kept[i].path = candidates[k].path
      OBVIOUS
    <2>1. PICK j \in 1..n : q[j] = candidates[k]
      BY <1>1
    <2>2. PICK l \in keep : path[l] = path[j]
      BY <1>6
    <2>3. PICK i \in 1..m : at[i] = l
      BY <1>10
    <2>4. kept[i].path = candidates[k].path
      BY <1>3, <1>11, <2>1, <2>2, <2>3
    <2> QED
      BY <2>4
  <1>15. \A i, j \in 1..m : i < j => kept[i].path < kept[j].path
    <2> SUFFICES ASSUME NEW i \in 1..m, NEW j \in 1..m, i < j PROVE kept[i].path < kept[j].path
      OBVIOUS
    <2>1. at[i] \in keep /\ at[j] \in keep /\ at[i] \in 1..n /\ at[j] \in 1..n /\ at[i] < at[j]
      BY <1>10, <1>11
    <2>2. path[at[i]] # path[at[j]]
      BY <1>6, <2>1
    <2>3. q[at[i]].path <= q[at[j]].path
      BY <1>1, <2>1
    <2>4. /\ path[at[i]] = q[at[i]].path /\ path[at[j]] = q[at[j]].path
          /\ path[at[i]] \in Nat /\ path[at[j]] \in Nat
      BY <1>3, <2>1
    <2>5. path[at[i]] < path[at[j]]
      BY <2>2, <2>3, <2>4
    <2> QED
      BY <1>11, <2>4, <2>5
  <1>16. /\ kept \in Seq(CandidatePath) /\ Len(kept) \in Nat /\ DOMAIN kept = 1..Len(kept)
         /\ \A i \in 1..Len(kept) : \E k \in 1..n : kept[i] = candidates[k]
         /\ \A k \in 1..n : \E i \in 1..Len(kept) : kept[i].path = candidates[k].path
         /\ \A i, j \in 1..Len(kept) : i < j => kept[i].path < kept[j].path
    BY <1>9, <1>12, <1>13, <1>14, <1>15
  <1> QED
    BY <1>16 DEF kept, n

-----------------------------------------------------------------------------
(* Reasons one after the other *)

\* g has the concatenations of the first elements of s.
Flattens(g, s, n) ==
    g = [i \in 1..n |-> IF i = 1 THEN s[i] ELSE g[i - 1] \o s[i]]

LEMMA FlattensExists ==
    ASSUME NEW n \in Nat, NEW s
    PROVE  \E g : Flattens(g, s, n)
  <1> DEFINE D == {m \in Nat : ~\E g : Flattens(g, s, m)}
  <1> SUFFICES ASSUME D # {} PROVE FALSE
    OBVIOUS
  <1>1. PICK m \in D : \A k \in D : m <= k
    <2>1. D \in SUBSET Nat
      OBVIOUS
    <2> HIDE DEF D
    <2> QED
      BY <2>1, Least
  <1>2. m \in Nat /\ ~\E g : Flattens(g, s, m)
    OBVIOUS
  <1>3. m # 0
    <2> SUFFICES ASSUME m = 0 PROVE FALSE
      OBVIOUS
    <2> DEFINE e == [i \in 1..0 |-> s[i]]
    <2>1. e = [i \in 1..0 |-> IF i = 1 THEN s[i] ELSE e[i - 1] \o s[i]]
      OBVIOUS
    <2>2. Flattens(e, s, 0)
      BY <2>1 DEF Flattens
    <2> QED
      BY <1>2, <2>2
  <1>4. m - 1 \in Nat /\ m - 1 \notin D
    BY <1>1, <1>2, <1>3
  <1>5. PICK g : Flattens(g, s, m - 1)
    BY <1>4
  <1> HIDE DEF D
  <1>6. \A i \in 1..(m - 1) : g[i] = IF i = 1 THEN s[i] ELSE g[i - 1] \o s[i]
    BY <1>5 DEF Flattens
  <1> DEFINE h == [i \in 1..m |-> IF i < m THEN g[i] ELSE IF i = 1 THEN s[i] ELSE g[i - 1] \o s[i]]
  <1>7. \A i \in 1..m : h[i] = IF i < m THEN g[i] ELSE IF i = 1 THEN s[i] ELSE g[i - 1] \o s[i]
    OBVIOUS
  <1>8. h = [i \in 1..m |-> h[i]]
    OBVIOUS
  <1> HIDE DEF h
  <1>9. \A i \in 1..m : h[i] = IF i = 1 THEN s[i] ELSE h[i - 1] \o s[i]
    <2> SUFFICES ASSUME NEW i \in 1..m PROVE h[i] = IF i = 1 THEN s[i] ELSE h[i - 1] \o s[i]
      OBVIOUS
    <2>1. i < m => i \in 1..(m - 1)
      BY <1>2
    <2>2. i # 1 => i - 1 \in 1..m /\ i - 1 < m
      BY <1>2
    <2> QED
      BY <1>6, <1>7, <2>1, <2>2
  <1>10. h = [i \in 1..m |-> IF i = 1 THEN s[i] ELSE h[i - 1] \o s[i]]
    BY <1>8, <1>9
  <1>11. Flattens(h, s, m)
    BY <1>10 DEF Flattens
  <1> QED
    BY <1>2, <1>11

LEMMA FlattenIs ==
    ASSUME NEW n \in Nat, n # 0, NEW s, Len(s) = n
    PROVE  \E g : Flattens(g, s, n) /\ FlattenSeq(s) = g[n]
  <1> DEFINE f == CHOOSE g : Flattens(g, s, n)
  <1>1. Flattens(f, s, n)
    BY FlattensExists
  <1>2. f = CHOOSE g : g = [i \in 1..n |-> IF i = 1 THEN s[i] ELSE g[i - 1] \o s[i]]
    BY DEF Flattens
  <1> HIDE DEF f
  <1>3. FlattenSeq(s) = f[n]
    BY <1>2 DEF FlattenSeq
  <1> QED
    BY <1>1, <1>3

\* The elements of a concatenation.
LEMMA ConcatHas ==
    ASSUME NEW T, NEW a \in Seq(T), NEW b \in Seq(T)
    PROVE  \A r : r \in ToSet(a \o b) <=> r \in ToSet(a) \/ r \in ToSet(b)
  <1>1. /\ Len(a) \in Nat /\ Len(b) \in Nat /\ DOMAIN a = 1..Len(a) /\ DOMAIN b = 1..Len(b)
        /\ DOMAIN (a \o b) = 1..(Len(a) + Len(b))
    OBVIOUS
  <1>2. \A i \in 1..Len(a) : (a \o b)[i] = a[i] /\ i \in 1..(Len(a) + Len(b))
    OBVIOUS
  <1>3. \A i \in 1..Len(b) : (a \o b)[Len(a) + i] = b[i] /\ Len(a) + i \in 1..(Len(a) + Len(b))
    OBVIOUS
  <1>4. \A i \in 1..(Len(a) + Len(b)) :
           \/ i \in 1..Len(a) /\ (a \o b)[i] = a[i]
           \/ i - Len(a) \in 1..Len(b) /\ (a \o b)[i] = b[i - Len(a)]
    OBVIOUS
  <1> DEFINE c == a \o b
  <1>5. /\ ToSet(a) = {a[i] : i \in 1..Len(a)} /\ ToSet(b) = {b[i] : i \in 1..Len(b)}
        /\ ToSet(c) = {c[i] : i \in 1..(Len(a) + Len(b))}
    BY <1>1 DEF ToSet
  <1> HIDE DEF c
  <1>6. ASSUME NEW r, r \in ToSet(c) PROVE r \in ToSet(a) \/ r \in ToSet(b)
    <2>1. PICK i \in 1..(Len(a) + Len(b)) : r = c[i]
      BY <1>5, <1>6
    <2> QED
      BY <1>4, <1>5, <2>1 DEF c
  <1>7. ASSUME NEW r, r \in ToSet(a) PROVE r \in ToSet(c)
    BY <1>2, <1>5, <1>7 DEF c
  <1>8. ASSUME NEW r, r \in ToSet(b) PROVE r \in ToSet(c)
    <2>1. PICK i \in 1..Len(b) : r = b[i]
      BY <1>5, <1>8
    <2>2. r = c[Len(a) + i] /\ Len(a) + i \in 1..(Len(a) + Len(b))
      BY <1>3, <2>1 DEF c
    <2> QED
      BY <1>5, <2>2
  <1> QED
    BY <1>6, <1>7, <1>8 DEF c

\* What a concatenation of sequences of T is: of T, at least as long as each, and
\* of the elements of all.
LEMMA FlattenOf ==
    ASSUME NEW T, NEW n \in Nat, NEW s, DOMAIN s = 1..n, Len(s) = n, s = [i \in 1..n |-> s[i]],
           \A i \in 1..n : s[i] \in Seq(T)
    PROVE  /\ FlattenSeq(s) \in Seq(T)
           /\ FlattenSeq(s) = <<>> <=> \A i \in 1..n : s[i] = <<>>
           /\ \A r : r \in ToSet(FlattenSeq(s)) <=> \E i \in 1..n : r \in ToSet(s[i])
  <1>1. CASE n = 0
    <2>1. FlattenSeq(s) = s
      BY <1>1 DEF FlattenSeq
    <2>2. s = <<>>
      BY <1>1
    <2>3. ToSet(s) = {}
      BY <1>1 DEF ToSet
    <2>4. 1..n = {}
      BY <1>1
    <2>5. FlattenSeq(s) \in Seq(T)
      <3>1. << >> \in Seq(T)
        OBVIOUS
      <3>2. FlattenSeq(s) = << >>
        BY <2>1, <2>2
      <3> QED
        BY <3>1, <3>2, Zenon
    <2>6. FlattenSeq(s) = <<>> <=> \A i \in 1..n : s[i] = <<>>
      BY <2>1, <2>2, <2>4
    <2>7. ASSUME NEW r PROVE r \in ToSet(FlattenSeq(s)) <=> \E i \in 1..n : r \in ToSet(s[i])
      BY <2>1, <2>3, <2>4
    <2> QED
      BY <2>5, <2>6, <2>7
  <1>2. CASE n # 0
    <2>1. PICK g : Flattens(g, s, n) /\ FlattenSeq(s) = g[n]
      BY <1>2, FlattenIs
    <2>2. \A i \in 1..n : g[i] = IF i = 1 THEN s[i] ELSE g[i - 1] \o s[i]
      BY <2>1 DEF Flattens
    <2> DEFINE Good(i) == /\ g[i] \in Seq(T)
                          /\ g[i] = <<>> <=> \A j \in 1..i : s[j] = <<>>
                          /\ \A r : r \in ToSet(g[i]) <=> \E j \in 1..i : r \in ToSet(s[j])
               D == {i \in 1..n : ~Good(i)}
    <2>3. D = {}
      <3> SUFFICES ASSUME D # {} PROVE FALSE
        OBVIOUS
      <3>1. PICK i \in D : \A k \in D : i <= k
        <4>1. D \in SUBSET Nat
          OBVIOUS
        <4> HIDE DEF D
        <4> QED
          BY <4>1, Least
      <3>2. i \in 1..n /\ ~Good(i)
        OBVIOUS
      <3>3. CASE i = 1
        <4>1. g[i] = s[i] /\ 1..i = {1}
          BY <2>2, <3>2, <3>3
        <4>2. Good(i)
          BY <3>2, <3>3, <4>1
        <4> QED
          BY <3>2, <4>2
      <3>4. CASE i # 1
        <4>1. i - 1 \in 1..n /\ ~(i <= i - 1)
          BY <3>2, <3>4
        <4>2. i - 1 \notin D
          BY <3>1, <4>1
        <4>3. Good(i - 1)
          BY <4>1, <4>2
        <4>4. g[i] = g[i - 1] \o s[i]
          BY <2>2, <3>2, <3>4
        <4>5. \A j \in 1..i : j \in 1..(i - 1) \/ j = i
          BY <3>2
        <4>6. \A j \in 1..(i - 1) : j \in 1..i
          BY <3>2
        <4>7. i \in 1..i
          BY <3>2
        <4> HIDE DEF D
        <4>8. g[i - 1] \in Seq(T) /\ s[i] \in Seq(T)
          BY <3>2, <4>3
        <4>9. g[i] \in Seq(T) /\ (g[i] = <<>> <=> g[i - 1] = <<>> /\ s[i] = <<>>)
          BY <4>4, <4>8
        <4>10. \A r : r \in ToSet(g[i]) <=> r \in ToSet(g[i - 1]) \/ r \in ToSet(s[i])
          <5> DEFINE a == g[i - 1]
                     b == s[i]
          <5>1. a \in Seq(T) /\ b \in Seq(T)
            BY <4>8
          <5> HIDE DEF a, b
          <5>2. \A r : r \in ToSet(a \o b) <=> r \in ToSet(a) \/ r \in ToSet(b)
            BY <5>1, ConcatHas
          <5> QED
            BY <4>4, <5>2 DEF a, b
        <4>11. g[i] = <<>> <=> \A j \in 1..i : s[j] = <<>>
          BY <4>3, <4>5, <4>6, <4>7, <4>9
        <4>12. \A r : r \in ToSet(g[i]) <=> \E j \in 1..i : r \in ToSet(s[j])
          BY <4>3, <4>5, <4>6, <4>7, <4>10
        <4> QED
          BY <3>2, <4>9, <4>11, <4>12
      <3> QED
        BY <3>3, <3>4
    <2>4. n \in 1..n
      BY <1>2
    <2>5. Good(n)
      BY <2>3, <2>4
    <2> QED
      BY <2>1, <2>5
  <1> QED
    BY <1>1, <1>2

LEMMA FlattenFunction ==
    ASSUME NEW T, NEW n \in Nat, NEW f \in [1..n -> Seq(T)]
    PROVE  /\ FlattenSeq(f) \in Seq(T)
           /\ FlattenSeq(f) = <<>> <=> \A i \in 1..n : f[i] = <<>>
           /\ \A r : r \in ToSet(FlattenSeq(f)) <=> \E i \in 1..n : r \in ToSet(f[i])
  <1>1. DOMAIN f = 1..n /\ Len(f) = n /\ f = [i \in 1..n |-> f[i]]
    OBVIOUS
  <1>2. \A i \in 1..n : f[i] \in Seq(T)
    OBVIOUS
  <1>3. FlattenSeq(f) \in Seq(T)
    BY <1>1, <1>2, FlattenOf
  <1>4. FlattenSeq(f) = <<>> <=> \A i \in 1..n : f[i] = <<>>
    BY <1>1, <1>2, FlattenOf
  <1>5. \A r : r \in ToSet(FlattenSeq(f)) <=> \E i \in 1..n : r \in ToSet(f[i])
    BY <1>1, <1>2, FlattenOf
  <1> QED
    BY <1>3, <1>4, <1>5

\* Where the elements of a concatenation come from.
LEMMA ConcatIs ==
    ASSUME NEW T, NEW a \in Seq(T), NEW b \in Seq(T)
    PROVE  /\ a \o b \in Seq(T) /\ Len(a \o b) = Len(a) + Len(b)
           /\ \A i \in 1..Len(a) : i \in 1..(Len(a) + Len(b)) /\ (a \o b)[i] = a[i]
           /\ \A i \in 1..Len(b) : Len(a) + i \in 1..(Len(a) + Len(b)) /\ (a \o b)[Len(a) + i] = b[i]
           /\ \A i \in 1..(Len(a) + Len(b)) :
                 \/ i \in 1..Len(a) /\ (a \o b)[i] = a[i]
                 \/ i - Len(a) \in 1..Len(b) /\ (a \o b)[i] = b[i - Len(a)]
  <1>1. a \o b \in Seq(T) /\ Len(a \o b) = Len(a) + Len(b)
    OBVIOUS
  <1>2. \A i \in 1..Len(a) : i \in 1..(Len(a) + Len(b)) /\ (a \o b)[i] = a[i]
    OBVIOUS
  <1>3. \A i \in 1..Len(b) : Len(a) + i \in 1..(Len(a) + Len(b)) /\ (a \o b)[Len(a) + i] = b[i]
    OBVIOUS
  <1>4. \A i \in 1..(Len(a) + Len(b)) :
           \/ i \in 1..Len(a) /\ (a \o b)[i] = a[i]
           \/ i - Len(a) \in 1..Len(b) /\ (a \o b)[i] = b[i - Len(a)]
    OBVIOUS
  <1> QED
    BY <1>1, <1>2, <1>3, <1>4

-----------------------------------------------------------------------------
(* Checks *)

\* The codes a mandatory constraint fails with.
MandatoryCode == {k \in DOMAIN Code : Code[k] \in 800..899}

Failure == [code : MandatoryCode, subject : Nat \X Nat]

LEMMA MandatoryCodes ==
    /\ {"MaxLatencyExceeded", "LatencyEvidenceUnavailable",
        "MinBandwidthCapabilityNotMet", "BandwidthCapabilityUnavailable",
        "RequiredNodeAbsent", "ForbiddenNodePresent", "RequiredLinkAbsent",
        "ForbiddenLinkPresent", "RequiredTierNotMet"} \subseteq MandatoryCode
    /\ {"ForbiddenTierPresent", "RequiredSiteNotMet", "ForbiddenSitePresent", "LocalityScopeViolated",
        "IsolationClassNotProven", "ForbiddenCapabilityPresent",
        "RequiredFailureDomainRelationNotMet", "ForbiddenFailureDomainRelationMet",
        "AdministrativePolicyNotSatisfied"} \subseteq MandatoryCode
    /\ {"MaxHopCountExceeded", "TierEvidenceUnavailable", "SiteEvidenceUnavailable",
        "LocalityEvidenceUnavailable", "IsolationEvidenceUnavailable",
        "CapabilityEvidenceUnavailable", "FailureDomainEvidenceUnavailable",
        "PolicyEvidenceUnavailable"} \subseteq MandatoryCode
  BY SMTT(60) DEF MandatoryCode, Code

LEMMA FailIs ==
    ASSUME NEW code \in MandatoryCode, NEW subject \in Nat \X Nat
    PROVE  /\ Fail(code, subject) \in Seq(Failure) /\ Fail(code, subject) # <<>>
           /\ Pass \in Seq(Failure) /\ Pass = <<>>
  <1>1. [code |-> code, subject |-> subject] \in Failure
    BY DEF Failure
  <1>2. << >> \in Seq(Failure)
    OBVIOUS
  <1> QED
    BY <1>1, <1>2 DEF Fail, Pass

\* What find returns: no reference when the key has none, else the least.
LEMMA FindIs ==
    ASSUME NEW refs \in Refs, NEW key
    PROVE  /\ find(refs, key) \in Nat \cup {NoRef}
           /\ find(refs, key) = NoRef <=> key \notin {r[1] : r \in refs}
  <1> DEFINE found == {r[2] : r \in {r \in refs : r[1] = key}}
  <1>1. found \in SUBSET Nat
    BY DEF Refs
  <1>2. found = {} <=> key \notin {r[1] : r \in refs}
    OBVIOUS
  <1>3. find(refs, key) = IF found = {} THEN NoRef ELSE Min(found)
    BY DEF find
  <1> HIDE DEF found
  <1>4. ASSUME found # {} PROVE Min(found) \in Nat
    <2>1. PICK i \in found : \A j \in found : i <= j
      BY <1>1, <1>4, Least
    <2>2. Min(found) \in found
      BY <2>1 DEF Min
    <2> QED
      BY <1>1, <2>2
  <1> QED
    BY <1>2, <1>3, <1>4 DEF NoRef

\* The parts of a candidate the checks look at.
LEMMA CandidateParts ==
    ASSUME NEW candidate \in CandidatePath
    PROVE  LET nodes == candidate.nodes
               links == candidate.links
           IN /\ nodes \in Seq(NodeFact) /\ links \in Seq(LinkFact)
              /\ Len(nodes) \in Nat /\ DOMAIN nodes = 1..Len(nodes)
              /\ Len(links) \in Nat /\ DOMAIN links = 1..Len(links)
              /\ \A i \in 1..Len(nodes) : nodes[i] \in NodeFact /\ NodeSubject(nodes[i]) \in Nat \X Nat
              /\ \A i \in 1..Len(links) : links[i] \in LinkFact /\ LinkSubject(links[i]) \in Nat \X Nat
              /\ ToSet(nodes) = {nodes[i] : i \in 1..Len(nodes)}
              /\ ToSet(links) = {links[i] : i \in 1..Len(links)}
              /\ PathSubject(candidate) \in Nat \X Nat /\ candidate.policies \in Refs
              /\ candidate.hop_count \in Nat
              /\ candidate.latency.micros \in Int
  <1> DEFINE nodes == candidate.nodes
             links == candidate.links
  <1>1. /\ nodes \in Seq(NodeFact) /\ links \in Seq(LinkFact) /\ candidate.path \in Nat
        /\ candidate.policies \in Refs /\ candidate.hop_count \in Nat /\ candidate.latency.micros \in Int
    BY DEF CandidatePath
  <1> HIDE DEF nodes, links
  <1>2. /\ Len(nodes) \in Nat /\ DOMAIN nodes = 1..Len(nodes)
        /\ Len(links) \in Nat /\ DOMAIN links = 1..Len(links)
        /\ \A i \in 1..Len(nodes) : nodes[i] \in NodeFact
        /\ \A i \in 1..Len(links) : links[i] \in LinkFact
    BY <1>1
  <1>3. /\ ToSet(nodes) = {nodes[i] : i \in 1..Len(nodes)}
        /\ ToSet(links) = {links[i] : i \in 1..Len(links)}
    BY <1>2 DEF ToSet
  <1>4. \A n \in NodeFact : NodeSubject(n) \in Nat \X Nat
    BY DEF NodeFact, NodeSubject
  <1>5. \A l \in LinkFact : LinkSubject(l) \in Nat \X Nat
    BY DEF LinkFact, LinkSubject
  <1>6. PathSubject(candidate) \in Nat \X Nat
    BY <1>1 DEF PathSubject
  <1> QED
    BY <1>1, <1>2, <1>3, <1>4, <1>5, <1>6 DEF nodes, links

\* A constraint of a kind with a list has one, of identities that are not 0.
LEMMA ListedItems ==
    ASSUME NEW c \in Constraint, validate_constraint(c), c.kind \in DOMAIN ListOf
    PROVE  /\ items(c) \in Seq(Nat) /\ items(c) # <<>> /\ Len(items(c)) \in Nat \ {0}
           /\ DOMAIN items(c) = 1..Len(items(c))
           /\ \A i \in 1..Len(items(c)) : items(c)[i] \in Nat /\ items(c)[i] \in Wanted(c)
           /\ Wanted(c) = ToSet(items(c)) /\ 0 \notin Wanted(c)
           /\ Wanted(c) = {items(c)[i] : i \in 1..Len(items(c))}
  <1>1. ListOf[c.kind] \in ToSet(ListNames)
    <2>1. \A l \in {"nodes", "links", "tiers", "sites", "capabilities", "policies"} :
             l \in ToSet(ListNames)
      BY DEF ListNames, ToSet
    <2>2. \A k \in DOMAIN ListOf :
             ListOf[k] \in {"nodes", "links", "tiers", "sites", "capabilities", "policies"}
      BY DEF ListOf
    <2> QED
      BY <2>1, <2>2
  <1>2. c.lists \in [ToSet(ListNames) -> Seq(Nat)]
    BY DEF Constraint
  <1> DEFINE s == items(c)
  <1>3. s \in Seq(Nat)
    BY <1>1, <1>2 DEF items
  <1>4. 0 \notin ToSet(s)
    BY <1>1 DEF items, validate_constraint
  <1>5. s # <<>>
    <2>1. c.kind \notin {"MaxLatency", "MinBandwidthCapability", "MaxHopCount", "LocalityScope",
                         "IsolationClass", "RequiredFailureDomainRelation",
                         "ForbiddenFailureDomainRelation"}
      BY DEF ListOf
    <2>2. valid_payload(c)
      BY DEF validate_constraint
    <2>3. \A l \in ToSet(ListNames) : (c.lists[l] # <<>>) <=> (l = ListOf[c.kind])
      BY <2>1, <2>2 DEF valid_payload
    <2> QED
      BY <1>1, <2>3 DEF items
  <1>6. Wanted(c) = ToSet(s)
    BY DEF Wanted
  <1> HIDE DEF s
  <1>7. Len(s) \in Nat \ {0} /\ DOMAIN s = 1..Len(s) /\ \A i \in 1..Len(s) : s[i] \in Nat
    BY <1>3, <1>5
  <1>8. ToSet(s) = {s[i] : i \in 1..Len(s)}
    BY <1>7 DEF ToSet
  <1>9. /\ s \in Seq(Nat) /\ s # <<>> /\ Len(s) \in Nat \ {0}
        /\ DOMAIN s = 1..Len(s)
        /\ \A i \in 1..Len(s) : s[i] \in Nat /\ s[i] \in Wanted(c)
        /\ Wanted(c) = ToSet(s) /\ 0 \notin Wanted(c)
        /\ Wanted(c) = {s[i] : i \in 1..Len(s)}
    BY <1>3, <1>4, <1>5, <1>6, <1>7, <1>8
  <1> QED
    BY <1>9 DEF s

LEMMA LatencyChecked ==
    ASSUME NEW c \in Constraint, NEW candidate \in CandidatePath
    PROVE  /\ check_max_latency(c, candidate) \in Seq(Failure)
           /\ check_max_latency(c, candidate) = <<>> <=>
                candidate.latency.source = c.latency_source /\ candidate.latency.micros <= c.bound
  <1>1. candidate.latency.micros \in Int /\ PathSubject(candidate) \in Nat \X Nat
    BY CandidateParts
  <1>2. c.bound \in Int
    BY DEF Constraint
  <1>3. "LatencyEvidenceUnavailable" \in MandatoryCode /\ "MaxLatencyExceeded" \in MandatoryCode
    BY MandatoryCodes
  <1> QED
    BY <1>1, <1>2, <1>3, FailIs, SMTT(60) DEF check_max_latency

LEMMA HopsChecked ==
    ASSUME NEW c \in Constraint, NEW candidate \in CandidatePath
    PROVE  /\ check_max_hop_count(c, candidate) \in Seq(Failure)
           /\ check_max_hop_count(c, candidate) = <<>> <=> candidate.hop_count <= c.bound
  <1>1. candidate.hop_count \in Nat /\ PathSubject(candidate) \in Nat \X Nat
    BY CandidateParts
  <1>2. c.bound \in Int
    BY DEF Constraint
  <1>3. "MaxHopCountExceeded" \in MandatoryCode
    BY MandatoryCodes
  <1> QED
    BY <1>1, <1>2, <1>3, FailIs DEF check_max_hop_count


\* The bottleneck of a path is known when every link has a figure of the
\* generation asked for, and is then the least figure.
LEMMA BottleneckIs ==
    ASSUME NEW candidate \in CandidatePath, Len(candidate.links) # 0, NEW required \in Nat \ {0}
    PROVE  LET b == path_bandwidth_capability(candidate, required)
               links == ToSet(candidate.links)
               known == \A l \in links : /\ l.bandwidth.model # "None"
                                         /\ l.bandwidth.generation = required
                                         /\ l.bandwidth.bits_per_second >= 0
           IN /\ b \in Int /\ (b # NoRef <=> known)
              /\ known => /\ b >= 0
                          /\ \A l \in links : b <= l.bandwidth.bits_per_second
                          /\ \E l \in links : b = l.bandwidth.bits_per_second
  <1> DEFINE links == candidate.links
             figures == {links[i].bandwidth : i \in DOMAIN links}
             bits == {b.bits_per_second : b \in figures}
             b == path_bandwidth_capability(candidate, required)
             known == \A l \in ToSet(links) : /\ l.bandwidth.model # "None"
                                              /\ l.bandwidth.generation = required
                                              /\ l.bandwidth.bits_per_second >= 0
  <1>1. /\ Len(links) \in Nat \ {0} /\ DOMAIN links = 1..Len(links)
        /\ \A i \in 1..Len(links) : links[i] \in LinkFact
        /\ ToSet(links) = {links[i] : i \in 1..Len(links)}
    BY CandidateParts
  <1>2. \A i \in 1..Len(links) : links[i].bandwidth.bits_per_second \in Int
    BY <1>1 DEF LinkFact
  <1>3. b = IF \/ figures = {} \/ required = 0
               \/ \E x \in figures :
                     x.model = "None" \/ x.generation # required \/ x.bits_per_second < 0
            THEN NoRef ELSE Min(bits)
    BY DEF path_bandwidth_capability
  <1>4. figures = {l.bandwidth : l \in ToSet(links)} /\ figures # {}
    <2> HIDE DEF links
    <2>1. figures = {links[i].bandwidth : i \in 1..Len(links)}
      BY <1>1
    <2>2. 1 \in 1..Len(links)
      BY <1>1
    <2> HIDE DEF figures
    <2>3. figures # {}
      BY <2>1, <2>2
    <2>4. figures \subseteq {l.bandwidth : l \in ToSet(links)}
      BY <1>1, <2>1
    <2>5. {l.bandwidth : l \in ToSet(links)} \subseteq figures
      BY <1>1, <2>1
    <2> QED
      BY <2>3, <2>4, <2>5
  <1>5. \A x \in figures : x.bits_per_second \in Int
    BY <1>1, <1>2
  <1>6. known <=> \A x \in figures : x.model # "None" /\ x.generation = required /\ x.bits_per_second >= 0
    BY <1>4
  <1>7. bits = {l.bandwidth.bits_per_second : l \in ToSet(links)}
    <2> HIDE DEF links, figures
    <2>1. bits \subseteq {l.bandwidth.bits_per_second : l \in ToSet(links)}
      BY <1>4
    <2>2. {l.bandwidth.bits_per_second : l \in ToSet(links)} \subseteq bits
      BY <1>4
    <2> QED
      BY <2>1, <2>2
  <1> HIDE DEF links, figures, b, known
  <1>8. ASSUME ~known PROVE b = NoRef
    BY <1>3, <1>5, <1>6, <1>8
  <1>9. ASSUME known PROVE b \in bits /\ b \in Nat /\ \A y \in bits : b <= y
    <2>1. bits \in SUBSET Nat
      BY <1>5, <1>6, <1>9
    <2>2. bits # {}
      BY <1>4
    <2>3. b = Min(bits)
      <3> HIDE DEF bits
      <3>1. \A x \in figures : ~(x.bits_per_second < 0)
        BY <1>5, <1>6, <1>9
      <3>2. ~\E x \in figures : x.model = "None" \/ x.generation # required \/ x.bits_per_second < 0
        BY <1>6, <1>9, <3>1
      <3> QED
        BY <1>3, <1>4, <3>2
    <2> HIDE DEF bits
    <2>4. PICK i \in bits : \A j \in bits : i <= j
      BY <2>1, <2>2, Least
    <2>5. Min(bits) \in bits /\ \A y \in bits : Min(bits) <= y
      BY <2>4 DEF Min
    <2> QED
      BY <2>1, <2>3, <2>5
  <1>10. /\ b \in Int /\ (b # NoRef <=> known)
         /\ known => /\ b >= 0
                     /\ \A l \in ToSet(links) : b <= l.bandwidth.bits_per_second
                     /\ \E l \in ToSet(links) : b = l.bandwidth.bits_per_second
    <2>1. CASE ~known
      BY <1>8, <2>1 DEF NoRef
    <2>2. CASE known
      <3>1. b \in Nat
        BY <1>9, <2>2
      <3>2. \A l \in ToSet(links) : b <= l.bandwidth.bits_per_second
        BY <1>7, <1>9, <2>2
      <3>3. \E l \in ToSet(links) : b = l.bandwidth.bits_per_second
        BY <1>7, <1>9, <2>2
      <3> HIDE DEF bits
      <3> QED
        BY <2>2, <3>1, <3>2, <3>3 DEF NoRef
    <2> QED
      BY <2>1, <2>2
  <1> QED
    BY <1>10 DEF b, links, known

LEMMA BandwidthChecked ==
    ASSUME NEW c \in Constraint, c.bound >= 1, NEW candidate \in CandidatePath,
           Len(candidate.links) # 0, NEW current, current["Capability"] \in Nat \ {0}
    PROVE  /\ check_min_bandwidth(c, candidate, current) \in Seq(Failure)
           /\ check_min_bandwidth(c, candidate, current) = <<>> <=>
                \A l \in ToSet(candidate.links) : /\ l.bandwidth.model # "None"
                                                  /\ l.bandwidth.generation = current["Capability"]
                                                  /\ l.bandwidth.bits_per_second >= c.bound
  <1> DEFINE required == current["Capability"]
             b == path_bandwidth_capability(candidate, required)
             links == ToSet(candidate.links)
             known == \A l \in links : /\ l.bandwidth.model # "None"
                                       /\ l.bandwidth.generation = required
                                       /\ l.bandwidth.bits_per_second >= 0
             wide == \A l \in links : /\ l.bandwidth.model # "None"
                                      /\ l.bandwidth.generation = required
                                      /\ l.bandwidth.bits_per_second >= c.bound
  <1>1. /\ b \in Int /\ (b # NoRef <=> known)
        /\ known => /\ b >= 0
                    /\ \A l \in links : b <= l.bandwidth.bits_per_second
                    /\ \E l \in links : b = l.bandwidth.bits_per_second
    BY BottleneckIs
  <1>2. c.bound \in Int
    BY DEF Constraint
  <1>3. \A l \in links : l.bandwidth.bits_per_second \in Int
    <2>1. \A l \in links : l \in LinkFact
      <3>1. /\ \A i \in 1..Len(candidate.links) : candidate.links[i] \in LinkFact
            /\ links = {candidate.links[i] : i \in 1..Len(candidate.links)}
        BY CandidateParts
      <3> QED
        BY <3>1
    <2> QED
      BY <2>1 DEF LinkFact
  <1>4. check_min_bandwidth(c, candidate, current)
          = IF b = NoRef THEN Fail("BandwidthCapabilityUnavailable", PathSubject(candidate))
            ELSE IF b < c.bound
            THEN Fail("MinBandwidthCapabilityNotMet", PathSubject(candidate)) ELSE Pass
    BY DEF check_min_bandwidth
  <1> HIDE DEF required, b, links
  <1>5. wide <=> b # NoRef /\ ~(b < c.bound)
    <2>1. ASSUME wide PROVE b # NoRef /\ ~(b < c.bound)
      <3>1. known
        BY <1>2, <1>3, <2>1
      <3>2. PICK l \in links : b = l.bandwidth.bits_per_second
        BY <1>1, <3>1
      <3>3. b >= c.bound
        BY <2>1, <3>2
      <3> HIDE DEF wide, known
      <3> QED
        BY <1>1, <1>2, <3>1, <3>3
    <2>2. ASSUME b # NoRef, ~(b < c.bound) PROVE wide
      <3>1. known
        BY <1>1, <2>2
      <3>2. \A l \in links : b <= l.bandwidth.bits_per_second
        BY <1>1, <3>1
      <3>3. \A l \in links : l.bandwidth.bits_per_second >= c.bound
        BY <1>1, <1>2, <1>3, <2>2, <3>2
      <3> QED
        BY <3>1, <3>3
    <2> QED
      BY <2>1, <2>2
  <1>6. PathSubject(candidate) \in Nat \X Nat
    BY CandidateParts
  <1>7. "BandwidthCapabilityUnavailable" \in MandatoryCode /\ "MinBandwidthCapabilityNotMet" \in MandatoryCode
    BY MandatoryCodes
  <1> HIDE DEF wide
  <1>8. /\ check_min_bandwidth(c, candidate, current) \in Seq(Failure)
        /\ check_min_bandwidth(c, candidate, current) = <<>> <=> wide
    BY <1>4, <1>5, <1>6, <1>7, FailIs
  <1> QED
    BY <1>8 DEF wide, links, required

LEMMA PresenceChecked ==
    ASSUME NEW c \in Constraint, validate_constraint(c), c.kind \in DOMAIN ListOf,
           NEW present, NEW kind \in Nat, NEW code \in MandatoryCode
    PROVE  /\ check_present(c, present, kind, code) \in Seq(Failure)
           /\ check_present(c, present, kind, code) = <<>> <=> Wanted(c) \subseteq present
  <1> DEFINE s == items(c)
             n == Len(s)
             f == [i \in 1..n |-> IF s[i] \in present THEN Pass ELSE Fail(code, <<kind, s[i]>>)]
  <1>1. /\ n \in Nat /\ DOMAIN s = 1..n /\ \A i \in 1..n : s[i] \in Nat
        /\ Wanted(c) = {s[i] : i \in 1..n}
    BY ListedItems
  <1>2. check_present(c, present, kind, code) = FlattenSeq(f)
    BY <1>1 DEF check_present, ForEach
  <1> HIDE DEF s, n
  <1>3. \A i \in 1..n : f[i] \in Seq(Failure) /\ (f[i] = <<>> <=> s[i] \in present)
    BY <1>1, FailIs
  <1>4. f \in [1..n -> Seq(Failure)]
    BY <1>3
  <1> HIDE DEF f
  <1>5. FlattenSeq(f) \in Seq(Failure)
    BY <1>1, <1>4, FlattenFunction
  <1>6. FlattenSeq(f) = <<>> <=> \A i \in 1..n : f[i] = <<>>
    BY <1>1, <1>4, FlattenFunction
  <1>7. (\A i \in 1..n : s[i] \in present) <=> Wanted(c) \subseteq present
    BY <1>1
  <1> QED
    BY <1>2, <1>3, <1>5, <1>6, <1>7

LEMMA AbsenceChecked ==
    ASSUME NEW c \in Constraint, validate_constraint(c), c.kind \in DOMAIN ListOf,
           NEW m \in Nat, NEW traversed \in [1..m -> Nat], NEW kind \in Nat, NEW code \in MandatoryCode
    PROVE  /\ check_absent(c, traversed, kind, code) \in Seq(Failure)
           /\ check_absent(c, traversed, kind, code) = <<>> <=>
                Wanted(c) \cap {traversed[j] : j \in 1..m} = {}
  <1> DEFINE s == items(c)
             n == Len(s)
             g(w) == [j \in 1..m |-> IF traversed[j] = w THEN Fail(code, <<kind, w>>) ELSE Pass]
             f == [i \in 1..n |-> FlattenSeq(g(s[i]))]
  <1>1. /\ n \in Nat /\ DOMAIN s = 1..n /\ \A i \in 1..n : s[i] \in Nat
        /\ Wanted(c) = {s[i] : i \in 1..n}
    BY ListedItems
  <1>2. check_absent(c, traversed, kind, code) = FlattenSeq(f)
    BY <1>1 DEF check_absent, ForEach
  <1> HIDE DEF s, n
  <1>3. ASSUME NEW w \in Nat
        PROVE  /\ FlattenSeq(g(w)) \in Seq(Failure)
               /\ FlattenSeq(g(w)) = <<>> <=> \A j \in 1..m : traversed[j] # w
    <2> DEFINE h == g(w)
    <2>1. \A j \in 1..m : h[j] \in Seq(Failure) /\ (h[j] = <<>> <=> traversed[j] # w)
      BY FailIs
    <2>2. h \in [1..m -> Seq(Failure)]
      BY <2>1
    <2> HIDE DEF h
    <2>3. FlattenSeq(h) \in Seq(Failure)
      BY <2>2, FlattenFunction
    <2>4. FlattenSeq(h) = <<>> <=> \A j \in 1..m : h[j] = <<>>
      BY <2>2, FlattenFunction
    <2>5. /\ FlattenSeq(h) \in Seq(Failure)
          /\ FlattenSeq(h) = <<>> <=> \A j \in 1..m : traversed[j] # w
      BY <2>1, <2>3, <2>4
    <2> QED
      BY <2>5 DEF h
  <1> HIDE DEF g
  <1>4. \A i \in 1..n : /\ f[i] \in Seq(Failure)
                        /\ f[i] = <<>> <=> \A j \in 1..m : traversed[j] # s[i]
    BY <1>1, <1>3
  <1>5. f \in [1..n -> Seq(Failure)]
    BY <1>4
  <1> HIDE DEF f
  <1>6. FlattenSeq(f) \in Seq(Failure)
    BY <1>1, <1>5, FlattenFunction
  <1>7. FlattenSeq(f) = <<>> <=> \A i \in 1..n : f[i] = <<>>
    BY <1>1, <1>5, FlattenFunction
  <1>8. (\A i \in 1..n : \A j \in 1..m : traversed[j] # s[i])
          <=> Wanted(c) \cap {traversed[j] : j \in 1..m} = {}
    BY <1>1
  <1> QED
    BY <1>2, <1>4, <1>6, <1>7, <1>8


LEMMA MembershipChecked ==
    ASSUME NEW c \in Constraint, validate_constraint(c), c.kind \in DOMAIN ListOf,
           NEW candidate \in CandidatePath, NEW field \in {"tier", "site"},
           NEW unknown \in MandatoryCode, NEW code \in MandatoryCode
    PROVE  /\ check_member(c, candidate, field, unknown, code) \in Seq(Failure)
           /\ check_member(c, candidate, field, unknown, code) = <<>> <=>
                \A n \in ToSet(candidate.nodes) : n[field] \in Wanted(c)
           /\ check_not_member(c, candidate, field, unknown, code) \in Seq(Failure)
           /\ check_not_member(c, candidate, field, unknown, code) = <<>> <=>
                \A n \in ToSet(candidate.nodes) :
                   n[field] \notin Wanted(c) /\ (n[field] = 0 => Permits(c))
  <1> DEFINE s == candidate.nodes
             m == Len(s)
             In(n) == IF n[field] = 0 THEN Fail(unknown, NodeSubject(n))
                      ELSE IF n[field] \notin ToSet(items(c)) THEN Fail(code, NodeSubject(n)) ELSE Pass
             Out(n) == IF n[field] = 0
                       THEN IF c.unknown_policy = "FailClosed" THEN Fail(unknown, NodeSubject(n)) ELSE Pass
                       ELSE IF n[field] \in ToSet(items(c)) THEN Fail(code, NodeSubject(n)) ELSE Pass
             f == [i \in 1..m |-> In(s[i])]
             g == [i \in 1..m |-> Out(s[i])]
  <1>1. /\ m \in Nat /\ DOMAIN s = 1..m /\ ToSet(s) = {s[i] : i \in 1..m}
        /\ \A i \in 1..m : NodeSubject(s[i]) \in Nat \X Nat
    BY CandidateParts
  <1>2. Wanted(c) = ToSet(items(c)) /\ 0 \notin Wanted(c)
    BY ListedItems
  <1>3. c.unknown_policy \in {"FailClosed", "PermitUnknownNegative"}
    BY DEF Constraint
  <1>4. /\ check_member(c, candidate, field, unknown, code) = FlattenSeq(f)
        /\ check_not_member(c, candidate, field, unknown, code) = FlattenSeq(g)
    BY <1>1 DEF check_member, check_not_member, ForEach
  <1> HIDE DEF s, m
  <1>5. \A i \in 1..m : f[i] \in Seq(Failure) /\ (f[i] = <<>> <=> s[i][field] \in Wanted(c))
    BY <1>1, <1>2, FailIs
  <1>6. \A i \in 1..m : /\ g[i] \in Seq(Failure)
                        /\ g[i] = <<>> <=> s[i][field] \notin Wanted(c) /\ (s[i][field] = 0 => Permits(c))
    BY <1>1, <1>2, <1>3, FailIs DEF Permits
  <1>7. f \in [1..m -> Seq(Failure)] /\ g \in [1..m -> Seq(Failure)]
    BY <1>5, <1>6
  <1> HIDE DEF f, g
  <1>8. FlattenSeq(f) \in Seq(Failure) /\ FlattenSeq(g) \in Seq(Failure)
    BY <1>1, <1>7, FlattenFunction
  <1>9. FlattenSeq(f) = <<>> <=> \A i \in 1..m : f[i] = <<>>
    <2>1. m \in Nat /\ f \in [1..m -> Seq(Failure)]
      BY <1>1, <1>7
    <2> QED
      BY <2>1, FlattenFunction
  <1>10. FlattenSeq(g) = <<>> <=> \A i \in 1..m : g[i] = <<>>
    <2>1. m \in Nat /\ g \in [1..m -> Seq(Failure)]
      BY <1>1, <1>7
    <2> QED
      BY <2>1, FlattenFunction
  <1>11. FlattenSeq(f) = <<>> <=> \A n \in ToSet(s) : n[field] \in Wanted(c)
    BY <1>1, <1>5, <1>9
  <1>12. FlattenSeq(g) = <<>> <=>
            \A n \in ToSet(s) : n[field] \notin Wanted(c) /\ (n[field] = 0 => Permits(c))
    BY <1>1, <1>6, <1>10
  <1> QED
    BY <1>4, <1>8, <1>11, <1>12 DEF s

LEMMA LocalityChecked ==
    ASSUME NEW c \in Constraint, NEW candidate \in CandidatePath
    PROVE  /\ check_locality_scope(c, candidate) \in Seq(Failure)
           /\ check_locality_scope(c, candidate) = <<>> <=>
                \A n \in ToSet(candidate.nodes) : find(n.localities, c.domain_kind) = c.locality_domain
  <1> DEFINE s == candidate.nodes
             m == Len(s)
             membership(n) == find(n.localities, c.domain_kind)
             f == [i \in 1..m |->
                     IF membership(s[i]) = NoRef
                     THEN Fail("LocalityEvidenceUnavailable", NodeSubject(s[i]))
                     ELSE IF membership(s[i]) # c.locality_domain
                     THEN Fail("LocalityScopeViolated", NodeSubject(s[i])) ELSE Pass]
  <1>1. /\ m \in Nat /\ DOMAIN s = 1..m /\ ToSet(s) = {s[i] : i \in 1..m}
        /\ \A i \in 1..m : NodeSubject(s[i]) \in Nat \X Nat
    BY CandidateParts
  <1>2. "LocalityEvidenceUnavailable" \in MandatoryCode /\ "LocalityScopeViolated" \in MandatoryCode
    BY MandatoryCodes
  <1>3. c.locality_domain # NoRef
    BY DEF Constraint, NoRef
  <1>4. check_locality_scope(c, candidate) = FlattenSeq(f)
    BY <1>1 DEF check_locality_scope, ForEach
  <1> HIDE DEF s, m, membership
  <1>5. \A i \in 1..m : f[i] \in Seq(Failure) /\ (f[i] = <<>> <=> membership(s[i]) = c.locality_domain)
    BY <1>1, <1>2, <1>3, FailIs
  <1>6. f \in [1..m -> Seq(Failure)]
    BY <1>5
  <1> HIDE DEF f
  <1>7. FlattenSeq(f) \in Seq(Failure)
    BY <1>1, <1>6, FlattenFunction
  <1>8. FlattenSeq(f) = <<>> <=> \A i \in 1..m : f[i] = <<>>
    <2>1. m \in Nat
      BY <1>1
    <2> QED
      BY <1>6, <2>1, FlattenFunction
  <1>9. FlattenSeq(f) = <<>> <=> \A n \in ToSet(s) : membership(n) = c.locality_domain
    BY <1>1, <1>5, <1>8
  <1> QED
    BY <1>4, <1>7, <1>9 DEF s, membership

LEMMA PolicyChecked ==
    ASSUME NEW c \in Constraint, validate_constraint(c), c.kind \in DOMAIN ListOf,
           NEW candidate \in CandidatePath, NEW current, current["Policy"] \in Nat
    PROVE  /\ check_administrative_policy(c, candidate, current) \in Seq(Failure)
           /\ check_administrative_policy(c, candidate, current) = <<>> <=>
                \A w \in Wanted(c) : find(candidate.policies, w) = current["Policy"]
  <1> DEFINE s == items(c)
             n == Len(s)
             attested(w) == find(candidate.policies, w)
             f == [i \in 1..n |->
                     IF attested(s[i]) = NoRef THEN Fail("AdministrativePolicyNotSatisfied", <<9, s[i]>>)
                     ELSE IF attested(s[i]) # current["Policy"]
                     THEN Fail("PolicyEvidenceUnavailable", <<9, s[i]>>) ELSE Pass]
  <1>1. /\ n \in Nat /\ DOMAIN s = 1..n /\ \A i \in 1..n : s[i] \in Nat
        /\ Wanted(c) = {s[i] : i \in 1..n}
    BY ListedItems
  <1>2. "AdministrativePolicyNotSatisfied" \in MandatoryCode /\ "PolicyEvidenceUnavailable" \in MandatoryCode
    BY MandatoryCodes
  <1>3. current["Policy"] # NoRef
    BY DEF NoRef
  <1>4. check_administrative_policy(c, candidate, current) = FlattenSeq(f)
    BY <1>1 DEF check_administrative_policy, ForEach
  <1> HIDE DEF s, n, attested
  <1>5. \A i \in 1..n : <<9, s[i]>> \in Nat \X Nat
    BY <1>1
  <1>6. \A i \in 1..n : f[i] \in Seq(Failure) /\ (f[i] = <<>> <=> attested(s[i]) = current["Policy"])
    BY <1>2, <1>3, <1>5, FailIs
  <1>7. f \in [1..n -> Seq(Failure)]
    BY <1>6
  <1> HIDE DEF f
  <1>8. FlattenSeq(f) \in Seq(Failure)
    BY <1>1, <1>7, FlattenFunction
  <1>9. FlattenSeq(f) = <<>> <=> \A i \in 1..n : f[i] = <<>>
    BY <1>1, <1>7, FlattenFunction
  <1>10. FlattenSeq(f) = <<>> <=> \A w \in Wanted(c) : attested(w) = current["Policy"]
    BY <1>1, <1>6, <1>9
  <1> QED
    BY <1>4, <1>8, <1>10 DEF attested

\* What is kept of a node or a link for the checks of every entity.
EntityFact == [subject : Nat \X Nat, domains : Refs, capabilities : Refs, isolation : Refs]

Entities(candidate) == ToSet(candidate.nodes) \cup ToSet(candidate.links)

\* e is the entity of the fact x.
Carries(e, x) == e.domains = x.domains /\ e.capabilities = x.capabilities /\ e.isolation = x.isolation

LEMMA EntitiesAre ==
    ASSUME NEW candidate \in CandidatePath
    PROVE  LET e == entities_of(candidate)
               m == Len(candidate.nodes) + Len(candidate.links)
           IN /\ m \in Nat /\ e \in [1..m -> EntityFact] /\ Len(e) = m
              /\ \A i \in 1..m : \E x \in Entities(candidate) : Carries(e[i], x)
              /\ \A x \in Entities(candidate) : \E i \in 1..m : Carries(e[i], x)
              /\ \A x \in Entities(candidate) :
                    x.domains \in Refs /\ x.capabilities \in Refs /\ x.isolation \in Refs
  <1> DEFINE nodes == candidate.nodes
             links == candidate.links
             a == Len(nodes)
             b == Len(links)
             m == a + b
             first == [i \in 1..a |-> Entity(NodeSubject(nodes[i]), nodes[i])]
             second == [i \in 1..b |-> Entity(LinkSubject(links[i]), links[i])]
             e == entities_of(candidate)
  <1>1. /\ a \in Nat /\ DOMAIN nodes = 1..a /\ b \in Nat /\ DOMAIN links = 1..b
        /\ \A i \in 1..a : nodes[i] \in NodeFact /\ NodeSubject(nodes[i]) \in Nat \X Nat
        /\ \A i \in 1..b : links[i] \in LinkFact /\ LinkSubject(links[i]) \in Nat \X Nat
        /\ ToSet(nodes) = {nodes[i] : i \in 1..a}
        /\ ToSet(links) = {links[i] : i \in 1..b}
    BY CandidateParts
  <1>2. e = first \o second
    BY <1>1 DEF entities_of
  <1>3. Entities(candidate) = ToSet(nodes) \cup ToSet(links)
    BY DEF Entities
  <1> HIDE DEF nodes, links, a, b, e
  <1>4. \A i \in 1..a : first[i] \in EntityFact /\ Carries(first[i], nodes[i])
    BY <1>1 DEF NodeFact, Entity, EntityFact, Carries
  <1>5. \A i \in 1..b : second[i] \in EntityFact /\ Carries(second[i], links[i])
    BY <1>1 DEF LinkFact, Entity, EntityFact, Carries
  <1>6. first \in [1..a -> EntityFact] /\ second \in [1..b -> EntityFact]
    BY <1>4, <1>5
  <1> HIDE DEF first, second
  <1>7. first \in Seq(EntityFact) /\ Len(first) = a /\ second \in Seq(EntityFact) /\ Len(second) = b
    BY <1>1, <1>6
  <1>14. a \in Nat /\ b \in Nat
    BY <1>1
  <1>8. e \in Seq(EntityFact) /\ Len(e) = m
    BY <1>2, <1>7, <1>14, ConcatIs
  <1>9. e \in [1..m -> EntityFact] /\ m \in Nat
    BY <1>1, <1>8
  <1>10. /\ \A i \in 1..a : i \in 1..m /\ e[i] = first[i]
         /\ \A i \in 1..b : a + i \in 1..m /\ e[a + i] = second[i]
         /\ \A i \in 1..m : \/ i \in 1..a /\ e[i] = first[i]
                            \/ i - a \in 1..b /\ e[i] = second[i - a]
    <2>1. \A i \in 1..a : i \in 1..m /\ e[i] = first[i]
      BY <1>2, <1>7, ConcatIs, SMTT(60)
    <2>2. \A i \in 1..b : a + i \in 1..m /\ e[a + i] = second[i]
      BY <1>2, <1>7, ConcatIs, SMTT(60)
    <2>3. \A i \in 1..m :
             \/ i \in 1..a /\ e[i] = first[i]
             \/ i - a \in 1..b /\ e[i] = second[i - a]
      BY <1>2, <1>7, ConcatIs, SMTT(60)
    <2> QED
      BY <2>1, <2>2, <2>3
  <1>11. \A i \in 1..m : \E x \in Entities(candidate) : Carries(e[i], x)
    <2> SUFFICES ASSUME NEW i \in 1..m PROVE \E x \in Entities(candidate) : Carries(e[i], x)
      OBVIOUS
    <2>1. CASE i \in 1..a /\ e[i] = first[i]
      <3>1. nodes[i] \in Entities(candidate) /\ Carries(e[i], nodes[i])
        BY <1>1, <1>3, <1>4, <2>1
      <3> QED
        BY <3>1
    <2>2. CASE i - a \in 1..b /\ e[i] = second[i - a]
      <3>1. links[i - a] \in Entities(candidate) /\ Carries(e[i], links[i - a])
        BY <1>1, <1>3, <1>5, <2>2
      <3> QED
        BY <3>1
    <2> QED
      BY <1>10, <2>1, <2>2
  <1>12. \A x \in Entities(candidate) : \E i \in 1..m : Carries(e[i], x)
    <2> SUFFICES ASSUME NEW x \in Entities(candidate) PROVE \E i \in 1..m : Carries(e[i], x)
      OBVIOUS
    <2>1. CASE x \in ToSet(nodes)
      <3>1. PICK i \in 1..a : x = nodes[i]
        BY <1>1, <2>1
      <3>2. i \in 1..m /\ Carries(e[i], x)
        BY <1>4, <1>10, <3>1
      <3> QED
        BY <3>2
    <2>2. CASE x \in ToSet(links)
      <3>1. PICK i \in 1..b : x = links[i]
        BY <1>1, <2>2
      <3>2. a + i \in 1..m /\ Carries(e[a + i], x)
        BY <1>5, <1>10, <3>1
      <3> QED
        BY <3>2
    <2> QED
      BY <1>3, <2>1, <2>2
  <1>13. \A x \in Entities(candidate) :
            x.domains \in Refs /\ x.capabilities \in Refs /\ x.isolation \in Refs
    <2> SUFFICES ASSUME NEW x \in Entities(candidate)
                 PROVE  x.domains \in Refs /\ x.capabilities \in Refs /\ x.isolation \in Refs
      OBVIOUS
    <2>1. x \in NodeFact \/ x \in LinkFact
      BY <1>1, <1>3
    <2> QED
      BY <2>1 DEF NodeFact, LinkFact
  <1> QED
    BY <1>8, <1>9, <1>11, <1>12, <1>13 DEF m, a, b, nodes, links, e


LEMMA IsolationChecked ==
    ASSUME NEW c \in Constraint, NEW candidate \in CandidatePath,
           NEW current, current["FailureDomain"] \in Nat
    PROVE  /\ check_isolation_class(c, candidate, current) \in Seq(Failure)
           /\ check_isolation_class(c, candidate, current) = <<>> <=>
                \A x \in Entities(candidate) :
                   find(x.isolation, c.isolation_class) = current["FailureDomain"]
  <1> DEFINE s == entities_of(candidate)
             m == Len(candidate.nodes) + Len(candidate.links)
             proof(x) == find(x.isolation, c.isolation_class)
             f == [i \in 1..m |->
                     IF s[i].isolation = {} THEN Fail("IsolationEvidenceUnavailable", s[i].subject)
                     ELSE IF proof(s[i]) = NoRef THEN Fail("IsolationClassNotProven", s[i].subject)
                     ELSE IF proof(s[i]) # current["FailureDomain"]
                     THEN Fail("IsolationEvidenceUnavailable", s[i].subject) ELSE Pass]
  <1>1. m \in Nat /\ s \in [1..m -> EntityFact]
    BY EntitiesAre
  <1>2. \A i \in 1..m : \E x \in Entities(candidate) : Carries(s[i], x)
    BY EntitiesAre
  <1>3. \A x \in Entities(candidate) : \E i \in 1..m : Carries(s[i], x)
    BY EntitiesAre
  <1>4. "IsolationEvidenceUnavailable" \in MandatoryCode /\ "IsolationClassNotProven" \in MandatoryCode
    BY MandatoryCodes
  <1>5. current["FailureDomain"] # NoRef
    BY DEF NoRef
  <1>6. DOMAIN s = 1..m
    BY <1>1
  <1>7. check_isolation_class(c, candidate, current) = FlattenSeq(f)
    BY <1>6 DEF check_isolation_class, ForEach
  <1>8. \A x : x.isolation = {} => proof(x) = NoRef
    BY DEF find
  <1>9. \A i \in 1..m, x \in Entities(candidate) : Carries(s[i], x) => proof(s[i]) = proof(x)
    BY DEF Carries
  <1> HIDE DEF s, m, proof
  <1>10. \A i \in 1..m : s[i].subject \in Nat \X Nat
    BY <1>1 DEF EntityFact
  <1>11. \A i \in 1..m : f[i] \in Seq(Failure) /\ (f[i] = <<>> <=> proof(s[i]) = current["FailureDomain"])
    BY <1>4, <1>5, <1>8, <1>10, FailIs
  <1>12. f \in [1..m -> Seq(Failure)]
    BY <1>11
  <1>13. m \in Nat
    BY <1>1
  <1> HIDE DEF f
  <1>14. FlattenSeq(f) \in Seq(Failure)
    BY <1>12, <1>13, FlattenFunction
  <1>15. FlattenSeq(f) = <<>> <=> \A i \in 1..m : f[i] = <<>>
    BY <1>12, <1>13, FlattenFunction
  <1>16. (\A i \in 1..m : proof(s[i]) = current["FailureDomain"]) <=>
            \A x \in Entities(candidate) : proof(x) = current["FailureDomain"]
    BY <1>2, <1>3, <1>9
  <1> QED
    BY <1>7, <1>11, <1>14, <1>15, <1>16 DEF proof

LEMMA RequiredCapabilityChecked ==
    ASSUME NEW c \in Constraint, validate_constraint(c), c.kind \in DOMAIN ListOf,
           NEW candidate \in CandidatePath, NEW current
    PROVE  /\ check_required_capability(c, candidate, current) \in Seq(Failure)
           /\ check_required_capability(c, candidate, current) = <<>> <=>
                \A x \in Entities(candidate), w \in Wanted(c) :
                   find(x.capabilities, w) = current["Capability"]
  <1> DEFINE s == entities_of(candidate)
             m == Len(candidate.nodes) + Len(candidate.links)
             q == items(c)
             n == Len(q)
             g(w) == [j \in 1..m |-> IF find(s[j].capabilities, w) # current["Capability"]
                                     THEN Fail("CapabilityEvidenceUnavailable", s[j].subject) ELSE Pass]
             f == [i \in 1..n |-> FlattenSeq(g(q[i]))]
  <1>1. m \in Nat /\ s \in [1..m -> EntityFact]
    BY EntitiesAre
  <1>2. \A i \in 1..m : \E x \in Entities(candidate) : Carries(s[i], x)
    BY EntitiesAre
  <1>3. \A x \in Entities(candidate) : \E i \in 1..m : Carries(s[i], x)
    BY EntitiesAre
  <1>4. "CapabilityEvidenceUnavailable" \in MandatoryCode
    BY MandatoryCodes
  <1>5. n \in Nat /\ DOMAIN q = 1..n /\ Wanted(c) = {q[i] : i \in 1..n}
    BY ListedItems
  <1>6. DOMAIN s = 1..m
    BY <1>1
  <1>7. check_required_capability(c, candidate, current) = FlattenSeq(f)
    BY <1>5, <1>6 DEF check_required_capability, ForEach
  <1> HIDE DEF s, m, q, n
  <1>8. \A j \in 1..m : s[j].subject \in Nat \X Nat
    BY <1>1 DEF EntityFact
  <1>9. ASSUME NEW w
        PROVE  /\ FlattenSeq(g(w)) \in Seq(Failure)
               /\ FlattenSeq(g(w)) = <<>> <=>
                     \A j \in 1..m : find(s[j].capabilities, w) = current["Capability"]
    <2> DEFINE h == g(w)
    <2>1. \A j \in 1..m : /\ h[j] \in Seq(Failure)
                          /\ h[j] = <<>> <=> find(s[j].capabilities, w) = current["Capability"]
      BY <1>4, <1>8, FailIs
    <2>2. h \in [1..m -> Seq(Failure)] /\ m \in Nat
      BY <1>1, <2>1
    <2> HIDE DEF h
    <2>3. FlattenSeq(h) \in Seq(Failure)
      BY <2>2, FlattenFunction
    <2>4. FlattenSeq(h) = <<>> <=> \A j \in 1..m : h[j] = <<>>
      BY <2>2, FlattenFunction
    <2>5. /\ FlattenSeq(h) \in Seq(Failure)
          /\ FlattenSeq(h) = <<>> <=> \A j \in 1..m : find(s[j].capabilities, w) = current["Capability"]
      BY <2>1, <2>3, <2>4
    <2> QED
      BY <2>5 DEF h
  <1> HIDE DEF g
  <1>10. \A i \in 1..n : /\ f[i] \in Seq(Failure)
                         /\ f[i] = <<>> <=>
                               \A j \in 1..m : find(s[j].capabilities, q[i]) = current["Capability"]
    BY <1>9
  <1>11. f \in [1..n -> Seq(Failure)] /\ n \in Nat
    BY <1>5, <1>10
  <1> HIDE DEF f
  <1>12. FlattenSeq(f) \in Seq(Failure)
    BY <1>11, FlattenFunction
  <1>13. FlattenSeq(f) = <<>> <=> \A i \in 1..n : f[i] = <<>>
    BY <1>11, FlattenFunction
  <1>14. FlattenSeq(f) = <<>> <=>
            \A w \in Wanted(c) : \A j \in 1..m : find(s[j].capabilities, w) = current["Capability"]
    BY <1>5, <1>10, <1>13
  <1>15. \A w : (\A j \in 1..m : find(s[j].capabilities, w) = current["Capability"]) <=>
                   \A x \in Entities(candidate) : find(x.capabilities, w) = current["Capability"]
    BY <1>2, <1>3 DEF Carries
  <1> QED
    BY <1>7, <1>12, <1>14, <1>15

LEMMA ForbiddenCapabilityChecked ==
    ASSUME NEW c \in Constraint, validate_constraint(c), c.kind \in DOMAIN ListOf,
           NEW candidate \in CandidatePath, Len(candidate.nodes) # 0,
           NEW current, current["Capability"] \in Nat
    PROVE  /\ check_forbidden_capability(c, candidate, current) \in Seq(Failure)
           /\ check_forbidden_capability(c, candidate, current) = <<>> <=>
                Permits(c) /\ \A x \in Entities(candidate) :
                                 Wanted(c) \cap {r[1] : r \in x.capabilities} = {}
  <1> DEFINE s == entities_of(candidate)
             m == Len(candidate.nodes) + Len(candidate.links)
             q == items(c)
             n == Len(q)
             g(w) == [j \in 1..m |->
                        IF find(s[j].capabilities, w) = NoRef /\ c.unknown_policy # "FailClosed" THEN Pass
                        ELSE IF find(s[j].capabilities, w) # current["Capability"]
                        THEN Fail("CapabilityEvidenceUnavailable", s[j].subject)
                        ELSE Fail("ForbiddenCapabilityPresent", s[j].subject)]
             f == [i \in 1..n |-> FlattenSeq(g(q[i]))]
  <1>1. m \in Nat /\ s \in [1..m -> EntityFact]
    BY EntitiesAre
  <1>2. \A i \in 1..m : \E x \in Entities(candidate) : Carries(s[i], x)
    BY EntitiesAre
  <1>3. \A x \in Entities(candidate) : \E i \in 1..m : Carries(s[i], x)
    BY EntitiesAre
  <1>4. "CapabilityEvidenceUnavailable" \in MandatoryCode /\ "ForbiddenCapabilityPresent" \in MandatoryCode
    BY MandatoryCodes
  <1>5. n \in Nat \ {0} /\ DOMAIN q = 1..n /\ Wanted(c) = {q[i] : i \in 1..n}
    BY ListedItems
  <1>6. DOMAIN s = 1..m
    BY <1>1
  <1>7. check_forbidden_capability(c, candidate, current) = FlattenSeq(f)
    BY <1>5, <1>6 DEF check_forbidden_capability, ForEach
  <1>8. m # 0
    <2> DEFINE a == Len(candidate.nodes)
               b == Len(candidate.links)
    <2>1. a \in Nat /\ b \in Nat /\ a # 0 /\ m = a + b
      BY CandidateParts
    <2> HIDE DEF a, b, m
    <2> QED
      BY <2>1
  <1>9. c.unknown_policy \in {"FailClosed", "PermitUnknownNegative"}
    BY DEF Constraint
  <1> HIDE DEF s, m, q, n
  <1>10. \A j \in 1..m : s[j].subject \in Nat \X Nat
    BY <1>1 DEF EntityFact
  <1>11. ASSUME NEW w
         PROVE  /\ FlattenSeq(g(w)) \in Seq(Failure)
                /\ FlattenSeq(g(w)) = <<>> <=>
                      \A j \in 1..m : Permits(c) /\ find(s[j].capabilities, w) = NoRef
    <2> DEFINE h == g(w)
    <2>1. \A j \in 1..m : /\ h[j] \in Seq(Failure)
                          /\ h[j] = <<>> <=> Permits(c) /\ find(s[j].capabilities, w) = NoRef
      BY <1>4, <1>9, <1>10, FailIs DEF Permits
    <2>2. h \in [1..m -> Seq(Failure)] /\ m \in Nat
      BY <1>1, <2>1
    <2> HIDE DEF h
    <2>3. FlattenSeq(h) \in Seq(Failure)
      BY <2>2, FlattenFunction
    <2>4. FlattenSeq(h) = <<>> <=> \A j \in 1..m : h[j] = <<>>
      BY <2>2, FlattenFunction
    <2>5. /\ FlattenSeq(h) \in Seq(Failure)
          /\ FlattenSeq(h) = <<>> <=> \A j \in 1..m : Permits(c) /\ find(s[j].capabilities, w) = NoRef
      BY <2>1, <2>3, <2>4
    <2> QED
      BY <2>5 DEF h
  <1> HIDE DEF g
  <1>12. \A i \in 1..n : /\ f[i] \in Seq(Failure)
                         /\ f[i] = <<>> <=>
                               \A j \in 1..m : Permits(c) /\ find(s[j].capabilities, q[i]) = NoRef
    BY <1>11
  <1>13. f \in [1..n -> Seq(Failure)] /\ n \in Nat
    BY <1>5, <1>12
  <1> HIDE DEF f
  <1>14. FlattenSeq(f) \in Seq(Failure)
    BY <1>13, FlattenFunction
  <1>15. FlattenSeq(f) = <<>> <=> \A i \in 1..n : f[i] = <<>>
    BY <1>13, FlattenFunction
  <1>16. FlattenSeq(f) = <<>> <=>
            \A w \in Wanted(c) : \A j \in 1..m : Permits(c) /\ find(s[j].capabilities, w) = NoRef
    BY <1>5, <1>12, <1>15
  <1>17. 1 \in 1..m /\ q[1] \in Wanted(c)
    BY <1>1, <1>5, <1>8
  <1>18. FlattenSeq(f) = <<>> <=>
            Permits(c) /\ \A w \in Wanted(c) : \A j \in 1..m : find(s[j].capabilities, w) = NoRef
    BY <1>16, <1>17
  <1>19. \A w : (\A j \in 1..m : find(s[j].capabilities, w) = NoRef) <=>
                   \A x \in Entities(candidate) : find(x.capabilities, w) = NoRef
    BY <1>2, <1>3 DEF Carries
  <1>20. \A x \in Entities(candidate) : x.capabilities \in Refs
    BY EntitiesAre
  <1>21. \A x \in Entities(candidate) : \A w : find(x.capabilities, w) = NoRef <=>
                                                 w \notin {r[1] : r \in x.capabilities}
    BY <1>20, FindIs
  <1>22. FlattenSeq(f) = <<>> <=>
            Permits(c) /\ \A x \in Entities(candidate) :
                             \A w \in Wanted(c) : w \notin {r[1] : r \in x.capabilities}
    BY <1>18, <1>19, <1>21
  <1>23. \A x : (\A w \in Wanted(c) : w \notin {r[1] : r \in x.capabilities}) <=>
                   Wanted(c) \cap {r[1] : r \in x.capabilities} = {}
    OBVIOUS
  <1> QED
    BY <1>7, <1>14, <1>22, <1>23


\* Every entity is in a domain of the kind.
Complete(candidate, kind) == \A x \in Entities(candidate) : find(x.domains, kind) # NoRef

LEMMA ScanIs ==
    ASSUME NEW candidate \in CandidatePath, Len(candidate.nodes) # 0, NEW kind
    PROVE  LET scan == scan_domains(candidate, kind)
           IN /\ scan.complete \in BOOLEAN /\ scan.first \in Nat \X Nat
              /\ scan.complete <=> Complete(candidate, kind)
              /\ scan.domains = Domains(candidate, kind)
              /\ Cardinality(scan.domains) \in Nat
              /\ scan.complete => Cardinality(scan.domains) >= 1
  <1> DEFINE s == entities_of(candidate)
             m == Len(candidate.nodes) + Len(candidate.links)
             domain(x) == find(x.domains, kind)
             I == {i \in 1..m : domain(s[i]) = NoRef}
             incomplete == SelectInSeq(s, LAMBDA e : find(e.domains, kind) = NoRef)
             scan == scan_domains(candidate, kind)
             D == Domains(candidate, kind)
  <1>1. m \in Nat /\ s \in [1..m -> EntityFact] /\ Len(s) = m
    BY EntitiesAre
  <1>2. \A i \in 1..m : \E x \in Entities(candidate) : Carries(s[i], x)
    BY EntitiesAre
  <1>3. \A x \in Entities(candidate) : \E i \in 1..m : Carries(s[i], x)
    BY EntitiesAre
  <1>4. DOMAIN s = 1..m
    BY <1>1
  <1>5. \A i \in 1..m, x \in Entities(candidate) : Carries(s[i], x) => domain(s[i]) = domain(x)
    BY DEF Carries
  <1>6. /\ scan.complete = (incomplete = 0)
        /\ scan.domains = {domain(s[i]) : i \in 1..m} \ {NoRef}
        /\ scan.first = IF incomplete = 0 THEN <<0, 0>> ELSE s[incomplete].subject
    BY <1>4 DEF scan_domains
  <1>7. incomplete = IF I # {} THEN Min(I) ELSE 0
    BY <1>1 DEF SelectInSeq
  <1>8. D = {domain(x) : x \in Entities(candidate)} \ {NoRef}
    BY DEF Domains, Entities
  <1>9. \E x : x \in Entities(candidate)
    <2>1. /\ Len(candidate.nodes) \in Nat
          /\ ToSet(candidate.nodes) = {candidate.nodes[i] : i \in 1..Len(candidate.nodes)}
      BY CandidateParts
    <2>2. 1 \in 1..Len(candidate.nodes)
      BY <2>1
    <2>3. candidate.nodes[1] \in ToSet(candidate.nodes)
      BY <2>1, <2>2
    <2> QED
      BY <2>3 DEF Entities
  <1>10. Complete(candidate, kind) <=> \A x \in Entities(candidate) : domain(x) # NoRef
    BY DEF Complete
  <1> HIDE DEF s, m, domain, incomplete, scan, D
  <1>11. IF I = {} THEN incomplete = 0 ELSE incomplete \in 1..m
    <2>1. CASE I = {}
      BY <1>7, <2>1
    <2>2. CASE I # {}
      <3>1. I \in SUBSET Nat
        BY <1>1
      <3>2. PICK i \in I : \A j \in I : i <= j
        BY <2>2, <3>1, Least
      <3>3. Min(I) \in I
        BY <3>2 DEF Min
      <3>4. incomplete \in I
        BY <1>7, <2>2, <3>3
      <3> QED
        BY <2>2, <3>4
    <2> QED
      BY <2>1, <2>2
  <1>12. incomplete = 0 <=> I = {}
    BY <1>1, <1>11
  <1>13. I = {} <=> \A i \in 1..m : domain(s[i]) # NoRef
    OBVIOUS
  <1>14. (\A i \in 1..m : domain(s[i]) # NoRef) <=> \A x \in Entities(candidate) : domain(x) # NoRef
    BY <1>2, <1>3, <1>5
  <1>15. scan.first \in Nat \X Nat
    <2>1. \A i \in 1..m : s[i].subject \in Nat \X Nat
      BY <1>1 DEF EntityFact
    <2>2. <<0, 0>> \in Nat \X Nat
      OBVIOUS
    <2> QED
      BY <1>6, <1>11, <1>12, <2>1, <2>2
  <1> HIDE DEF I
  <1>16. scan.complete \in BOOLEAN /\ (scan.complete <=> Complete(candidate, kind))
    BY <1>6, <1>10, <1>12, <1>13, <1>14
  <1>17. scan.domains = D
    <2>1. \A y : y \in scan.domains => y \in D
      BY <1>2, <1>5, <1>6, <1>8
    <2>2. \A y : y \in D => y \in scan.domains
      BY <1>3, <1>5, <1>6, <1>8
    <2> QED
      BY <2>1, <2>2
  <1>18. Cardinality(D) \in Nat
    <2>1. candidate.nodes \in Seq(NodeFact) /\ candidate.links \in Seq(LinkFact)
      BY CandidateParts
    <2> QED
      BY <2>1, DomainsAreFinite DEF D
  <1>19. ASSUME scan.complete PROVE Cardinality(D) >= 1
    <2>1. \A x \in Entities(candidate) : domain(x) \in D
      BY <1>8, <1>10, <1>16, <1>19
    <2>2. D # {}
      BY <1>9, <2>1
    <2>3. IsFiniteSet(D)
      <3>1. IsFiniteSet(Entities(candidate))
        <4>1. candidate.nodes \in Seq(NodeFact) /\ candidate.links \in Seq(LinkFact)
          BY CandidateParts
        <4>2. IsFiniteSet(ToSet(candidate.nodes)) /\ IsFiniteSet(ToSet(candidate.links))
          BY <4>1, ElementsAreFinite
        <4> QED
          BY <4>2, FS_Union DEF Entities
      <3> DEFINE all == {domain(x) : x \in Entities(candidate)}
                 image == [x \in Entities(candidate) |-> domain(x)]
      <3>2. image \in Surjection(Entities(candidate), all)
        BY DEF Surjection
      <3>3. IsFiniteSet(all)
        BY <3>1, <3>2, FS_Surjection
      <3>4. D \subseteq all
        BY <1>8
      <3> QED
        BY <3>3, <3>4, FS_Subset
    <2>4. Cardinality(D) # 0
      BY <2>2, <2>3, FS_EmptySet
    <2> QED
      BY <1>18, <2>4
  <1>20. /\ scan.complete \in BOOLEAN /\ scan.first \in Nat \X Nat
         /\ scan.complete <=> Complete(candidate, kind)
         /\ scan.domains = D
         /\ Cardinality(scan.domains) \in Nat
         /\ scan.complete => Cardinality(scan.domains) >= 1
    BY <1>15, <1>16, <1>17, <1>18, <1>19
  <1> QED
    BY <1>20 DEF scan, D

LEMMA RelationsChecked ==
    ASSUME NEW c \in Constraint, NEW candidate \in CandidatePath, Len(candidate.nodes) # 0
    PROVE  LET n == Cardinality(Domains(candidate, c.domain_kind))
               complete == Complete(candidate, c.domain_kind)
           IN /\ check_required_domain_relation(c, candidate) \in Seq(Failure)
              /\ check_required_domain_relation(c, candidate) = <<>> <=> complete /\ n >= c.bound
              /\ check_forbidden_domain_relation(c, candidate) \in Seq(Failure)
              /\ check_forbidden_domain_relation(c, candidate) = <<>> <=>
                   /\ complete \/ Permits(c)
                   /\ IF c.relation = "Shared" THEN complete => n > 1 ELSE n < c.bound
  <1> DEFINE scan == scan_domains(candidate, c.domain_kind)
             n == Cardinality(Domains(candidate, c.domain_kind))
             complete == Complete(candidate, c.domain_kind)
             subject == <<10, c.domain_kind>>
  <1>1. /\ scan.complete \in BOOLEAN /\ scan.first \in Nat \X Nat
        /\ scan.complete <=> complete
        /\ Cardinality(scan.domains) = n
        /\ n \in Nat
        /\ scan.complete => n >= 1
    BY ScanIs
  <1>2. subject \in Nat \X Nat /\ c.bound \in Int
        /\ c.unknown_policy \in {"FailClosed", "PermitUnknownNegative"}
    BY DEF Constraint
  <1>3. /\ "FailureDomainEvidenceUnavailable" \in MandatoryCode
        /\ "RequiredFailureDomainRelationNotMet" \in MandatoryCode
        /\ "ForbiddenFailureDomainRelationMet" \in MandatoryCode
    BY MandatoryCodes
  <1> DEFINE unknown == Fail("FailureDomainEvidenceUnavailable", scan.first)
             unmet == Fail("RequiredFailureDomainRelationNotMet", subject)
             met == Fail("ForbiddenFailureDomainRelationMet", subject)
             Met == IF c.relation = "Shared" THEN scan.complete /\ Cardinality(scan.domains) = 1
                    ELSE Cardinality(scan.domains) >= c.bound
  <1>4. /\ unknown \in Seq(Failure) /\ unknown # <<>> /\ unmet \in Seq(Failure) /\ unmet # <<>>
        /\ met \in Seq(Failure) /\ met # <<>> /\ Pass \in Seq(Failure) /\ Pass = <<>>
    BY <1>1, <1>2, <1>3, FailIs
  <1>5. check_required_domain_relation(c, candidate)
          = IF ~scan.complete THEN unknown ELSE IF Cardinality(scan.domains) < c.bound THEN unmet ELSE Pass
    BY DEF check_required_domain_relation
  <1>6. check_forbidden_domain_relation(c, candidate)
          = IF ~scan.complete /\ c.unknown_policy = "FailClosed" THEN unknown
            ELSE IF Met THEN met ELSE Pass
    BY DEF check_forbidden_domain_relation
  <1> HIDE DEF unknown, unmet, met, scan, n, complete, subject
  <1>7. /\ check_required_domain_relation(c, candidate) \in Seq(Failure)
        /\ check_required_domain_relation(c, candidate) = <<>> <=> complete /\ n >= c.bound
    BY <1>1, <1>2, <1>4, <1>5
  <1>8. check_forbidden_domain_relation(c, candidate) \in Seq(Failure)
    BY <1>4, <1>6
  <1>9. ~Met <=> IF c.relation = "Shared" THEN complete => n > 1 ELSE n < c.bound
    BY <1>1, <1>2
  <1>10. ~(~scan.complete /\ c.unknown_policy = "FailClosed") <=> complete \/ Permits(c)
    BY <1>1, <1>2 DEF Permits
  <1> HIDE DEF Met
  <1>11. check_forbidden_domain_relation(c, candidate) = <<>> <=>
           /\ complete \/ Permits(c)
           /\ IF c.relation = "Shared" THEN complete => n > 1 ELSE n < c.bound
    BY <1>4, <1>6, <1>9, <1>10
  <1> QED
    BY <1>7, <1>8, <1>11 DEF n, complete


\* What Satisfies says, kind by kind.
LEMMA SatisfiesMeans ==
    ASSUME NEW c, NEW candidate, NEW current
    PROVE  LET nodes == ToSet(candidate.nodes)
               links == ToSet(candidate.links)
               n == Cardinality(Domains(candidate, c.domain_kind))
               complete == Complete(candidate, c.domain_kind)
               Sat == Satisfies(c, candidate, current)
           IN /\ c.kind = "RequiredNode" => (Sat <=> Wanted(c) \subseteq {x.node : x \in nodes})
              /\ c.kind = "ForbiddenNode" => (Sat <=> Wanted(c) \cap {x.node : x \in nodes} = {})
              /\ c.kind = "RequiredLink" => (Sat <=> Wanted(c) \subseteq {x.link : x \in links})
              /\ c.kind = "ForbiddenLink" => (Sat <=> Wanted(c) \cap {x.link : x \in links} = {})
              /\ c.kind = "RequiredTier" => (Sat <=> \A x \in nodes : x["tier"] \in Wanted(c))
              /\ c.kind = "RequiredSite" => (Sat <=> \A x \in nodes : x["site"] \in Wanted(c))
              /\ c.kind = "ForbiddenTier" =>
                   (Sat <=> \A x \in nodes : x["tier"] \notin Wanted(c) /\ (x["tier"] = 0 => Permits(c)))
              /\ c.kind = "ForbiddenSite" =>
                   (Sat <=> \A x \in nodes : x["site"] \notin Wanted(c) /\ (x["site"] = 0 => Permits(c)))
              /\ c.kind = "RequiredCapability" =>
                   (Sat <=> \A x \in Entities(candidate), w \in Wanted(c) :
                               find(x.capabilities, w) = current["Capability"])
              /\ c.kind = "ForbiddenCapability" =>
                   (Sat <=> Permits(c) /\ \A x \in Entities(candidate) :
                                             Wanted(c) \cap {r[1] : r \in x.capabilities} = {})
              /\ c.kind = "AdministrativePolicy" =>
                   (Sat <=> \A w \in Wanted(c) : find(candidate.policies, w) = current["Policy"])
              /\ c.kind = "RequiredFailureDomainRelation" => (Sat <=> complete /\ n >= c.bound)
              /\ c.kind = "ForbiddenFailureDomainRelation" =>
                   (Sat <=> /\ complete \/ Permits(c)
                            /\ IF c.relation = "Shared" THEN complete => n > 1 ELSE n < c.bound)
  <1> DEFINE nodes == ToSet(candidate.nodes)
             links == ToSet(candidate.links)
             n == Cardinality(Domains(candidate, c.domain_kind))
             complete == Complete(candidate, c.domain_kind)
             Sat == Satisfies(c, candidate, current)
  <1>1. Entities(candidate) = nodes \cup links
    BY DEF Entities
  <1>2. CASE c.kind = "RequiredNode"
    BY <1>2 DEF Satisfies, Wanted
  <1>3. CASE c.kind = "ForbiddenNode"
    BY <1>3 DEF Satisfies, Wanted
  <1>4. CASE c.kind = "RequiredLink"
    BY <1>4 DEF Satisfies, Wanted
  <1>5. CASE c.kind = "ForbiddenLink"
    BY <1>5 DEF Satisfies, Wanted
  <1>6. CASE c.kind = "RequiredTier"
    BY <1>6 DEF Satisfies, Wanted
  <1>7. CASE c.kind = "RequiredSite"
    BY <1>7 DEF Satisfies, Wanted
  <1>8. CASE c.kind = "ForbiddenTier"
    BY <1>8 DEF Satisfies, Wanted
  <1>9. CASE c.kind = "ForbiddenSite"
    BY <1>9 DEF Satisfies, Wanted
  <1>10. CASE c.kind = "RequiredCapability"
    BY <1>1, <1>10 DEF Satisfies, Wanted
  <1>11. CASE c.kind = "ForbiddenCapability"
    BY <1>1, <1>11 DEF Satisfies, Wanted
  <1>12. CASE c.kind = "AdministrativePolicy"
    BY <1>12 DEF Satisfies, Wanted
  <1> DEFINE entities == nodes \cup links
             domain == [e \in entities |-> find(e.domains, c.domain_kind)]
  <1>13. (\A e \in entities : domain[e] # NoRef) <=> complete
    BY <1>1 DEF Complete
  <1>14. {domain[e] : e \in entities} \ {NoRef} = Domains(candidate, c.domain_kind)
    BY DEF Domains
  <1>15. CASE c.kind = "RequiredFailureDomainRelation"
    <2>1. Sat <=> /\ \A e \in entities : domain[e] # NoRef
                  /\ Cardinality({domain[e] : e \in entities} \ {NoRef}) >= c.bound
      BY <1>15 DEF Satisfies
    <2>2. Sat <=> complete /\ n >= c.bound
      BY <1>13, <1>14, <2>1
    <2> QED
      BY <1>15, <2>2
  <1>16. CASE c.kind = "ForbiddenFailureDomainRelation"
    <2> DEFINE all == \A e \in entities : domain[e] # NoRef
               D == {domain[e] : e \in entities} \ {NoRef}
    <2>1. Sat <=> /\ all \/ Permits(c)
                  /\ IF c.relation = "Shared" THEN all => Cardinality(D) > 1 ELSE Cardinality(D) < c.bound
      BY <1>16 DEF Satisfies
    <2>2. Sat <=> /\ complete \/ Permits(c)
                  /\ IF c.relation = "Shared" THEN complete => n > 1 ELSE n < c.bound
      BY <1>13, <1>14, <2>1
    <2> QED
      BY <1>16, <2>2
  <1> HIDE DEF Sat, complete, nodes, links, n
  <1>17. CASE c.kind \notin DOMAIN ListOf \cup {"RequiredFailureDomainRelation", "ForbiddenFailureDomainRelation"}
    BY <1>17 DEF ListOf
  <1> QED
    BY <1>2, <1>3, <1>4, <1>5, <1>6, <1>7, <1>8, <1>9, <1>10, <1>11, <1>12, <1>15, <1>16, <1>17
       DEF Sat, complete, nodes, links, n, ListOf


\* What validate_candidate establishes about the shape of a path.
LEMMA ValidShape ==
    ASSUME NEW candidate \in CandidatePath, validate_candidate(candidate) = "None"
    PROVE  /\ Len(candidate.nodes) # 0 /\ Len(candidate.links) # 0
           /\ candidate.hop_count = Len(candidate.links)
           /\ candidate.authority_generation # 0
           /\ candidate.evidence["PathAuthority"] = candidate.authority_generation
  <1>1. candidate.nodes \in Seq(NodeFact) /\ candidate.links \in Seq(LinkFact)
    BY CandidateParts
  <1>2. /\ Len(candidate.nodes) \in Nat /\ Len(candidate.nodes) >= 2
        /\ Len(candidate.links) = Len(candidate.nodes) - 1
    BY <1>1, WellFormed
  <1>3. /\ candidate.hop_count = Len(candidate.links)
        /\ candidate.authority_generation # 0
        /\ candidate.evidence["PathAuthority"] = candidate.authority_generation
    BY DEF validate_candidate
  <1> DEFINE a == Len(candidate.nodes)
             b == Len(candidate.links)
  <1>4. a \in Nat /\ a >= 2 /\ b = a - 1
    BY <1>2
  <1> HIDE DEF a, b
  <1>5. a # 0 /\ b # 0
    BY <1>4
  <1> QED
    BY <1>3, <1>5 DEF a, b

\* What a valid constraint of a numeric kind bounds.
LEMMA ValidBound ==
    ASSUME NEW c \in Constraint, validate_constraint(c)
    PROVE  c.kind \in {"MinBandwidthCapability", "RequiredFailureDomainRelation"} => c.bound >= 1
  <1>1. c.bound \in Int
    BY DEF Constraint
  <1>2. valid_payload(c)
    BY DEF validate_constraint
  <1>3. c.kind \in {"MinBandwidthCapability", "RequiredFailureDomainRelation"} =>
           c.bound \in 1..kMaxFixedPointBound
    BY <1>2 DEF valid_payload
  <1> QED
    BY <1>1, <1>3, LimitsAssumption

\* A mandatory constraint gives a reason exactly when the candidate does not
\* satisfy it.
LEMMA MandatoryIff ==
    ASSUME NEW c \in Constraint, validate_constraint(c),
           NEW candidate \in CandidatePath, validate_candidate(candidate) = "None",
           NEW current \in [Family -> Nat], \A f \in families_of(c) : current[f] # 0
    PROVE  /\ evaluate_mandatory(c, candidate, current) \in Seq(Failure)
           /\ evaluate_mandatory(c, candidate, current) = <<>> <=> Satisfies(c, candidate, current)
  <1> DEFINE nodes == candidate.nodes
             links == candidate.links
             node == [i \in 1..Len(nodes) |-> nodes[i].node]
             link == [i \in 1..Len(links) |-> links[i].link]
             E == evaluate_mandatory(c, candidate, current)
             Sat == Satisfies(c, candidate, current)
             Goal == E \in Seq(Failure) /\ (E = <<>> <=> Sat)
  <1> SUFFICES Goal
    OBVIOUS
  <1>1. /\ Len(nodes) # 0 /\ Len(links) # 0 /\ candidate.hop_count = Len(links)
    BY ValidShape
  <1>2. current["Capability"] \in Nat /\ current["FailureDomain"] \in Nat /\ current["Policy"] \in Nat
    BY DEF Family
  <1>3. /\ Len(nodes) \in Nat /\ DOMAIN nodes = 1..Len(nodes)
        /\ Len(links) \in Nat /\ DOMAIN links = 1..Len(links)
        /\ \A i \in 1..Len(nodes) : nodes[i] \in NodeFact
        /\ \A i \in 1..Len(links) : links[i] \in LinkFact
        /\ ToSet(nodes) = {nodes[i] : i \in 1..Len(nodes)}
        /\ ToSet(links) = {links[i] : i \in 1..Len(links)}
    BY CandidateParts
  <1>4. node \in [1..Len(nodes) -> Nat] /\ link \in [1..Len(links) -> Nat]
    BY <1>3 DEF NodeFact, LinkFact
  <1> DEFINE N == {x.node : x \in ToSet(nodes)}
             L == {x.link : x \in ToSet(links)}
  <1>5. ToSet(node) = N /\ N = {node[i] : i \in 1..Len(nodes)}
    <2>1. ToSet(node) = {node[i] : i \in 1..Len(nodes)}
      BY DEF ToSet
    <2>2. \A x : x \in N <=> x \in {node[i] : i \in 1..Len(nodes)}
      BY <1>3
    <2> QED
      BY <2>1, <2>2
  <1>6. ToSet(link) = L /\ L = {link[i] : i \in 1..Len(links)}
    <2>1. ToSet(link) = {link[i] : i \in 1..Len(links)}
      BY DEF ToSet
    <2>2. \A x : x \in L <=> x \in {link[i] : i \in 1..Len(links)}
      BY <1>3
    <2> QED
      BY <2>1, <2>2
  <1>7. /\ node = [i \in DOMAIN candidate.nodes |-> candidate.nodes[i].node]
        /\ link = [i \in DOMAIN candidate.links |-> candidate.links[i].link]
    BY <1>3
  <1>8. /\ c.kind = "RequiredNode" => E = check_present(c, ToSet(node), 4, "RequiredNodeAbsent")
        /\ c.kind = "ForbiddenNode" => E = check_absent(c, node, 4, "ForbiddenNodePresent")
        /\ c.kind = "RequiredLink" => E = check_present(c, ToSet(link), 5, "RequiredLinkAbsent")
        /\ c.kind = "ForbiddenLink" => E = check_absent(c, link, 5, "ForbiddenLinkPresent")
    BY <1>7 DEF evaluate_mandatory
  <1> HIDE DEF node, link, N, L
  <1>9. CASE c.kind = "MaxLatency"
    <2>1. E = check_max_latency(c, candidate)
      BY <1>9 DEF evaluate_mandatory
    <2>2. Sat <=> candidate.latency.source = c.latency_source /\ candidate.latency.micros <= c.bound
      BY <1>9 DEF Satisfies
    <2> QED
      BY <2>1, <2>2, LatencyChecked
  <1>10. CASE c.kind = "MinBandwidthCapability"
    <2>1. E = check_min_bandwidth(c, candidate, current)
      BY <1>10 DEF evaluate_mandatory
    <2>2. Sat <=> \A l \in ToSet(candidate.links) : /\ l.bandwidth.model # "None"
                                                   /\ l.bandwidth.generation = current["Capability"]
                                                   /\ l.bandwidth.bits_per_second >= c.bound
      BY <1>10 DEF Satisfies
    <2>3. current["Capability"] \in Nat \ {0} /\ c.bound >= 1
      BY <1>2, <1>10, KindFamilies, ValidBound
    <2> HIDE DEF E, Sat
    <2> QED
      BY <1>1, <2>1, <2>2, <2>3, BandwidthChecked
  <1>11. CASE c.kind = "MaxHopCount"
    <2>1. E = check_max_hop_count(c, candidate)
      BY <1>11 DEF evaluate_mandatory
    <2>2. Sat <=> Len(candidate.links) <= c.bound
      BY <1>11 DEF Satisfies
    <2> QED
      BY <1>1, <2>1, <2>2, HopsChecked
  <1>12. CASE c.kind = "LocalityScope"
    <2>1. E = check_locality_scope(c, candidate)
      BY <1>12 DEF evaluate_mandatory
    <2>2. Sat <=> \A n \in ToSet(candidate.nodes) : find(n.localities, c.domain_kind) = c.locality_domain
      BY <1>12 DEF Satisfies
    <2> HIDE DEF E, Sat
    <2> QED
      BY <2>1, <2>2, LocalityChecked
  <1>13. CASE c.kind = "IsolationClass"
    <2>1. E = check_isolation_class(c, candidate, current)
      BY <1>13 DEF evaluate_mandatory
    <2>2. Sat <=> \A x \in Entities(candidate) :
                     find(x.isolation, c.isolation_class) = current["FailureDomain"]
      BY <1>13 DEF Satisfies, Entities
    <2> HIDE DEF E, Sat
    <2> QED
      BY <1>2, <2>1, <2>2, IsolationChecked
  <1>14. CASE c.kind \in {"RequiredFailureDomainRelation", "ForbiddenFailureDomainRelation"}
    <2> DEFINE n == Cardinality(Domains(candidate, c.domain_kind))
               complete == Complete(candidate, c.domain_kind)
               free == /\ complete \/ Permits(c)
                       /\ IF c.relation = "Shared" THEN complete => n > 1 ELSE n < c.bound
    <2>1. /\ c.kind = "RequiredFailureDomainRelation" => E = check_required_domain_relation(c, candidate)
          /\ c.kind = "ForbiddenFailureDomainRelation" => E = check_forbidden_domain_relation(c, candidate)
      BY DEF evaluate_mandatory
    <2>2. /\ c.kind = "RequiredFailureDomainRelation" => (Sat <=> complete /\ n >= c.bound)
          /\ c.kind = "ForbiddenFailureDomainRelation" => (Sat <=> free)
      BY SatisfiesMeans
    <2>3. /\ check_required_domain_relation(c, candidate) \in Seq(Failure)
          /\ check_required_domain_relation(c, candidate) = <<>> <=> complete /\ n >= c.bound
          /\ check_forbidden_domain_relation(c, candidate) \in Seq(Failure)
          /\ check_forbidden_domain_relation(c, candidate) = <<>> <=> free
      BY <1>1, RelationsChecked
    <2> HIDE DEF n, complete, free, E, Sat
    <2> QED
      BY <1>14, <2>1, <2>2, <2>3
  <1>15. CASE c.kind \in DOMAIN ListOf
    <2>1. CASE c.kind \in {"RequiredNode", "RequiredLink"}
      <3>1. "RequiredNodeAbsent" \in MandatoryCode /\ "RequiredLinkAbsent" \in MandatoryCode
        BY MandatoryCodes
      <3>2. /\ c.kind = "RequiredNode" => (Sat <=> Wanted(c) \subseteq ToSet(node))
            /\ c.kind = "RequiredLink" => (Sat <=> Wanted(c) \subseteq ToSet(link))
        BY <1>5, <1>6, SatisfiesMeans DEF N, L
      <3> HIDE DEF E, Sat
      <3>3. CASE c.kind = "RequiredNode"
        <4> DEFINE present == ToSet(node)
        <4> HIDE DEF present
        <4>1. /\ check_present(c, present, 4, "RequiredNodeAbsent") \in Seq(Failure)
              /\ check_present(c, present, 4, "RequiredNodeAbsent") = <<>> <=> Wanted(c) \subseteq present
          BY <1>15, <3>1, PresenceChecked
        <4> QED
          BY <1>8, <3>2, <3>3, <4>1 DEF present
      <3>4. CASE c.kind = "RequiredLink"
        <4> DEFINE present == ToSet(link)
        <4> HIDE DEF present
        <4>1. /\ check_present(c, present, 5, "RequiredLinkAbsent") \in Seq(Failure)
              /\ check_present(c, present, 5, "RequiredLinkAbsent") = <<>> <=> Wanted(c) \subseteq present
          BY <1>15, <3>1, PresenceChecked
        <4> QED
          BY <1>8, <3>2, <3>4, <4>1 DEF present
      <3> QED
        BY <2>1, <3>3, <3>4
    <2>2. CASE c.kind \in {"ForbiddenNode", "ForbiddenLink"}
      <3>1. "ForbiddenNodePresent" \in MandatoryCode /\ "ForbiddenLinkPresent" \in MandatoryCode
        BY MandatoryCodes
      <3>2. /\ c.kind = "ForbiddenNode" => (Sat <=> Wanted(c) \cap {node[i] : i \in 1..Len(nodes)} = {})
            /\ c.kind = "ForbiddenLink" => (Sat <=> Wanted(c) \cap {link[i] : i \in 1..Len(links)} = {})
        BY <1>5, <1>6, SatisfiesMeans DEF N, L
      <3>3. Len(nodes) \in Nat /\ Len(links) \in Nat
        BY <1>3
      <3> HIDE DEF E, Sat
      <3>4. CASE c.kind = "ForbiddenNode"
        <4> DEFINE m == Len(nodes)
        <4>1. m \in Nat /\ node \in [1..m -> Nat]
          BY <1>4, <3>3
        <4> HIDE DEF m
        <4>2. check_absent(c, node, 4, "ForbiddenNodePresent") \in Seq(Failure)
          BY <1>15, <3>1, <4>1, AbsenceChecked
        <4>3. check_absent(c, node, 4, "ForbiddenNodePresent") = <<>> <=>
                 Wanted(c) \cap {node[i] : i \in 1..m} = {}
          BY <1>15, <3>1, <4>1, AbsenceChecked
        <4> QED
          BY <1>8, <3>2, <3>4, <4>2, <4>3 DEF m
      <3>5. CASE c.kind = "ForbiddenLink"
        <4> DEFINE m == Len(links)
        <4>1. m \in Nat /\ link \in [1..m -> Nat]
          BY <1>4, <3>3
        <4> HIDE DEF m
        <4>2. check_absent(c, link, 5, "ForbiddenLinkPresent") \in Seq(Failure)
          BY <1>15, <3>1, <4>1, AbsenceChecked
        <4>3. check_absent(c, link, 5, "ForbiddenLinkPresent") = <<>> <=>
                 Wanted(c) \cap {link[i] : i \in 1..m} = {}
          BY <1>15, <3>1, <4>1, AbsenceChecked
        <4> QED
          BY <1>8, <3>2, <3>5, <4>2, <4>3 DEF m
      <3> QED
        BY <2>2, <3>4, <3>5
    <2>3. CASE c.kind \in {"RequiredTier", "RequiredSite", "ForbiddenTier", "ForbiddenSite"}
      <3>1. /\ "TierEvidenceUnavailable" \in MandatoryCode /\ "RequiredTierNotMet" \in MandatoryCode
            /\ "ForbiddenTierPresent" \in MandatoryCode /\ "SiteEvidenceUnavailable" \in MandatoryCode
            /\ "RequiredSiteNotMet" \in MandatoryCode /\ "ForbiddenSitePresent" \in MandatoryCode
        BY MandatoryCodes
      <3>2. CASE c.kind = "RequiredTier"
        <4>1. E = check_member(c, candidate, "tier", "TierEvidenceUnavailable", "RequiredTierNotMet")
          BY <3>2 DEF evaluate_mandatory
        <4>2. Sat <=> \A x \in ToSet(candidate.nodes) : x["tier"] \in Wanted(c)
          BY <3>2, SatisfiesMeans
        <4> HIDE DEF E, Sat
        <4> QED
          BY <1>15, <3>1, <4>1, <4>2, MembershipChecked
      <3>3. CASE c.kind = "RequiredSite"
        <4>1. E = check_member(c, candidate, "site", "SiteEvidenceUnavailable", "RequiredSiteNotMet")
          BY <3>3 DEF evaluate_mandatory
        <4>2. Sat <=> \A x \in ToSet(candidate.nodes) : x["site"] \in Wanted(c)
          BY <3>3, SatisfiesMeans
        <4> HIDE DEF E, Sat
        <4> QED
          BY <1>15, <3>1, <4>1, <4>2, MembershipChecked
      <3>4. CASE c.kind = "ForbiddenTier"
        <4>1. E = check_not_member(c, candidate, "tier", "TierEvidenceUnavailable", "ForbiddenTierPresent")
          BY <3>4 DEF evaluate_mandatory
        <4>2. Sat <=> \A x \in ToSet(candidate.nodes) :
                         x["tier"] \notin Wanted(c) /\ (x["tier"] = 0 => Permits(c))
          BY <3>4, SatisfiesMeans
        <4> HIDE DEF E, Sat
        <4> QED
          BY <1>15, <3>1, <4>1, <4>2, MembershipChecked
      <3>5. CASE c.kind = "ForbiddenSite"
        <4>1. E = check_not_member(c, candidate, "site", "SiteEvidenceUnavailable", "ForbiddenSitePresent")
          BY <3>5 DEF evaluate_mandatory
        <4>2. Sat <=> \A x \in ToSet(candidate.nodes) :
                         x["site"] \notin Wanted(c) /\ (x["site"] = 0 => Permits(c))
          BY <3>5, SatisfiesMeans
        <4> HIDE DEF E, Sat
        <4> QED
          BY <1>15, <3>1, <4>1, <4>2, MembershipChecked
      <3> QED
        BY <2>3, <3>2, <3>3, <3>4, <3>5
    <2>4. CASE c.kind = "RequiredCapability"
      <3>1. E = check_required_capability(c, candidate, current)
        BY <2>4 DEF evaluate_mandatory
      <3>2. Sat <=> \A x \in Entities(candidate), w \in Wanted(c) :
                       find(x.capabilities, w) = current["Capability"]
        BY <2>4, SatisfiesMeans
      <3> HIDE DEF E, Sat
      <3> QED
        BY <1>15, <3>1, <3>2, RequiredCapabilityChecked
    <2>5. CASE c.kind = "ForbiddenCapability"
      <3>1. E = check_forbidden_capability(c, candidate, current)
        BY <2>5 DEF evaluate_mandatory
      <3>2. Sat <=> Permits(c) /\ \A x \in Entities(candidate) :
                                     Wanted(c) \cap {r[1] : r \in x.capabilities} = {}
        BY <2>5, SatisfiesMeans
      <3> HIDE DEF E, Sat
      <3> QED
        BY <1>1, <1>2, <1>15, <3>1, <3>2, ForbiddenCapabilityChecked
    <2>6. CASE c.kind = "AdministrativePolicy"
      <3>1. E = check_administrative_policy(c, candidate, current)
        BY <2>6 DEF evaluate_mandatory
      <3>2. Sat <=> \A w \in Wanted(c) : find(candidate.policies, w) = current["Policy"]
        BY <2>6, SatisfiesMeans
      <3> HIDE DEF E, Sat
      <3> QED
        BY <1>2, <1>15, <3>1, <3>2, PolicyChecked
    <2> QED
      BY <1>15, <2>1, <2>2, <2>3, <2>4, <2>5, <2>6 DEF ListOf
  <1>16. c.kind \in ToSet(Kinds)
    BY DEF validate_constraint
  <1> HIDE DEF Goal
  <1> QED
    BY <1>9, <1>10, <1>11, <1>12, <1>13, <1>14, <1>15, <1>16 DEF Kinds, ToSet, ListOf


\* A preference is satisfied exactly when the candidate satisfies its constraint.
LEMMA SlotIs ==
    ASSUME NEW c \in Constraint, validate_constraint(c),
           NEW candidate \in CandidatePath, validate_candidate(candidate) = "None",
           NEW current \in [Family -> Nat], \A f \in families_of(c) : current[f] # 0
    PROVE  LET slot == preference_slot(c, candidate, current)
           IN /\ slot.satisfied \in BOOLEAN /\ slot.margin \in Int
              /\ slot.satisfied <=> Satisfies(c, candidate, current)
  <1> DEFINE slot == preference_slot(c, candidate, current)
             E == evaluate_mandatory(c, candidate, current)
             f == preference_slack(c, candidate, current)
             Goal == slot.satisfied \in BOOLEAN /\ slot.margin \in Int /\ (slot.satisfied <=> E = <<>>)
  <1> SUFFICES Goal
    BY MandatoryIff
  <1>2. CASE c.kind \notin NumericKind
    <2>1. slot = [satisfied |-> E = <<>>, margin |-> IF E = <<>> THEN 1 ELSE 0]
      BY <1>2 DEF preference_slot
    <2>2. slot.satisfied = (E = <<>>) /\ slot.margin = IF E = <<>> THEN 1 ELSE 0
      BY <2>1
    <2> HIDE DEF slot, E
    <2>3. slot.margin \in Int
      BY <2>2
    <2>4. slot.satisfied \in BOOLEAN /\ (slot.satisfied <=> E = <<>>)
      BY <2>2
    <2> QED
      BY <2>3, <2>4
  <1>3. CASE c.kind \in NumericKind
    <2>1. slot = [satisfied |-> f.known /\ f.slack >= 0, margin |-> IF f.known THEN f.slack ELSE 0]
      BY <1>3 DEF preference_slot
    <2>9. slot.satisfied = (f.known /\ f.slack >= 0) /\ slot.margin = IF f.known THEN f.slack ELSE 0
      BY <2>1
    <2>10. slot.satisfied \in BOOLEAN /\ (slot.satisfied <=> f.known /\ f.slack >= 0)
      BY <2>9
    <2>11. f.slack \in Int => slot.margin \in Int
      BY <2>9
    <2>2. c.bound \in Int
      BY DEF Constraint
    <2>3. /\ candidate.latency.micros \in Int /\ candidate.hop_count \in Nat
          /\ PathSubject(candidate) \in Nat \X Nat
      BY CandidateParts
    <2>4. Len(candidate.nodes) # 0 /\ Len(candidate.links) # 0
      BY ValidShape
    <2>5. CASE c.kind = "MaxLatency"
      <3>1. /\ f.known <=> candidate.latency.source = c.latency_source
            /\ f.slack = c.bound - candidate.latency.micros
        BY <2>5 DEF preference_slack
      <3>2. E = <<>> <=> candidate.latency.source = c.latency_source /\ candidate.latency.micros <= c.bound
        BY <2>5, LatencyChecked DEF evaluate_mandatory
      <3> HIDE DEF slot, E, f
      <3>3. f.slack \in Int /\ (f.known /\ f.slack >= 0 <=> E = <<>>)
        BY <2>2, <2>3, <3>1, <3>2
      <3> QED
        BY <2>10, <2>11, <3>3
    <2>6. CASE c.kind = "MaxHopCount"
      <3>1. f.known = TRUE /\ f.slack = c.bound - candidate.hop_count
        BY <2>6 DEF preference_slack
      <3>2. E = <<>> <=> candidate.hop_count <= c.bound
        BY <2>6, HopsChecked DEF evaluate_mandatory
      <3> HIDE DEF slot, E, f
      <3>3. f.slack \in Int /\ (f.known /\ f.slack >= 0 <=> E = <<>>)
        BY <2>2, <2>3, <3>1, <3>2
      <3> QED
        BY <2>10, <2>11, <3>3
    <2>7. CASE c.kind = "MinBandwidthCapability"
      <3> DEFINE b == path_bandwidth_capability(candidate, current["Capability"])
      <3>1. (f.known <=> b # NoRef) /\ f.slack = b - c.bound
        BY <2>7 DEF preference_slack
      <3>2. E = IF b = NoRef THEN Fail("BandwidthCapabilityUnavailable", PathSubject(candidate))
                ELSE IF b < c.bound
                THEN Fail("MinBandwidthCapabilityNotMet", PathSubject(candidate)) ELSE Pass
        BY <2>7 DEF evaluate_mandatory, check_min_bandwidth
      <3>3. b \in Int
        <4>1. current["Capability"] \in Nat
          BY DEF Family
        <4>2. current["Capability"] \in Nat \ {0}
          BY <2>7, <4>1, KindFamilies
        <4> QED
          BY <2>4, <4>2, BottleneckIs
      <3>4. "BandwidthCapabilityUnavailable" \in MandatoryCode /\ "MinBandwidthCapabilityNotMet" \in MandatoryCode
        BY MandatoryCodes
      <3> HIDE DEF slot, E, f, b
      <3>5. E = <<>> <=> b # NoRef /\ ~(b < c.bound)
        BY <2>3, <3>2, <3>4, FailIs
      <3>6. f.slack \in Int /\ (f.known /\ f.slack >= 0 <=> E = <<>>)
        BY <2>2, <3>1, <3>3, <3>5
      <3> QED
        BY <2>10, <2>11, <3>6
    <2>8. CASE c.kind = "RequiredFailureDomainRelation"
      <3> DEFINE scan == scan_domains(candidate, c.domain_kind)
                 n == Cardinality(Domains(candidate, c.domain_kind))
      <3>1. f.known = scan.complete /\ f.slack = Cardinality(scan.domains) - c.bound
        BY <2>8 DEF preference_slack
      <3>2. /\ scan.complete \in BOOLEAN /\ Cardinality(scan.domains) = n /\ n \in Nat
            /\ scan.complete <=> Complete(candidate, c.domain_kind)
        BY <2>4, ScanIs
      <3>3. E = check_required_domain_relation(c, candidate)
        BY <2>8 DEF evaluate_mandatory
      <3>4. E = <<>> <=> Complete(candidate, c.domain_kind) /\ n >= c.bound
        BY <2>4, <3>3, RelationsChecked
      <3> HIDE DEF slot, E, f, scan, n
      <3>5. f.slack \in Int /\ (f.known /\ f.slack >= 0 <=> E = <<>>)
        BY <2>2, <3>1, <3>2, <3>4
      <3> QED
        BY <2>10, <2>11, <3>5
    <2> HIDE DEF Goal
    <2> QED
      BY <1>3, <2>5, <2>6, <2>7, <2>8 DEF NumericKind
  <1> QED
    BY <1>2, <1>3

-----------------------------------------------------------------------------
(* Reasons *)

\* A code that is a reason.
ReasonCode == DOMAIN Code \ {"None"}

Reason ==
    [code : ReasonCode, ordinal : Nat, constraint : Nat, family : Nat, subject : Nat \X Nat]

LEMMA CodesAre == \A k \in ReasonCode : Code[k] \in 100..899
  BY DEF ReasonCode, Code

LEMMA CodesDiffer == \A j, k \in ReasonCode : Code[j] = Code[k] => j = k
  BY DEF ReasonCode, Code

LEMMA ReasonsRefuse ==
    ASSUME NEW k, k # "None"
    PROVE  outcome_of(k) \notin {"Admissible", "AdmissibleWithPreferences"}
  BY DEF outcome_of

\* What the comparison of reasons reads, in its order.
ReasonKey(r) == <<reason_class_of(r.code), r.ordinal, Code[r.code], r.constraint, r.family>> \o r.subject

LEMMA Prefixed ==
    ASSUME NEW p \in Seq(Int), NEW q \in Seq(Int), Len(p) = 5, Len(q) = 2
    PROVE  /\ p \o q \in Seq(Int) /\ Len(p \o q) = 7
           /\ (p \o q)[1] = p[1] /\ (p \o q)[2] = p[2] /\ (p \o q)[3] = p[3] /\ (p \o q)[4] = p[4]
  <1>1. p \o q \in Seq(Int) /\ Len(p \o q) = Len(p) + Len(q)
    BY ConcatProperties
  <1>2. \A i \in 1..Len(p) : (p \o q)[i] = p[i]
    OBVIOUS
  <1>3. 1 \in 1..Len(p) /\ 2 \in 1..Len(p) /\ 3 \in 1..Len(p) /\ 4 \in 1..Len(p)
    OBVIOUS
  <1> QED
    BY <1>1, <1>2, <1>3, SMTT(60)

LEMMA KeysAre ==
    ASSUME NEW r \in Reason
    PROVE  /\ ReasonKey(r) \in Seq(Int) /\ Len(ReasonKey(r)) = 7
           /\ ReasonKey(r)[1] = reason_class_of(r.code) /\ ReasonKey(r)[2] = r.ordinal
           /\ ReasonKey(r)[3] = Code[r.code]
           /\ ReasonKey(r)[4] = r.constraint
  <1> DEFINE p == <<reason_class_of(r.code), r.ordinal, Code[r.code], r.constraint, r.family>>
             q == r.subject
  <1>1. /\ r.code \in ReasonCode /\ r.ordinal \in Nat /\ r.constraint \in Nat /\ r.family \in Nat
        /\ r.subject \in Nat \X Nat
    BY DEF Reason
  <1>2. Code[r.code] \in Int
    BY <1>1, CodesAre, SMTT(60)
  <1>3. reason_class_of(r.code) \in Int
    BY <1>2 DEF reason_class_of
  <1>4. p \in Seq(Int) /\ Len(p) = 5
    BY <1>1, <1>2, <1>3
  <1>5. q \in Seq(Int) /\ Len(q) = 2
    <2>1. q = <<q[1], q[2]>> /\ q[1] \in Int /\ q[2] \in Int
      BY <1>1
    <2> HIDE DEF q
    <2>2. <<q[1], q[2]>> \in Seq(Int) /\ Len(<<q[1], q[2]>>) = 2
      BY <2>1
    <2> QED
      BY <2>1, <2>2
  <1>6. p[1] = reason_class_of(r.code) /\ p[2] = r.ordinal /\ p[3] = Code[r.code] /\ p[4] = r.constraint
    OBVIOUS
  <1>7. ReasonKey(r) = p \o q
    BY DEF ReasonKey
  <1> HIDE DEF p, q
  <1>8. /\ p \o q \in Seq(Int) /\ Len(p \o q) = 7
        /\ (p \o q)[1] = p[1] /\ (p \o q)[2] = p[2] /\ (p \o q)[3] = p[3] /\ (p \o q)[4] = p[4]
    BY <1>4, <1>5, Prefixed
  <1> QED
    BY <1>6, <1>7, <1>8

\* Reasons that compare equal have one code, of one constraint.
LEMMA ReasonsOrder ==
    ASSUME NEW a \in Reason, NEW b \in Reason, NEW c \in Reason
    PROVE  /\ Triple(compare_reason(a, b), compare_reason(b, c), compare_reason(a, c))
           /\ Turned(compare_reason(a, b), compare_reason(b, a))
           /\ compare_reason(a, b) = 0 =>
                a.code = b.code /\ a.ordinal = b.ordinal /\ a.constraint = b.constraint
  <1>1. ReasonKey(a) \in Seq(Int) /\ ReasonKey(b) \in Seq(Int) /\ ReasonKey(c) \in Seq(Int)
    BY KeysAre
  <1>2. \A x, y : compare_reason(x, y) = compare_lists(ReasonKey(x), ReasonKey(y))
    BY DEF compare_reason, ReasonKey
  <1>3. ASSUME compare_reason(a, b) = 0
        PROVE  a.code = b.code /\ a.ordinal = b.ordinal /\ a.constraint = b.constraint
    <2>1. ReasonKey(a) = ReasonKey(b)
      BY <1>1, <1>2, <1>3, ListsTie
    <2>2. Code[a.code] = Code[b.code] /\ a.ordinal = b.ordinal /\ a.constraint = b.constraint
      BY <2>1, KeysAre
    <2>3. a.code \in ReasonCode /\ b.code \in ReasonCode
      BY DEF Reason
    <2> QED
      BY <2>2, <2>3, CodesDiffer
  <1>4. /\ Triple(compare_lists(ReasonKey(a), ReasonKey(b)), compare_lists(ReasonKey(b), ReasonKey(c)),
                  compare_lists(ReasonKey(a), ReasonKey(c)))
        /\ Turned(compare_lists(ReasonKey(a), ReasonKey(b)), compare_lists(ReasonKey(b), ReasonKey(a)))
    BY <1>1, ListsOrder
  <1> QED
    BY <1>2, <1>3, <1>4

\* The sort of the reasons puts a least one first.
LEMMA SortedReasons ==
    ASSUME NEW s \in Seq(Reason)
    PROVE  LET q == stable_sort(s, reason_less)
           IN /\ q \in Seq(Reason) /\ Len(q) = Len(s) /\ ToSet(q) = ToSet(s)
              /\ \A i, j \in 1..Len(s) : i < j => ~reason_less(q[j], q[i])
  <1> DEFINE n == Len(s)
             less == {ij \in (1..n) \X (1..n) : reason_less(s[ij[1]], s[ij[2]])}
             cmp == [ij \in (1..n) \X (1..n) |-> compare_reason(s[ij[1]], s[ij[2]])]
             q == stable_sort(s, reason_less)
  <1>0. n \in Nat /\ DOMAIN s = 1..n /\ \A i \in 1..n : s[i] \in Reason
    OBVIOUS
  <1>1. q = Arranged(s, less)
    BY <1>0 DEF stable_sort
  <1>2. \A i, j \in 1..n : cmp[<<i, j>>] = compare_reason(s[i], s[j])
    OBVIOUS
  <1>3. \A i, j \in 1..n : reason_less(s[i], s[j]) <=> cmp[<<i, j>>] < 0
    BY <1>2 DEF reason_less
  <1> HIDE DEF n
  <1>4. less = {ij \in (1..n) \X (1..n) : cmp[ij] < 0}
    <2>1. \A ij \in (1..n) \X (1..n) : ij[1] \in 1..n /\ ij[2] \in 1..n /\ ij = <<ij[1], ij[2]>>
      OBVIOUS
    <2> HIDE DEF cmp
    <2> QED
      BY <1>3, <2>1
  <1>5. \A i, j \in 1..n : <<i, j>> \in less <=> reason_less(s[i], s[j])
    OBVIOUS
  <1> HIDE DEF cmp
  <1>6. /\ \A x, y, z \in 1..n : Triple(cmp[<<x, y>>], cmp[<<y, z>>], cmp[<<x, z>>])
        /\ \A x, y \in 1..n : Turned(cmp[<<x, y>>], cmp[<<y, x>>])
    BY <1>0, <1>2, ReasonsOrder
  <1>7. WeakOrder(1..n, less)
    BY <1>4, <1>6, ComparisonIsWeakOrder
  <1> DEFINE order == SortOrder(n, less)
  <1> HIDE DEF less, q
  <1>8. /\ order \in [1..n -> 1..n]
        /\ Arranged(s, less) = [k \in 1..n |-> s[order[k]]]
        /\ \A i \in 1..n : \E k \in 1..n : order[k] = i
        /\ \A j, k \in 1..n : j < k =>
              /\ order[j] # order[k]
              /\ <<order[k], order[j]>> \notin less
              /\ \/ <<order[j], order[k]>> \in less
                 \/ order[j] < order[k]
    BY <1>0, <1>7, ArrangedSorts, Zenon
  <1> HIDE DEF order
  <1>9. DOMAIN q = 1..n /\ \A k \in 1..n : q[k] = s[order[k]] /\ order[k] \in 1..n
    BY <1>1, <1>8
  <1>10. q \in [1..n -> Reason]
    BY <1>0, <1>1, <1>8, <1>9
  <1>11. q \in Seq(Reason) /\ Len(q) = n
    BY <1>0, <1>10
  <1>12. ToSet(q) = ToSet(s)
    <2>1. ToSet(q) = {q[k] : k \in 1..n} /\ ToSet(s) = {s[k] : k \in 1..n}
      BY <1>0, <1>9 DEF ToSet
    <2>2. \A r : r \in ToSet(q) => r \in ToSet(s)
      BY <1>9, <2>1
    <2>3. \A r : r \in ToSet(s) => r \in ToSet(q)
      <3> SUFFICES ASSUME NEW i \in 1..n PROVE s[i] \in ToSet(q)
        BY <2>1
      <3>1. PICK k \in 1..n : order[k] = i
        BY <1>8
      <3> QED
        BY <1>9, <2>1, <3>1
    <2> QED
      BY <2>2, <2>3
  <1>13. \A i, j \in 1..n : i < j => ~reason_less(q[j], q[i])
    BY <1>5, <1>8, <1>9
  <1> QED
    BY <1>11, <1>12, <1>13 DEF q, n


Keeping == [kept : Seq(Reason), represented : SUBSET Nat]

NothingKept == [kept |-> <<>>, represented |-> {}]

\* after has what is kept of the first reasons of s.
Keeps(after, s, n) ==
    after = [k \in 0..n |-> IF k = 0 THEN NothingKept ELSE keep_reason(after[k - 1], s[k])]

LEMMA KeepsExists ==
    ASSUME NEW n \in Nat, NEW s
    PROVE  \E g : Keeps(g, s, n)
  <1> DEFINE D == {m \in Nat : ~\E g : Keeps(g, s, m)}
  <1> SUFFICES ASSUME D # {} PROVE FALSE
    OBVIOUS
  <1>1. PICK m \in D : \A k \in D : m <= k
    <2>1. D \in SUBSET Nat
      OBVIOUS
    <2> HIDE DEF D
    <2> QED
      BY <2>1, Least
  <1>2. m \in Nat /\ ~\E g : Keeps(g, s, m)
    OBVIOUS
  <1>3. m # 0
    <2> SUFFICES ASSUME m = 0 PROVE FALSE
      OBVIOUS
    <2> DEFINE h == [k \in 0..m |-> NothingKept]
    <2>1. 0..m = {0}
      BY <1>2
    <2>2. h = [k \in 0..m |-> IF k = 0 THEN NothingKept ELSE keep_reason(h[k - 1], s[k])]
      BY <2>1
    <2> HIDE DEF h
    <2>3. Keeps(h, s, m)
      BY <2>2 DEF Keeps
    <2> QED
      BY <1>2, <2>3
  <1>4. m - 1 \notin D
    BY <1>1, <1>2
  <1>5. PICK g : Keeps(g, s, m - 1)
    BY <1>2, <1>3, <1>4
  <1>6. \A k \in 0..(m - 1) : g[k] = IF k = 0 THEN NothingKept ELSE keep_reason(g[k - 1], s[k])
    BY <1>5 DEF Keeps
  <1> DEFINE h == [k \in 0..m |-> IF k < m THEN g[k] ELSE keep_reason(g[k - 1], s[k])]
  <1>7. \A k \in 0..m : h[k] = IF k < m THEN g[k] ELSE keep_reason(g[k - 1], s[k])
    OBVIOUS
  <1>8. h = [k \in 0..m |-> h[k]]
    OBVIOUS
  <1> HIDE DEF h
  <1>9. \A k \in 0..m : h[k] = IF k = 0 THEN NothingKept ELSE keep_reason(h[k - 1], s[k])
    <2> SUFFICES ASSUME NEW k \in 0..m
                 PROVE  h[k] = IF k = 0 THEN NothingKept ELSE keep_reason(h[k - 1], s[k])
      OBVIOUS
    <2>1. k < m => k \in 0..(m - 1)
      BY <1>2
    <2>2. k # 0 => k - 1 \in 0..m /\ k - 1 < m
      BY <1>2
    <2>3. k = 0 => k < m
      BY <1>2, <1>3
    <2> QED
      BY <1>6, <1>7, <2>1, <2>2, <2>3
  <1>10. h = [k \in 0..m |-> IF k = 0 THEN NothingKept ELSE keep_reason(h[k - 1], s[k])]
    BY <1>8, <1>9
  <1>11. Keeps(h, s, m)
    BY <1>10 DEF Keeps
  <1> QED
    BY <1>2, <1>11

\* One more reason is kept or it is not.
LEMMA KeepStep ==
    ASSUME NEW st \in Keeping, NEW r \in Reason
    PROVE  /\ keep_reason(st, r) \in Keeping
           /\ keep_reason(st, r).kept \in {st.kept, Append(st.kept, r)}
           /\ st = NothingKept => keep_reason(st, r).kept = <<r>>
  <1> DEFINE kept == st.kept
             rep == st.represented
             more == Append(kept, r)
  <1>1. kept \in Seq(Reason) /\ rep \in SUBSET Nat /\ st = [kept |-> kept, represented |-> rep]
    BY DEF Keeping
  <1>2. r.constraint \in Nat
    BY DEF Reason
  <1>3. more \in Seq(Reason)
    BY <1>1
  <1>4. [st EXCEPT !.kept = Append(@, r)] = [kept |-> more, represented |-> rep]
    BY <1>1, SMTT(60)
  <1> DEFINE k == keep_reason(st, r)
  <1>5. \/ k = st
        \/ k = [kept |-> more, represented |-> rep]
        \/ k = [kept |-> more, represented |-> rep \cup {r.constraint}]
    BY <1>4 DEF keep_reason
  <1>6. rep \cup {r.constraint} \in SUBSET Nat
    BY <1>1, <1>2
  <1>7. ASSUME st = NothingKept PROVE k.kept = <<r>>
    <2>1. kept = <<>> /\ rep = {}
      BY <1>7 DEF NothingKept
    <2>2. Len(kept) = 0 /\ Cardinality(rep) = 0 /\ more = <<r>>
      BY <2>1, FS_EmptySet
    <2>3. /\ ~(Len(kept) >= max_explanation_reasons)
          /\ ~(Cardinality(rep) >= max_failed_constraints_per_evaluation)
      BY <2>2, EvaluatorLimitsAssumption
    <2>4. \/ k = [kept |-> more, represented |-> rep]
          \/ k = [kept |-> more, represented |-> rep \cup {r.constraint}]
      BY <1>4, <2>3 DEF keep_reason
    <2> QED
      BY <2>2, <2>4
  <1> HIDE DEF more, kept, rep, k
  <1>8. k \in Keeping /\ k.kept \in {kept, more}
    BY <1>1, <1>3, <1>5, <1>6 DEF Keeping
  <1> QED
    BY <1>7, <1>8 DEF k, kept, more

\* What the explanation bounds leave: reasons of those there were, the first
\* among them, and all of them unless some were dropped.
LEMMA BoundedReasons ==
    ASSUME NEW s \in Seq(Reason)
    PROVE  LET q == bound_reasons(s)
           IN /\ q \in Seq(Reason) /\ Len(q) <= Len(s)
              /\ ToSet(q) \subseteq ToSet(s)
              /\ s # <<>> => q # <<>> /\ q[1] = s[1]
              /\ Len(q) = Len(s) => q = s
  <1> DEFINE n == Len(s)
             q == bound_reasons(s)
             after == CHOOSE g : Keeps(g, s, n)
  <1>1. n \in Nat /\ DOMAIN s = 1..n /\ \A i \in 1..n : s[i] \in Reason
    OBVIOUS
  <1>2. Keeps(after, s, n)
    BY <1>1, KeepsExists
  <1>3. after = CHOOSE g : g = [k \in 0..n |-> IF k = 0 THEN [kept |-> <<>>, represented |-> {}]
                                               ELSE keep_reason(g[k - 1], s[k])]
    BY DEF Keeps, NothingKept
  <1> HIDE DEF after
  <1>4. q = after[n].kept
    BY <1>3 DEF bound_reasons
  <1> HIDE DEF n, q
  <1>5. \A k \in 0..n : after[k] = IF k = 0 THEN NothingKept ELSE keep_reason(after[k - 1], s[k])
    BY <1>2 DEF Keeps
  <1> DEFINE kept(k) == after[k].kept
             Good(k) == /\ after[k] \in Keeping
                        /\ Len(kept(k)) <= k
                        /\ \A i \in 1..Len(kept(k)) : \E j \in 1..k : kept(k)[i] = s[j]
                        /\ k >= 1 => Len(kept(k)) >= 1 /\ kept(k)[1] = s[1]
                        /\ Len(kept(k)) = k => \A i \in 1..k : kept(k)[i] = s[i]
             D == {k \in 0..n : ~Good(k)}
  <1>6. D = {}
    <2> SUFFICES ASSUME D # {} PROVE FALSE
      OBVIOUS
    <2>1. PICK k \in D : \A j \in D : k <= j
      <3>1. D \in SUBSET Nat
        BY <1>1
      <3> HIDE DEF D
      <3> QED
        BY <3>1, Least
    <2>2. k \in 0..n /\ ~Good(k)
      OBVIOUS
    <2>3. CASE k = 0
      <3>1. after[k] = NothingKept
        BY <1>5, <2>2, <2>3
      <3>2. NothingKept \in Keeping /\ NothingKept.kept = <<>> /\ Len(<< >>) = 0
        BY DEF NothingKept, Keeping
      <3>3. Good(k)
        BY <2>3, <3>1, <3>2
      <3> QED
        BY <2>2, <3>3
    <2>4. CASE k # 0
      <3>1. k - 1 \in 0..n /\ ~(k <= k - 1) /\ k \in 1..n
        BY <1>1, <2>2, <2>4
      <3>2. k - 1 \notin D
        BY <2>1, <3>1
      <3>3. Good(k - 1)
        BY <3>1, <3>2
      <3> HIDE DEF D
      <3> DEFINE a == after[k - 1]
                 x == a.kept
                 y == after[k].kept
                 m == Len(x)
      <3>4. after[k] = keep_reason(a, s[k])
        BY <1>5, <2>2, <2>4
      <3>5. /\ a \in Keeping /\ m <= k - 1
            /\ \A i \in 1..m : \E j \in 1..(k - 1) : x[i] = s[j]
            /\ k - 1 >= 1 => m >= 1 /\ x[1] = s[1]
            /\ m = k - 1 => \A i \in 1..(k - 1) : x[i] = s[i]
        BY <3>3
      <3>6. k - 1 = 0 => a = NothingKept
        BY <1>5, <3>1
      <3>7. s[k] \in Reason
        BY <1>1, <3>1
      <3>8. /\ after[k] \in Keeping /\ y \in {x, Append(x, s[k])}
            /\ a = NothingKept => y = <<s[k]>>
        <4>1. a \in Keeping
          BY <3>5
        <4> HIDE DEF a
        <4>2. /\ keep_reason(a, s[k]) \in Keeping
              /\ keep_reason(a, s[k]).kept \in {a.kept, Append(a.kept, s[k])}
              /\ a = NothingKept => keep_reason(a, s[k]).kept = <<s[k]>>
          BY <3>7, <4>1, KeepStep, Zenon
        <4> QED
          BY <3>4, <4>2
      <3>9. x \in Seq(Reason) /\ m \in Nat /\ y \in Seq(Reason)
        BY <3>5, <3>8 DEF Keeping
      <3>10. k \in Nat
        BY <2>2, <1>1
      <3> HIDE DEF a, x, y, m
      <3>11. \/ y = x
             \/ /\ Len(y) = m + 1 /\ y[m + 1] = s[k]
                /\ \A i \in 1..m : y[i] = x[i]
        <4>1. CASE y = x
          BY <4>1
        <4>2. CASE y = Append(x, s[k])
          BY <3>9, <4>2 DEF m
        <4> QED
          BY <3>8, <4>1, <4>2
      <3>12. Len(x) = m
        BY DEF m
      <3>13. Len(y) <= k
        BY <3>5, <3>9, <3>10, <3>11, <3>12
      <3>14. \A i \in 1..Len(y) : \E j \in 1..k : y[i] = s[j]
        <4> SUFFICES ASSUME NEW i \in 1..Len(y) PROVE \E j \in 1..k : y[i] = s[j]
          OBVIOUS
        <4>1. (i \in 1..m /\ y[i] = x[i]) \/ (i = m + 1 /\ y[i] = s[k])
          BY <3>9, <3>11, <3>12
        <4>2. CASE i \in 1..m /\ y[i] = x[i]
          <5>1. PICK j \in 1..(k - 1) : x[i] = s[j]
            BY <3>5, <4>2
          <5>2. j \in 1..k
            BY <3>10
          <5> QED
            BY <4>2, <5>1, <5>2
        <4>3. CASE i = m + 1 /\ y[i] = s[k]
          BY <3>1, <3>10, <4>3
        <4> QED
          BY <4>1, <4>2, <4>3
      <3>15. Len(y) >= 1 /\ y[1] = s[1]
        <4>1. CASE k - 1 = 0
          <5>1. y = <<s[k]>> /\ k = 1
            BY <3>6, <3>8, <3>10, <4>1
          <5> QED
            BY <5>1
        <4>2. CASE k - 1 # 0
          <5>1. m >= 1 /\ x[1] = s[1]
            BY <3>1, <3>5, <3>10, <4>2
          <5> QED
            BY <3>9, <3>11, <3>12, <5>1
        <4> QED
          BY <4>1, <4>2
      <3>16. Len(y) = k => \A i \in 1..k : y[i] = s[i]
        <4> SUFFICES ASSUME Len(y) = k, NEW i \in 1..k PROVE y[i] = s[i]
          OBVIOUS
        <4>1. m = k - 1 /\ y[k] = s[k] /\ \A j \in 1..m : y[j] = x[j]
          BY <3>5, <3>9, <3>10, <3>11, <3>12
        <4>2. i = k \/ i \in 1..(k - 1)
          BY <3>10
        <4> QED
          BY <3>5, <4>1, <4>2
      <3>17. Good(k)
        BY <3>8, <3>13, <3>14, <3>15, <3>16 DEF y
      <3> QED
        BY <2>2, <3>17
    <2> QED
      BY <2>3, <2>4
  <1>7. n \in 0..n
    BY <1>1
  <1>8. Good(n)
    BY <1>6, <1>7
  <1> HIDE DEF D
  <1>9. /\ q \in Seq(Reason) /\ Len(q) <= n
        /\ \A i \in 1..Len(q) : \E j \in 1..n : q[i] = s[j]
        /\ n >= 1 => Len(q) >= 1 /\ q[1] = s[1]
        /\ Len(q) = n => \A i \in 1..n : q[i] = s[i]
    BY <1>4, <1>8 DEF Keeping
  <1>10. ToSet(q) \subseteq ToSet(s)
    <2>1. DOMAIN q = 1..Len(q)
      BY <1>9
    <2>2. ToSet(q) = {q[i] : i \in 1..Len(q)} /\ ToSet(s) = {s[i] : i \in 1..n}
      BY <1>1, <2>1 DEF ToSet
    <2> QED
      BY <1>9, <2>2
  <1>11. s # <<>> => n >= 1
    BY <1>1 DEF n
  <1>12. Len(q) >= 1 => q # <<>>
    BY <1>9
  <1>13. Len(q) = n => q = s
    BY <1>1, <1>9 DEF n
  <1> QED
    BY <1>9, <1>10, <1>11, <1>12, <1>13 DEF q, n

-----------------------------------------------------------------------------
(* The primary reason *)

\* No reason of s comes before r.
Foremost(r, s) == r \in ToSet(s) /\ \A q \in ToSet(s) : ~reason_less(q, r)

\* There is a foremost reason, and the code of every one is the primary reason.
LEMMA PrimaryIs ==
    ASSUME NEW s \in Seq(Reason), s # <<>>
    PROVE  /\ \A r : Foremost(r, s) => r.code = primary_reason_of(s)
           /\ primary_reason_of(s) \in ReasonCode
           /\ \E r : Foremost(r, s)
  <1> DEFINE q == stable_sort(s, reason_less)
             S == ToSet(s)
             p == CHOOSE r \in S : \A x \in S : ~reason_less(x, r)
  <1>1. q \in Seq(Reason) /\ Len(q) = Len(s) /\ ToSet(q) = S
    BY SortedReasons
  <1>2. \A i, j \in 1..Len(s) : i < j => ~reason_less(q[j], q[i])
    BY SortedReasons
  <1>3. Len(s) \in Nat /\ Len(s) >= 1
    OBVIOUS
  <1>4. S \subseteq Reason
    BY DEF ToSet
  <1> HIDE DEF q
  <1>5. ToSet(q) = {q[i] : i \in 1..Len(s)}
    BY <1>1, <1>3 DEF ToSet
  <1>6. \A r \in Reason : ~reason_less(r, r)
    <2> SUFFICES ASSUME NEW r \in Reason PROVE ~reason_less(r, r)
      OBVIOUS
    <2>1. Turned(compare_reason(r, r), compare_reason(r, r))
      BY ReasonsOrder
    <2> QED
      BY <2>1 DEF Turned, Sign, reason_less
  <1>7. q[1] \in S /\ \A x \in S : ~reason_less(x, q[1])
    <2>1. 1 \in 1..Len(s)
      BY <1>3
    <2>2. q[1] \in S
      BY <1>1, <1>5, <2>1
    <2>3. ASSUME NEW x \in S PROVE ~reason_less(x, q[1])
      <3>1. PICK j \in 1..Len(s) : x = q[j]
        BY <1>1, <1>5
      <3>2. CASE j = 1
        BY <1>4, <1>6, <2>2, <3>1, <3>2
      <3>3. CASE j # 1
        <4>1. 1 < j
          BY <1>3, <3>3
        <4> QED
          BY <1>2, <2>1, <3>1, <4>1
      <3> QED
        BY <3>2, <3>3
    <2> QED
      BY <2>2, <2>3
  <1> HIDE DEF S
  <1>8. p \in S /\ \A x \in S : ~reason_less(x, p)
    BY <1>7
  <1>9. primary_reason_of(s) = p.code
    BY DEF primary_reason_of, S
  <1> HIDE DEF p
  <1>10. ASSUME NEW r, Foremost(r, s) PROVE r.code = primary_reason_of(s)
    <2>1. r \in S /\ r \in Reason /\ p \in Reason /\ ~reason_less(p, r) /\ ~reason_less(r, p)
      BY <1>4, <1>8, <1>10 DEF Foremost, S
    <2>2. Turned(compare_reason(r, p), compare_reason(p, r))
      BY <2>1, ReasonsOrder
    <2>3. compare_reason(r, p) = 0
      BY <2>1, <2>2 DEF Turned, Sign, reason_less
    <2>4. r.code = p.code
      BY <2>1, <2>3, ReasonsOrder
    <2> QED
      BY <1>9, <2>4
  <1>11. p.code \in ReasonCode
    BY <1>4, <1>8 DEF Reason
  <1>12. Foremost(p, s)
    BY <1>8 DEF Foremost, S
  <1> QED
    BY <1>9, <1>10, <1>11, <1>12

\* Ordering and bounding the reasons leaves some if there were any, puts a
\* foremost one first and keeps the primary reason.
LEMMA ReasonsCanonical ==
    ASSUME NEW s \in Seq(Reason)
    PROVE  LET q == canonicalize_reasons(s)
           IN /\ q \in Seq(Reason) /\ Len(q) <= Len(s)
              /\ ToSet(q) \subseteq ToSet(s)
              /\ Len(q) = Len(s) => ToSet(q) = ToSet(s)
              /\ (q = <<>> <=> s = <<>>)
              /\ primary_reason_of(q) = primary_reason_of(s)
              /\ s # <<>> => Foremost(q[1], s) /\ q[1].code = primary_reason_of(s)
  <1> DEFINE t == stable_sort(s, reason_less)
             q == canonicalize_reasons(s)
  <1>1. t \in Seq(Reason) /\ Len(t) = Len(s) /\ ToSet(t) = ToSet(s)
    BY SortedReasons
  <1>2. \A i, j \in 1..Len(s) : i < j => ~reason_less(t[j], t[i])
    BY SortedReasons
  <1>3. q = bound_reasons(t)
    BY DEF canonicalize_reasons
  <1> HIDE DEF t, q
  <1>4. q \in Seq(Reason) /\ Len(q) <= Len(t) /\ ToSet(q) \subseteq ToSet(t)
    BY <1>1, <1>3, BoundedReasons
  <1>5. (t # <<>> => q # <<>> /\ q[1] = t[1]) /\ (Len(q) = Len(t) => q = t)
    BY <1>1, <1>3, BoundedReasons
  <1>6. Len(s) \in Nat /\ Len(t) \in Nat /\ Len(q) \in Nat
    BY <1>1, <1>4
  <1>7. (s = <<>> <=> Len(s) = 0) /\ (t = <<>> <=> Len(t) = 0) /\ (q = <<>> <=> Len(q) = 0)
    BY <1>1, <1>4
  <1>8. q = <<>> <=> s = <<>>
    BY <1>1, <1>4, <1>5, <1>6, <1>7
  <1>9. ASSUME s # <<>>
        PROVE  /\ Foremost(q[1], s) /\ q[1].code = primary_reason_of(s)
               /\ primary_reason_of(q) = primary_reason_of(s)
    <2>1. t # <<>> /\ q # <<>> /\ q[1] = t[1] /\ 1 \in 1..Len(s)
      BY <1>1, <1>5, <1>6, <1>7, <1>9
    <2>2. PICK r : Foremost(r, s)
      BY <1>9, PrimaryIs
    <2>3. ToSet(s) \subseteq Reason
      BY DEF ToSet
    <2>4. ToSet(t) = {t[i] : i \in 1..Len(s)}
      BY <1>1, <1>6 DEF ToSet
    <2>5. t[1] \in ToSet(s)
      BY <1>1, <2>1, <2>4
    <2>6. ASSUME NEW x \in ToSet(s) PROVE ~reason_less(x, t[1])
      <3>1. PICK j \in 1..Len(s) : x = t[j]
        BY <1>1, <2>4
      <3>2. CASE j = 1
        <4>1. Turned(compare_reason(x, x), compare_reason(x, x))
          BY <2>3, ReasonsOrder
        <4>2. ~reason_less(x, x)
          BY <4>1 DEF Turned, Sign, reason_less
        <4> QED
          BY <3>1, <3>2, <4>2
      <3>3. CASE j # 1
        <4>1. 1 < j
          BY <1>6, <3>3
        <4> QED
          BY <1>2, <2>1, <3>1, <4>1
      <3> QED
        BY <3>2, <3>3
    <2>7. Foremost(q[1], s)
      BY <2>1, <2>5, <2>6 DEF Foremost
    <2>8. q[1].code = primary_reason_of(s)
      BY <1>9, <2>7, PrimaryIs
    <2>9. q[1] \in ToSet(q)
      BY <1>4, <1>6, <1>7, <2>1 DEF ToSet
    <2>10. Foremost(q[1], q)
      BY <1>1, <1>4, <2>7, <2>9 DEF Foremost
    <2>11. q[1].code = primary_reason_of(q)
      BY <1>4, <2>1, <2>10, PrimaryIs
    <2> QED
      BY <2>7, <2>8, <2>11
  <1>10. ASSUME s = <<>> PROVE primary_reason_of(q) = primary_reason_of(s)
    BY <1>8, <1>10
  <1>11. Len(q) = Len(s) => ToSet(q) = ToSet(s)
    BY <1>1, <1>5
  <1> QED
    BY <1>1, <1>4, <1>8, <1>9, <1>10, <1>11 DEF q


-----------------------------------------------------------------------------
(* The stages before the constraints *)

\* The stages before the constraints have reasons of their own.
GateCode == {k \in ReasonCode : Code[k] \in 100..799}

GateReason ==
    [code : GateCode, ordinal : {0}, constraint : {0}, family : Nat, subject : Nat \X Nat]

LEMMA UnboundIs ==
    ASSUME NEW code \in GateCode, NEW family \in Nat, NEW subject \in Nat \X Nat
    PROVE  Unbound(code, family, subject) \in Seq(GateReason) /\ Unbound(code, family, subject) # <<>>
  <1> DEFINE r == [code |-> code, ordinal |-> 0, constraint |-> 0, family |-> family,
                   subject |-> subject]
  <1>1. r \in GateReason
    BY DEF GateReason
  <1>2. Unbound(code, family, subject) = <<r>>
    BY DEF Unbound
  <1> HIDE DEF r
  <1> QED
    BY <1>1, <1>2

LEMMA UnlessNoneIs ==
    ASSUME NEW code \in GateCode \cup {"None"}, NEW family \in Nat, NEW subject \in Nat \X Nat
    PROVE  /\ UnlessNone(code, family, subject) \in Seq(GateReason)
           /\ UnlessNone(code, family, subject) = <<>> <=> code = "None"
  <1>1. CASE code = "None"
    <2>1. << >> \in Seq(GateReason)
      OBVIOUS
    <2> QED
      BY <1>1, <2>1 DEF UnlessNone
  <1>2. CASE code # "None"
    <2>1. UnlessNone(code, family, subject) = Unbound(code, family, subject)
      BY <1>2 DEF UnlessNone
    <2> QED
      BY <1>2, <2>1, UnboundIs
  <1> QED
    BY <1>1, <1>2

LEMMA GateCodes ==
    /\ {"TooManyConstraints", "TooManyEntityRefs", "MalformedConstraint",
        "MalformedCandidate", "MissingAuthorityContext"} \subseteq GateCode
    /\ {"ConstraintSetNotActive", "ConstraintSetSuspended", "ConstraintSetRevalidationRequired",
        "ConstraintSetRevoked", "ConstraintSetSuperseded"} \subseteq GateCode
    /\ {"ConstraintSetRetired", "StaleConstraintSetGeneration", "PathAuthorityNotEvaluated",
        "PathNotLegal", "StalePathAuthority"} \subseteq GateCode
    /\ {"PathAuthorityGenerationMissing", "StaleTopologyEvidence", "StaleLinkStateEvidence",
        "StaleCapabilityEvidence", "StaleFailureDomainEvidence"} \subseteq GateCode
    /\ {"StalePolicyEvidence", "StalePlannerEvidence", "EvidenceAgeExceeded",
        "EvidenceNotBound", "PlannerCostModelMismatch"} \subseteq GateCode
  <1>1. {"TooManyConstraints", "TooManyEntityRefs", "MalformedConstraint",
        "MalformedCandidate", "MissingAuthorityContext"} \subseteq GateCode
    BY SMTT(60) DEF GateCode, ReasonCode, Code
  <1>2. {"ConstraintSetNotActive", "ConstraintSetSuspended", "ConstraintSetRevalidationRequired",
        "ConstraintSetRevoked", "ConstraintSetSuperseded"} \subseteq GateCode
    BY SMTT(60) DEF GateCode, ReasonCode, Code
  <1>3. {"ConstraintSetRetired", "StaleConstraintSetGeneration", "PathAuthorityNotEvaluated",
        "PathNotLegal", "StalePathAuthority"} \subseteq GateCode
    BY SMTT(60) DEF GateCode, ReasonCode, Code
  <1>4. {"PathAuthorityGenerationMissing", "StaleTopologyEvidence", "StaleLinkStateEvidence",
        "StaleCapabilityEvidence", "StaleFailureDomainEvidence"} \subseteq GateCode
    BY SMTT(60) DEF GateCode, ReasonCode, Code
  <1>5. {"StalePolicyEvidence", "StalePlannerEvidence", "EvidenceAgeExceeded",
        "EvidenceNotBound", "PlannerCostModelMismatch"} \subseteq GateCode
    BY SMTT(60) DEF GateCode, ReasonCode, Code
  <1> QED
    BY <1>1, <1>2, <1>3, <1>4, <1>5

\* A defect of a candidate is reported under one of two codes.
LEMMA DefectsAre ==
    ASSUME NEW candidate \in CandidatePath
    PROVE  validate_candidate(candidate) \in {"None", "MalformedCandidate", "TooManyEntityRefs"}
  <1> DEFINE Defect == {"None", "MalformedCandidate", "TooManyEntityRefs"}
             nodes == candidate.nodes
             links == candidate.links
             f == [i \in DOMAIN nodes |-> node_defect(nodes, i)]
             g == [i \in DOMAIN links |-> link_defect(links[i], nodes[i].node, nodes[i + 1].node)]
             defects == f \o g
             first == SelectInSeq(defects, LAMBDA d : d # "None")
  <1>1. /\ Len(nodes) \in Nat /\ DOMAIN nodes = 1..Len(nodes)
        /\ Len(links) \in Nat /\ DOMAIN links = 1..Len(links)
    BY CandidateParts
  <1>2. f \in Seq(Defect)
    <2>1. \A i : node_defect(nodes, i) \in Defect
      BY DEF node_defect
    <2>2. f \in [1..Len(nodes) -> Defect]
      BY <1>1, <2>1
    <2> QED
      BY <1>1, <2>2
  <1>3. g \in Seq(Defect)
    <2>1. \A l, a, b : link_defect(l, a, b) \in Defect
      BY DEF link_defect
    <2>2. g \in [1..Len(links) -> Defect]
      BY <1>1, <2>1
    <2> QED
      BY <1>1, <2>2
  <1>4. validate_candidate(candidate) \in {"None", "MalformedCandidate", "TooManyEntityRefs"}
        \/ (first # 0 /\ validate_candidate(candidate) = defects[first])
    BY DEF validate_candidate
  <1> HIDE DEF f, g
  <1>5. defects \in Seq(Defect)
    BY <1>2, <1>3, ConcatProperties
  <1> HIDE DEF defects, Defect
  <1>6. ASSUME first # 0 PROVE first \in 1..Len(defects)
    <2> DEFINE I == {i \in 1..Len(defects) : defects[i] # "None"}
    <2>1. first = IF I # {} THEN Min(I) ELSE 0
      BY DEF SelectInSeq
    <2> HIDE DEF first
    <2>2. I # {}
      BY <1>6, <2>1
    <2>3. I \in SUBSET Nat
      BY <1>5
    <2>4. PICK i \in I : \A j \in I : i <= j
      BY <2>2, <2>3, Least
    <2>5. Min(I) \in I
      BY <2>4 DEF Min
    <2>6. first \in I
      BY <2>1, <2>2, <2>5
    <2> QED
      BY <2>6
  <1> HIDE DEF first
  <1>7. first # 0 => defects[first] \in Defect
    BY <1>5, <1>6
  <1> QED
    BY <1>4, <1>7 DEF Defect


\* A definition in its fields' types.
Ruled(set) ==
    set.constraints \in Seq(Constraint) /\ set.state \in SetState /\ set.ranking \in RankingPolicy

LEMMA NoReasons == << >> \in Seq(GateReason) /\ << >> \in Seq(Reason)
  OBVIOUS

LEMMA JoinedReasons ==
    ASSUME NEW a \in Seq(GateReason), NEW b \in Seq(GateReason)
    PROVE  a \o b \in Seq(GateReason) /\ (a \o b = <<>> <=> a = <<>> /\ b = <<>>)
  <1>1. a \o b \in Seq(GateReason) /\ Len(a \o b) = Len(a) + Len(b)
    BY ConcatIs
  <1>2. Len(a) \in Nat /\ Len(b) \in Nat
    OBVIOUS
  <1>3. /\ (a = <<>> <=> Len(a) = 0) /\ (b = <<>> <=> Len(b) = 0)
        /\ (a \o b = <<>> <=> Len(a \o b) = 0)
    BY <1>1
  <1> QED
    BY <1>1, <1>2, <1>3

LEMMA StructureIs ==
    ASSUME NEW set, Ruled(set), NEW ctx, NEW candidate \in CandidatePath
    PROVE  /\ structure_reasons(set, ctx, candidate) \in Seq(GateReason)
           /\ structure_reasons(set, ctx, candidate) = <<>> <=>
                verify_canonical_constraint_set(set) /\ validate_candidate(candidate) = "None"
  <1> DEFINE verified == verify_canonical_constraint_set(set)
             a == IF verified THEN <<>> ELSE Unbound("MalformedConstraint", 0, SetSubject)
             b == UnlessNone(validate_candidate(candidate), 0, PathSubject(candidate))
             s == structure_reasons(set, ctx, candidate)
             many == Unbound("TooManyConstraints", 0, SetSubject)
  <1>1. SetSubject \in Nat \X Nat /\ PathSubject(candidate) \in Nat \X Nat /\ 0 \in Nat
    BY CandidateParts DEF SetSubject
  <1>2. /\ "MalformedConstraint" \in GateCode /\ "TooManyConstraints" \in GateCode
        /\ validate_candidate(candidate) \in GateCode \cup {"None"}
    BY GateCodes, DefectsAre
  <1>3. many \in Seq(GateReason) /\ many # <<>>
    BY <1>1, <1>2, UnboundIs
  <1>4. b \in Seq(GateReason) /\ (b = <<>> <=> validate_candidate(candidate) = "None")
    BY <1>1, <1>2, UnlessNoneIs
  <1>5. a \in Seq(GateReason) /\ (a = <<>> <=> verified)
    <2>1. /\ Unbound("MalformedConstraint", 0, SetSubject) \in Seq(GateReason)
          /\ Unbound("MalformedConstraint", 0, SetSubject) # <<>>
      BY <1>1, <1>2, UnboundIs
    <2> HIDE DEF verified
    <2> QED
      BY <2>1, NoReasons
  <1>6. s = IF Len(set.constraints) > max_constraints_per_set THEN many ELSE a \o b
    BY DEF structure_reasons
  <1>7. verified => ~(Len(set.constraints) > max_constraints_per_set)
    <2>1. verified => Len(set.constraints) <= max_constraints_per_set
      BY DEF verify_canonical_constraint_set
    <2>2. Len(set.constraints) \in Nat /\ max_constraints_per_set \in Nat
      BY LimitsAssumption DEF Ruled
    <2> QED
      BY <2>1, <2>2
  <1> HIDE DEF a, b, s, many, verified
  <1>8. a \o b \in Seq(GateReason) /\ (a \o b = <<>> <=> a = <<>> /\ b = <<>>)
    BY <1>4, <1>5, JoinedReasons
  <1>9. s \in Seq(GateReason)
    BY <1>3, <1>6, <1>8
  <1>10. s = <<>> <=> verified /\ validate_candidate(candidate) = "None"
    BY <1>3, <1>4, <1>5, <1>6, <1>7, <1>8
  <1> QED
    BY <1>9, <1>10 DEF s, verified

LEMMA AuthorityContextIs ==
    ASSUME NEW ctx
    PROVE  /\ authority_context_reasons(ctx) \in Seq(GateReason)
           /\ authority_context_reasons(ctx) = <<>> <=> ctx.authority_verified \/ ctx.provenance_complete
  <1> DEFINE missing == Unbound("MissingAuthorityContext", 0, <<15, 0>>)
  <1>1. missing \in Seq(GateReason) /\ missing # <<>>
    <2>1. <<15, 0>> \in Nat \X Nat /\ 0 \in Nat
      OBVIOUS
    <2>2. "MissingAuthorityContext" \in GateCode
      BY GateCodes
    <2> QED
      BY <2>1, <2>2, UnboundIs
  <1>2. authority_context_reasons(ctx)
          = IF ctx.authority_verified \/ ctx.provenance_complete THEN <<>> ELSE missing
    BY DEF authority_context_reasons
  <1> HIDE DEF missing
  <1> QED
    BY <1>1, <1>2, NoReasons

LEMMA LifecycleIs ==
    ASSUME NEW set, Ruled(set), NEW ctx
    PROVE  /\ lifecycle_reasons(set, ctx) \in Seq(GateReason)
           /\ lifecycle_reasons(set, ctx) = <<>> <=>
                set.state = "Active" /\ ctx.requested_generation \in {0, set.generation}
  <1> DEFINE a == Unbound(LifecycleReason[set.state], 0, SetSubject)
             b == Unbound("StaleConstraintSetGeneration", 0, SetSubject)
  <1>1. SetSubject \in Nat \X Nat /\ 0 \in Nat
    BY DEF SetSubject
  <1>2. b \in Seq(GateReason) /\ b # <<>>
    BY <1>1, GateCodes, UnboundIs
  <1>3. ASSUME set.state # "Active" PROVE a \in Seq(GateReason) /\ a # <<>>
    <2>1. set.state \in {"Declared", "Suspended", "RevalidationRequired", "Revoked", "Superseded", "Retired"}
      BY <1>3 DEF Ruled, SetState
    <2>2. LifecycleReason[set.state] \in
             {"ConstraintSetNotActive", "ConstraintSetSuspended", "ConstraintSetRevalidationRequired",
              "ConstraintSetRevoked", "ConstraintSetSuperseded", "ConstraintSetRetired"}
      BY <2>1 DEF LifecycleReason
    <2>3. LifecycleReason[set.state] \in GateCode
      BY <2>2, GateCodes
    <2> QED
      BY <1>1, <2>3, UnboundIs
  <1>4. lifecycle_reasons(set, ctx)
          = IF set.state # "Active" THEN a
            ELSE IF ctx.requested_generation \notin {0, set.generation} THEN b ELSE <<>>
    BY DEF lifecycle_reasons
  <1> HIDE DEF a, b
  <1> QED
    BY <1>2, <1>3, <1>4, NoReasons

LEMMA PathAuthorityIs ==
    ASSUME NEW ctx, NEW candidate \in CandidatePath
    PROVE  /\ path_authority_reasons(ctx, candidate) \in Seq(GateReason)
           /\ path_authority_reasons(ctx, candidate) = <<>> <=>
                /\ candidate.authority_generation # 0 /\ ctx.current["PathAuthority"] # 0
                /\ candidate.authority_generation = ctx.current["PathAuthority"]
                /\ candidate.authority_verdict = "Legal"
  <1> DEFINE code == IF candidate.authority_generation = 0 THEN "PathAuthorityGenerationMissing"
                     ELSE IF ctx.current["PathAuthority"] = 0 THEN "EvidenceNotBound"
                     ELSE IF candidate.authority_generation # ctx.current["PathAuthority"]
                     THEN "StalePathAuthority"
                     ELSE IF candidate.authority_verdict = "NotEvaluated" THEN "PathAuthorityNotEvaluated"
                     ELSE IF candidate.authority_verdict = "Rejected" THEN "PathNotLegal"
                     ELSE "None"
  <1>1. path_authority_reasons(ctx, candidate) = UnlessNone(code, 8, PathSubject(candidate))
    BY DEF path_authority_reasons
  <1>2. code \in GateCode \cup {"None"}
    BY GateCodes
  <1>3. candidate.authority_verdict \in {"NotEvaluated", "Legal", "Rejected"}
    BY DEF CandidatePath
  <1>4. code = "None" <=> /\ candidate.authority_generation # 0 /\ ctx.current["PathAuthority"] # 0
                          /\ candidate.authority_generation = ctx.current["PathAuthority"]
                          /\ candidate.authority_verdict = "Legal"
    BY <1>3
  <1>5. PathSubject(candidate) \in Nat \X Nat /\ 8 \in Nat
    BY CandidateParts
  <1> HIDE DEF code
  <1>6. /\ UnlessNone(code, 8, PathSubject(candidate)) \in Seq(GateReason)
        /\ UnlessNone(code, 8, PathSubject(candidate)) = <<>> <=> code = "None"
    BY <1>2, <1>5, UnlessNoneIs
  <1> QED
    BY <1>1, <1>4, <1>6


\* A consulted family is current.
CurrentIn(set, ctx, candidate, f) ==
    f \in consulted(set) => ctx.current[f] # 0 /\ candidate.evidence[f] = ctx.current[f]

LEMMA FamilyCurrentness ==
    ASSUME NEW set, NEW ctx, NEW candidate, NEW f \in ToSet(EvidenceFamilies)
    PROVE  /\ family_currentness(set, ctx, candidate, f) \in GateCode \cup {"None"}
           /\ family_currentness(set, ctx, candidate, f) = "None" <=> CurrentIn(set, ctx, candidate, f)
  <1>1. f \in {"Topology", "LinkState", "Capability", "FailureDomain", "Policy", "Planner"}
    <2>1. \A i \in DOMAIN EvidenceFamilies : EvidenceFamilies[i] \in
            {"Topology", "LinkState", "Capability", "FailureDomain", "Policy", "Planner"}
      BY DEF EvidenceFamilies
    <2> QED
      BY <2>1 DEF ToSet
  <1>2. StalenessCode[f] \in {"StaleTopologyEvidence", "StaleLinkStateEvidence", "StaleCapabilityEvidence",
                              "StaleFailureDomainEvidence", "StalePolicyEvidence", "StalePlannerEvidence"}
    BY <1>1 DEF StalenessCode
  <1>3. StalenessCode[f] \in GateCode /\ "EvidenceNotBound" \in GateCode
    BY <1>2, GateCodes
  <1>4. StalenessCode[f] # "None"
    BY <1>2
  <1> QED
    BY <1>3, <1>4 DEF family_currentness, CurrentIn

LEMMA CurrentnessIs ==
    ASSUME NEW set, NEW ctx, NEW candidate \in CandidatePath
    PROVE  /\ currentness_reasons(set, ctx, candidate) \in Seq(GateReason)
           /\ currentness_reasons(set, ctx, candidate) = <<>> <=>
                /\ \A f \in ToSet(EvidenceFamilies) : CurrentIn(set, ctx, candidate, f)
                /\ ~too_old(ctx, candidate)
                /\ ~(/\ set.ranking.consume_planner_cost /\ candidate.has_planner_cost
                     /\ candidate.cost_model # set.ranking.expected_cost_model)
  <1> DEFINE Part(i) == UnlessNone(family_currentness(set, ctx, candidate, EvidenceFamilies[i]), i + 1,
                                   PathSubject(candidate))
             g == [i \in 1..6 |-> Part(i)]
             old == too_old(ctx, candidate)
             other == /\ set.ranking.consume_planner_cost /\ candidate.has_planner_cost
                      /\ candidate.cost_model # set.ranking.expected_cost_model
             b == IF old THEN Unbound("EvidenceAgeExceeded", 1, PathSubject(candidate)) ELSE <<>>
             c == IF other THEN Unbound("PlannerCostModelMismatch", 7, PathSubject(candidate)) ELSE <<>>
             F == FlattenSeq(g)
             s == currentness_reasons(set, ctx, candidate)
             Fresh(f) == CurrentIn(set, ctx, candidate, f)
  <1>1. DOMAIN EvidenceFamilies = 1..6
    BY DEF EvidenceFamilies
  <1>2. s = F \o b \o c
    BY <1>1 DEF currentness_reasons
  <1>3. PathSubject(candidate) \in Nat \X Nat
    BY CandidateParts
  <1>4. \A i \in 1..6 : Part(i) \in Seq(GateReason) /\ (Part(i) = <<>> <=> Fresh(EvidenceFamilies[i]))
    <2> SUFFICES ASSUME NEW i \in 1..6
                 PROVE  Part(i) \in Seq(GateReason) /\ (Part(i) = <<>> <=> Fresh(EvidenceFamilies[i]))
      OBVIOUS
    <2>1. EvidenceFamilies[i] \in ToSet(EvidenceFamilies)
      BY <1>1 DEF ToSet
    <2> DEFINE code == family_currentness(set, ctx, candidate, EvidenceFamilies[i])
    <2>2. code \in GateCode \cup {"None"} /\ (code = "None" <=> Fresh(EvidenceFamilies[i]))
      BY <2>1, FamilyCurrentness
    <2>3. i + 1 \in Nat
      OBVIOUS
    <2> HIDE DEF code
    <2>4. /\ UnlessNone(code, i + 1, PathSubject(candidate)) \in Seq(GateReason)
          /\ UnlessNone(code, i + 1, PathSubject(candidate)) = <<>> <=> code = "None"
      BY <1>3, <2>2, <2>3, UnlessNoneIs
    <2> QED
      BY <2>2, <2>4 DEF code
  <1> HIDE DEF Part, Fresh
  <1>5. g \in [1..6 -> Seq(GateReason)] /\ \A i \in 1..6 : g[i] = Part(i)
    BY <1>4
  <1> HIDE DEF g
  <1>6. F \in Seq(GateReason) /\ (F = <<>> <=> \A i \in 1..6 : g[i] = <<>>)
    <2> DEFINE m == 6
    <2>1. m \in Nat /\ g \in [1..m -> Seq(GateReason)]
      BY <1>5
    <2> HIDE DEF m
    <2>2. FlattenSeq(g) \in Seq(GateReason) /\ (FlattenSeq(g) = <<>> <=> \A i \in 1..m : g[i] = <<>>)
      BY <2>1, FlattenFunction
    <2> QED
      BY <2>2 DEF m
  <1>7. F = <<>> <=> \A f \in ToSet(EvidenceFamilies) : Fresh(f)
    <2>1. ToSet(EvidenceFamilies) = {EvidenceFamilies[i] : i \in 1..6}
      BY <1>1 DEF ToSet
    <2> QED
      BY <1>4, <1>5, <1>6, <2>1
  <1>8. b \in Seq(GateReason) /\ (b = <<>> <=> ~old)
    <2>1. /\ Unbound("EvidenceAgeExceeded", 1, PathSubject(candidate)) \in Seq(GateReason)
          /\ Unbound("EvidenceAgeExceeded", 1, PathSubject(candidate)) # <<>>
      BY <1>3, GateCodes, UnboundIs
    <2> HIDE DEF old
    <2> QED
      BY <2>1, NoReasons
  <1>9. c \in Seq(GateReason) /\ (c = <<>> <=> ~other)
    <2>1. /\ Unbound("PlannerCostModelMismatch", 7, PathSubject(candidate)) \in Seq(GateReason)
          /\ Unbound("PlannerCostModelMismatch", 7, PathSubject(candidate)) # <<>>
      BY <1>3, GateCodes, UnboundIs
    <2> HIDE DEF other
    <2> QED
      BY <2>1, NoReasons
  <1> HIDE DEF F, b, c, s, old, other
  <1>10. F \o b \in Seq(GateReason) /\ (F \o b = <<>> <=> F = <<>> /\ b = <<>>)
    BY <1>6, <1>8, JoinedReasons
  <1>11. F \o b \o c \in Seq(GateReason) /\ (F \o b \o c = <<>> <=> F \o b = <<>> /\ c = <<>>)
    BY <1>9, <1>10, JoinedReasons
  <1>12. s = <<>> <=> (\A f \in ToSet(EvidenceFamilies) : Fresh(f)) /\ ~old /\ ~other
    BY <1>2, <1>7, <1>8, <1>9, <1>10, <1>11
  <1> QED
    BY <1>2, <1>11, <1>12 DEF s, old, other, Fresh

\* What a candidate must be for its constraints to be looked at.
Admitted(set, ctx, candidate) ==
    /\ verify_canonical_constraint_set(set)
    /\ validate_candidate(candidate) = "None"
    /\ ctx.authority_verified \/ ctx.provenance_complete
    /\ set.state = "Active" /\ ctx.requested_generation \in {0, set.generation}
    /\ candidate.authority_verdict = "Legal"
    /\ \A f \in consulted(set) : ctx.current[f] # 0 /\ candidate.evidence[f] = ctx.current[f]
    /\ ctx.max_age = 0 \/ candidate.captured_tick = 0
          \/ ctx.now_tick <= candidate.captured_tick + ctx.max_age
    /\ set.ranking.consume_planner_cost /\ candidate.has_planner_cost
          => candidate.cost_model = set.ranking.expected_cost_model

LEMMA ConsultedAre ==
    ASSUME NEW set
    PROVE  /\ consulted(set) \subseteq ToSet(EvidenceFamilies) \cup {"PathAuthority"}
           /\ "PathAuthority" \in consulted(set)
           /\ \A i \in DOMAIN set.constraints : families_of(set.constraints[i]) \subseteq consulted(set)
  <1>1. {"Topology", "LinkState", "Capability", "FailureDomain", "Policy", "Planner"}
           \subseteq ToSet(EvidenceFamilies)
    <2>1. DOMAIN EvidenceFamilies = 1..6
      BY DEF EvidenceFamilies
    <2>2. /\ EvidenceFamilies[1] = "Topology" /\ EvidenceFamilies[2] = "LinkState"
          /\ EvidenceFamilies[3] = "Capability" /\ EvidenceFamilies[4] = "FailureDomain"
          /\ EvidenceFamilies[5] = "Policy" /\ EvidenceFamilies[6] = "Planner"
      BY DEF EvidenceFamilies
    <2> QED
      BY <2>1, <2>2 DEF ToSet
  <1>2. \A c : families_of(c) \subseteq
            {"Topology", "LinkState", "Capability", "FailureDomain", "Policy", "Planner"}
    BY DEF families_of, evidence_families
  <1> QED
    BY <1>1, <1>2 DEF consulted

\* The stages before the constraints find nothing exactly when the candidate is
\* admitted.
LEMMA GateIs ==
    ASSUME NEW set, Ruled(set), NEW ctx \in ContextType, NEW candidate \in CandidatePath
    PROVE  /\ gate_reasons(set, ctx, candidate) \in Seq(GateReason)
           /\ gate_reasons(set, ctx, candidate) = <<>> <=> Admitted(set, ctx, candidate)
  <1> DEFINE a == structure_reasons(set, ctx, candidate)
             b == authority_context_reasons(ctx)
             c == lifecycle_reasons(set, ctx)
             d == path_authority_reasons(ctx, candidate)
             e == currentness_reasons(set, ctx, candidate)
             g == gate_reasons(set, ctx, candidate)
             Fresh(f) == CurrentIn(set, ctx, candidate, f)
             other == /\ set.ranking.consume_planner_cost /\ candidate.has_planner_cost
                      /\ candidate.cost_model # set.ranking.expected_cost_model
  <1>1. /\ a \in Seq(GateReason)
        /\ a = <<>> <=> verify_canonical_constraint_set(set) /\ validate_candidate(candidate) = "None"
    BY StructureIs
  <1>2. b \in Seq(GateReason) /\ (b = <<>> <=> ctx.authority_verified \/ ctx.provenance_complete)
    BY AuthorityContextIs
  <1>3. /\ c \in Seq(GateReason)
        /\ c = <<>> <=> set.state = "Active" /\ ctx.requested_generation \in {0, set.generation}
    BY LifecycleIs
  <1>4. /\ d \in Seq(GateReason)
        /\ d = <<>> <=> /\ candidate.authority_generation # 0 /\ ctx.current["PathAuthority"] # 0
                        /\ candidate.authority_generation = ctx.current["PathAuthority"]
                        /\ candidate.authority_verdict = "Legal"
    BY PathAuthorityIs
  <1>5. e \in Seq(GateReason)
    BY CurrentnessIs
  <1>6. e = <<>> <=> /\ \A f \in ToSet(EvidenceFamilies) : Fresh(f)
                     /\ ~too_old(ctx, candidate)
                     /\ ~other
    BY CurrentnessIs, Zenon
  <1>7. g \in {a, b, c, d, e}
        /\ (g = <<>> <=> a = <<>> /\ b = <<>> /\ c = <<>> /\ d = <<>> /\ e = <<>>)
    <2>1. g = Unless(a, Unless(b, Unless(c, Unless(d, e))))
      BY DEF gate_reasons
    <2> HIDE DEF a, b, c, d, e, g
    <2> QED
      BY <2>1 DEF Unless
  <1> HIDE DEF a, b, c, d, e, g
  <1>8. g \in Seq(GateReason)
    BY <1>1, <1>2, <1>3, <1>4, <1>5, <1>7
  <1>9. ~too_old(ctx, candidate) <=> ctx.max_age = 0 \/ candidate.captured_tick = 0
                                        \/ ctx.now_tick <= candidate.captured_tick + ctx.max_age
    <2>1. ctx.max_age \in Nat /\ ctx.now_tick \in Nat /\ candidate.captured_tick \in Nat
      BY DEF ContextType, CandidatePath
    <2> QED
      BY <2>1 DEF too_old
  <1>10. ~other <=> (set.ranking.consume_planner_cost /\ candidate.has_planner_cost
                       => candidate.cost_model = set.ranking.expected_cost_model)
    OBVIOUS
  <1>11. ASSUME validate_candidate(candidate) = "None"
         PROVE  /\ (\A f \in consulted(set) : ctx.current[f] # 0 /\ candidate.evidence[f] = ctx.current[f])
                   <=> /\ \A f \in ToSet(EvidenceFamilies) : Fresh(f)
                       /\ ctx.current["PathAuthority"] # 0
                       /\ candidate.authority_generation = ctx.current["PathAuthority"]
                /\ candidate.authority_generation # 0
    <2>1. candidate.authority_generation # 0
          /\ candidate.evidence["PathAuthority"] = candidate.authority_generation
      BY <1>11, ValidShape
    <2> QED
      BY <2>1, ConsultedAre DEF CurrentIn
  <1> HIDE DEF Fresh, other
  <1>12. g = <<>> <=> Admitted(set, ctx, candidate)
    <2>1. ASSUME g = <<>> PROVE Admitted(set, ctx, candidate)
      BY <2>1, <1>1, <1>2, <1>3, <1>4, <1>6, <1>7, <1>9, <1>10, <1>11 DEF Admitted
    <2>2. ASSUME Admitted(set, ctx, candidate) PROVE g = <<>>
      BY <2>2, <1>1, <1>2, <1>3, <1>4, <1>6, <1>7, <1>9, <1>10, <1>11 DEF Admitted
    <2> QED
      BY <2>1, <2>2
  <1> QED
    BY <1>8, <1>12 DEF g

LEMMA GateReasonsAre ==
    ASSUME NEW s \in Seq(GateReason)
    PROVE  s \in Seq(Reason)
  <1>1. GateReason \subseteq Reason
    BY DEF GateReason, Reason, GateCode
  <1> QED
    BY <1>1


-----------------------------------------------------------------------------
(* The reasons of the constraints *)

LEMMA BoundIs ==
    ASSUME NEW c \in Constraint, NEW ordinal \in Nat, NEW reasons \in Seq(Failure)
    PROVE  LET b == Bound(c, ordinal, reasons)
           IN /\ b \in Seq(Reason) /\ Len(b) = Len(reasons)
              /\ b = <<>> <=> reasons = <<>>
              /\ \A r \in ToSet(b) : r.code \in MandatoryCode /\ r.ordinal = ordinal /\ r.constraint = c.id
  <1> DEFINE n == Len(reasons)
             bound(i) == [code |-> reasons[i].code, ordinal |-> ordinal, constraint |-> c.id,
                          family |-> 0, subject |-> reasons[i].subject]
             b == Bound(c, ordinal, reasons)
  <1>1. n \in Nat /\ DOMAIN reasons = 1..n /\ \A i \in 1..n : reasons[i] \in Failure
    OBVIOUS
  <1>2. b = [i \in 1..n |-> bound(i)]
    BY <1>1 DEF Bound
  <1>3. \A i \in 1..n : reasons[i].code \in MandatoryCode /\ reasons[i].subject \in Nat \X Nat
    BY <1>1 DEF Failure
  <1>4. MandatoryCode \subseteq ReasonCode
    <2>1. Code["None"] = 0
      BY DEF Code
    <2>2. 0 \notin 800..899
      OBVIOUS
    <2> SUFFICES ASSUME NEW k \in MandatoryCode PROVE k \in ReasonCode
      OBVIOUS
    <2>3. k \in DOMAIN Code /\ Code[k] \in 800..899
      BY DEF MandatoryCode
    <2>4. k # "None"
      <3> SUFFICES ASSUME k = "None" PROVE FALSE
        OBVIOUS
      <3>1. Code[k] = Code["None"]
        OBVIOUS
      <3>2. Code[k] = 0
        BY <2>1, <3>1
      <3> QED
        BY <2>2, <2>3, <3>2
    <2> QED
      BY <2>3, <2>4 DEF ReasonCode
  <1>5. c.id \in Nat
    BY DEF Constraint
  <1>6. \A i \in 1..n : /\ bound(i) \in Reason
                        /\ bound(i).code \in MandatoryCode /\ bound(i).ordinal = ordinal
                        /\ bound(i).constraint = c.id
    BY <1>3, <1>4, <1>5 DEF Reason
  <1> HIDE DEF n, bound, b
  <1>7. b \in [1..n -> Reason] /\ \A i \in 1..n : b[i] = bound(i)
    BY <1>2, <1>6
  <1>8. b \in Seq(Reason) /\ Len(b) = n
    BY <1>1, <1>7
  <1>9. ToSet(b) = {b[i] : i \in 1..n}
    BY <1>1, <1>8 DEF ToSet
  <1>10. (b = <<>> <=> Len(b) = 0) /\ (reasons = <<>> <=> Len(reasons) = 0)
    BY <1>8
  <1>11. b = <<>> <=> reasons = <<>>
    BY <1>8, <1>10 DEF n
  <1>12. \A r \in ToSet(b) : r.code \in MandatoryCode /\ r.ordinal = ordinal /\ r.constraint = c.id
    BY <1>6, <1>7, <1>9
  <1> QED
    BY <1>8, <1>11, <1>12 DEF b, n

\* push_reasons takes from the front, and something if there is anything.
LEMMA PushIs ==
    ASSUME NEW s \in Seq(Reason)
    PROVE  LET p == push_reasons(s)
           IN /\ p \in Seq(Reason) /\ Len(p) \in Nat /\ Len(s) \in Nat /\ Len(p) <= Len(s)
              /\ p = <<>> <=> s = <<>>
              /\ ToSet(p) \subseteq ToSet(s)
              /\ Len(p) = Len(s) => p = s
  <1> DEFINE n == Len(s)
             k == kMaxReasonsPerConstraint
             m == Min({n, k})
             p == push_reasons(s)
  <1>1. n \in Nat /\ k \in Nat /\ k >= 1 /\ DOMAIN s = 1..n /\ \A i \in 1..n : s[i] \in Reason
    BY EvaluatorLimitsAssumption
  <1>2. m \in {n, k} /\ m <= n /\ m <= k
    <2>1. \E x \in {n, k} : \A y \in {n, k} : x <= y
      BY <1>1
    <2> HIDE DEF n, k
    <2>2. m \in {n, k} /\ \A y \in {n, k} : m <= y
      BY <2>1 DEF Min
    <2> QED
      BY <2>2
  <1>3. p = SubSeq(s, 1, m)
    BY DEF push_reasons
  <1> HIDE DEF n, k, m, p
  <1>4. m \in Nat /\ (m = 0 <=> n = 0)
    BY <1>1, <1>2
  <1>5. p = [i \in 1..m |-> s[i]]
    <2>1. SubSeq(s, 1, m) = [i \in 1..(1 + m - 1) |-> s[i + 1 - 1]]
      BY <1>4
    <2>2. 1 + m - 1 = m /\ \A i \in 1..m : i + 1 - 1 = i
      BY <1>4
    <2> QED
      BY <1>3, <2>1, <2>2
  <1>6. \A i \in 1..m : i \in 1..n
    BY <1>1, <1>2, <1>4
  <1>7. p \in Seq(Reason) /\ Len(p) = m /\ DOMAIN p = 1..m
    BY <1>1, <1>4, <1>5, <1>6
  <1>8. Len(s) = n /\ s \in Seq(Reason)
    BY DEF n
  <1>9. (p = <<>> <=> Len(p) = 0) /\ (s = <<>> <=> n = 0)
    BY <1>7, <1>8
  <1>10. p = <<>> <=> s = <<>>
    BY <1>4, <1>7, <1>9
  <1>11. ToSet(p) \subseteq ToSet(s)
    BY <1>1, <1>5, <1>6, <1>7 DEF ToSet
  <1>12. m = n => p = s
    BY <1>1, <1>5, <1>8
  <1> QED
    BY <1>1, <1>2, <1>4, <1>7, <1>8, <1>10, <1>11, <1>12 DEF p

LEMMA AdmittedConstraints ==
    ASSUME NEW set, Ruled(set), NEW ctx \in ContextType, NEW candidate, Admitted(set, ctx, candidate),
           NEW i \in DOMAIN set.constraints
    PROVE  /\ set.constraints[i] \in Constraint /\ validate_constraint(set.constraints[i])
           /\ ctx.current \in [Family -> Nat]
           /\ \A f \in families_of(set.constraints[i]) : ctx.current[f] # 0
           /\ i \in Nat /\ i - 1 \in Nat
  <1>1. set.constraints \in Seq(Constraint)
    BY DEF Ruled
  <1>2. validate_constraint(set.constraints[i])
    BY DEF Admitted, verify_canonical_constraint_set
  <1>3. \A f \in families_of(set.constraints[i]) : ctx.current[f] # 0
    BY ConsultedAre DEF Admitted
  <1> QED
    BY <1>1, <1>2, <1>3 DEF ContextType

\* A constraint has reasons exactly when it is mandatory and not satisfied, and
\* they are its own.
LEMMA FailedIs ==
    ASSUME NEW set, Ruled(set), NEW ctx \in ContextType, NEW candidate \in CandidatePath,
           Admitted(set, ctx, candidate)
    PROVE  LET n == Len(set.constraints)
               failed == mandatory_reasons(set, ctx, candidate)
           IN /\ n \in Nat /\ DOMAIN set.constraints = 1..n /\ failed \in [1..n -> Seq(Reason)]
              /\ \A i \in 1..n : failed[i] = <<>> <=> i \notin Failing(set, ctx, candidate)
              /\ \A i \in 1..n : \A r \in ToSet(failed[i]) :
                    /\ r.code \in MandatoryCode /\ r.ordinal = i - 1
                    /\ r.constraint = set.constraints[i].id
  <1> DEFINE n == Len(set.constraints)
             s == set.constraints
             failed == mandatory_reasons(set, ctx, candidate)
             checked(i) == evaluate_mandatory(s[i], candidate, ctx.current)
  <1>1. n \in Nat /\ DOMAIN s = 1..n
    BY DEF Ruled
  <1>2. failed = [i \in 1..n |-> IF i \in Scoped(set, "Mandatory")
                                 THEN Bound(s[i], i - 1, checked(i)) ELSE <<>>]
    BY <1>1 DEF mandatory_reasons
  <1>3. validate_candidate(candidate) = "None"
    BY DEF Admitted
  <1>4. \A i \in 1..n : /\ checked(i) \in Seq(Failure)
                        /\ checked(i) = <<>> <=> Satisfies(s[i], candidate, ctx.current)
                        /\ s[i] \in Constraint /\ i - 1 \in Nat
    <2> SUFFICES ASSUME NEW i \in 1..n
                 PROVE  /\ checked(i) \in Seq(Failure)
                        /\ checked(i) = <<>> <=> Satisfies(s[i], candidate, ctx.current)
                        /\ s[i] \in Constraint /\ i - 1 \in Nat
      OBVIOUS
    <2>1. /\ s[i] \in Constraint /\ validate_constraint(s[i])
          /\ ctx.current \in [Family -> Nat]
          /\ \A f \in families_of(s[i]) : ctx.current[f] # 0
      BY <1>1, AdmittedConstraints
    <2>2. i - 1 \in Nat
      BY <1>1
    <2>3. /\ evaluate_mandatory(s[i], candidate, ctx.current) \in Seq(Failure)
          /\ evaluate_mandatory(s[i], candidate, ctx.current) = <<>> <=>
               Satisfies(s[i], candidate, ctx.current)
      BY <1>3, <2>1, MandatoryIff
    <2> QED
      BY <2>1, <2>2, <2>3
  <1>5. \A i \in 1..n : i \in Failing(set, ctx, candidate) <=>
            i \in Scoped(set, "Mandatory") /\ ~Satisfies(s[i], candidate, ctx.current)
    BY DEF Failing
  <1> HIDE DEF n, s, failed, checked
  <1>6. \A i \in 1..n : LET b == Bound(s[i], i - 1, checked(i)) IN
            /\ b \in Seq(Reason) /\ (b = <<>> <=> checked(i) = <<>>)
            /\ \A r \in ToSet(b) : r.code \in MandatoryCode /\ r.ordinal = i - 1 /\ r.constraint = s[i].id
    <2> SUFFICES ASSUME NEW i \in 1..n
                 PROVE  LET b == Bound(s[i], i - 1, checked(i)) IN
            /\ b \in Seq(Reason) /\ (b = <<>> <=> checked(i) = <<>>)
            /\ \A r \in ToSet(b) : r.code \in MandatoryCode /\ r.ordinal = i - 1 /\ r.constraint = s[i].id
      OBVIOUS
    <2>1. s[i] \in Constraint /\ i - 1 \in Nat /\ checked(i) \in Seq(Failure)
      BY <1>4
    <2> DEFINE o == i - 1
    <2> HIDE DEF o
    <2>2. LET b == Bound(s[i], o, checked(i)) IN
            /\ b \in Seq(Reason) /\ (b = <<>> <=> checked(i) = <<>>)
            /\ \A r \in ToSet(b) : r.code \in MandatoryCode /\ r.ordinal = o /\ r.constraint = s[i].id
      BY <2>1, BoundIs DEF o
    <2> QED
      BY <2>2 DEF o
  <1>7. \A i \in 1..n : failed[i] = IF i \in Scoped(set, "Mandatory")
                                    THEN Bound(s[i], i - 1, checked(i)) ELSE <<>>
    BY <1>2
  <1>8. ToSet(<< >>) = {}
    BY DEF ToSet
  <1>9. \A i \in 1..n : failed[i] \in Seq(Reason)
    BY <1>6, <1>7, NoReasons
  <1>10. failed \in [1..n -> Seq(Reason)]
    BY <1>2, <1>7, <1>9
  <1>11. \A i \in 1..n : failed[i] = <<>> <=> i \notin Failing(set, ctx, candidate)
    BY <1>4, <1>5, <1>6, <1>7
  <1>12. \A i \in 1..n : \A r \in ToSet(failed[i]) :
             r.code \in MandatoryCode /\ r.ordinal = i - 1 /\ r.constraint = s[i].id
    BY <1>6, <1>7, <1>8
  <1> QED
    BY <1>1, <1>10, <1>11, <1>12 DEF n, s, failed


\* The reasons pushed for the constraints: of the failing ones, some of each.
LEMMA PushedIs ==
    ASSUME NEW set, Ruled(set), NEW ctx \in ContextType, NEW candidate \in CandidatePath,
           Admitted(set, ctx, candidate)
    PROVE  LET failed == mandatory_reasons(set, ctx, candidate)
               pushed == ForEach(failed, push_reasons)
               n == Len(set.constraints)
           IN /\ pushed \in Seq(Reason)
              /\ pushed = <<>> <=> Failing(set, ctx, candidate) = {}
              /\ (\A i \in DOMAIN failed : failed[i] = <<>>) <=> Failing(set, ctx, candidate) = {}
              /\ \A r : r \in ToSet(pushed) <=> \E i \in 1..n : r \in ToSet(push_reasons(failed[i]))
              /\ \A r \in ToSet(pushed) : \E i \in Failing(set, ctx, candidate) :
                    /\ r.code \in MandatoryCode /\ r.ordinal = i - 1
                    /\ r.constraint = set.constraints[i].id
              /\ \A i \in Failing(set, ctx, candidate) : \E r \in ToSet(pushed) :
                    /\ r.code \in MandatoryCode /\ r.ordinal = i - 1
                    /\ r.constraint = set.constraints[i].id
  <1> DEFINE failed == mandatory_reasons(set, ctx, candidate)
             pushed == ForEach(failed, push_reasons)
             n == Len(set.constraints)
             f == [i \in 1..n |-> push_reasons(failed[i])]
             Fails == Failing(set, ctx, candidate)
             Of(r, i) == /\ r.code \in MandatoryCode /\ r.ordinal = i - 1
                         /\ r.constraint = set.constraints[i].id
  <1>1. n \in Nat /\ DOMAIN set.constraints = 1..n /\ failed \in [1..n -> Seq(Reason)]
    BY FailedIs
  <1>2. \A i \in 1..n : failed[i] = <<>> <=> i \notin Fails
    BY FailedIs
  <1>3. \A i \in 1..n : \A r \in ToSet(failed[i]) : Of(r, i)
    BY FailedIs, Zenon
  <1>4. DOMAIN failed = 1..n
    BY <1>1
  <1>5. pushed = FlattenSeq(f)
    BY <1>4 DEF ForEach
  <1>6. Fails \subseteq 1..n
    BY <1>1 DEF Failing, Scoped
  <1> HIDE DEF failed, pushed, Fails, n, Of
  <1>7. \A i \in 1..n : /\ push_reasons(failed[i]) \in Seq(Reason)
                        /\ (push_reasons(failed[i]) = <<>> <=> failed[i] = <<>>)
                        /\ ToSet(push_reasons(failed[i])) \subseteq ToSet(failed[i])
    BY <1>1, PushIs
  <1>8. f \in [1..n -> Seq(Reason)] /\ \A i \in 1..n : f[i] = push_reasons(failed[i])
    BY <1>7
  <1> HIDE DEF f
  <1>9. /\ FlattenSeq(f) \in Seq(Reason)
        /\ FlattenSeq(f) = <<>> <=> \A i \in 1..n : f[i] = <<>>
        /\ \A r : r \in ToSet(FlattenSeq(f)) <=> \E i \in 1..n : r \in ToSet(f[i])
    <2>1. n \in Nat
      BY <1>1
    <2>2. f \in [1..n -> Seq(Reason)]
      BY <1>8
    <2> QED
      BY <2>1, <2>2, FlattenFunction, ZenonT(60)
  <1>10. \A r : r \in ToSet(FlattenSeq(f)) <=> \E i \in 1..n : r \in ToSet(f[i])
    BY <1>9
  <1>11. pushed = <<>> <=> Fails = {}
    <2>1. pushed = <<>> <=> \A i \in 1..n : failed[i] = <<>>
      BY <1>5, <1>7, <1>8, <1>9
    <2> QED
      BY <1>2, <1>6, <2>1
  <1>12. (\A i \in DOMAIN failed : failed[i] = <<>>) <=> Fails = {}
    BY <1>2, <1>4, <1>6
  <1>13. \A r : r \in ToSet(pushed) <=> \E i \in 1..n : r \in ToSet(push_reasons(failed[i]))
    BY <1>5, <1>8, <1>10
  <1>14. ToSet(<< >>) = {}
    BY DEF ToSet
  <1>15. \A r \in ToSet(pushed) : \E i \in Fails : Of(r, i)
    <2> SUFFICES ASSUME NEW r \in ToSet(pushed) PROVE \E i \in Fails : Of(r, i)
      OBVIOUS
    <2>1. PICK i \in 1..n : r \in ToSet(push_reasons(failed[i]))
      BY <1>13
    <2>2. r \in ToSet(failed[i]) /\ failed[i] # <<>>
      BY <1>7, <1>14, <2>1
    <2> QED
      BY <1>2, <1>3, <2>2
  <1>16. \A i \in Fails : \E r \in ToSet(pushed) : Of(r, i)
    <2> SUFFICES ASSUME NEW i \in Fails PROVE \E r \in ToSet(pushed) : Of(r, i)
      OBVIOUS
    <2> DEFINE p == push_reasons(failed[i])
    <2>1. i \in 1..n /\ failed[i] # <<>>
      BY <1>2, <1>6
    <2>2. p \in Seq(Reason) /\ p # <<>> /\ ToSet(p) \subseteq ToSet(failed[i])
      BY <1>7, <2>1
    <2> HIDE DEF p
    <2>3. p[1] \in ToSet(p)
      BY <2>2 DEF ToSet
    <2>4. p[1] \in ToSet(pushed) /\ Of(p[1], i)
      BY <1>3, <1>13, <2>1, <2>2, <2>3 DEF p
    <2> QED
      BY <2>4
  <1> QED
    BY <1>5, <1>9, <1>11, <1>12, <1>13, <1>15, <1>16 DEF pushed, failed, Fails, n, Of

\* What makes a candidate admissible, and what its record says of it.
LEMMA RecordIs ==
    ASSUME NEW set, Ruled(set), NEW ctx \in ContextType, NEW candidate \in CandidatePath
    PROVE  LET record == evaluate_candidate(set, ctx, candidate)
               passes == Admitted(set, ctx, candidate) /\ Failing(set, ctx, candidate) = {}
           IN /\ record.path = candidate.path
              /\ Admissible(record) <=> passes
              /\ record.preferences = IF passes THEN evaluate_preferences(set, ctx, candidate) ELSE <<>>
              /\ record.reasons # <<>> => record.reasons[1].code = record.primary_reason
              /\ ~Admitted(set, ctx, candidate) => Code[record.primary_reason] \in 100..799
              /\ Admitted(set, ctx, candidate) =>
                   LET failed == mandatory_reasons(set, ctx, candidate)
                       pushed == ForEach(failed, push_reasons)
                   IN /\ record.reasons = canonicalize_reasons(pushed)
                      /\ record.primary_reason = primary_reason_of(pushed)
                      /\ record.reasons_truncated
                            = (Len(record.reasons) < Len(FlattenSeq(failed)))
  <1> DEFINE gate == gate_reasons(set, ctx, candidate)
             record == evaluate_candidate(set, ctx, candidate)
             admitted == Admitted(set, ctx, candidate)
             failing == Failing(set, ctx, candidate)
             prefs == evaluate_preferences(set, ctx, candidate)
             failed == mandatory_reasons(set, ctx, candidate)
             pushed == ForEach(failed, push_reasons)
  <1>1. gate \in Seq(GateReason) /\ (gate = <<>> <=> admitted)
    BY GateIs
  <1>2. gate \in Seq(Reason)
    BY <1>1, GateReasonsAre
  <1>3. record = IF gate # <<>> THEN Record(set, candidate, canonicalize_reasons(gate), Len(gate), <<>>)
                 ELSE RecordOfChecks(set, ctx, candidate, failed)
    BY DEF evaluate_candidate, RecordOfGate
  <1>4. ASSUME NEW reasons, NEW produced, NEW p
        PROVE  LET r == Record(set, candidate, reasons, produced, p)
               IN /\ r.path = candidate.path /\ r.reasons = reasons
                  /\ r.preferences = p /\ r.primary_reason = primary_reason_of(reasons)
                  /\ r.reasons_truncated = (Len(reasons) < produced)
                  /\ r.outcome = outcome_from_reasons(reasons, p # <<>>)
    BY DEF Record
  <1>5. ASSUME NEW reasons \in Seq(Reason), NEW p
        PROVE  outcome_from_reasons(reasons, p # <<>>) \in {"Admissible", "AdmissibleWithPreferences"}
                  <=> reasons = <<>>
    <2>1. CASE reasons = <<>>
      <3>1. primary_reason_of(reasons) = "None"
        BY <2>1 DEF primary_reason_of
      <3>2. outcome_of("None") = "Admissible"
        <4>1. Code["None"] \notin 700..707 /\ Code["None"] \notin 820..826
          BY DEF Code
        <4> QED
          BY <4>1 DEF outcome_of
      <3> QED
        BY <2>1, <3>1, <3>2 DEF outcome_from_reasons
    <2>2. CASE reasons # <<>>
      <3>1. primary_reason_of(reasons) \in ReasonCode
        BY <2>2, PrimaryIs
      <3>2. primary_reason_of(reasons) # "None"
        BY <3>1 DEF ReasonCode
      <3>3. outcome_from_reasons(reasons, p # <<>>) = outcome_of(primary_reason_of(reasons))
        BY <2>2 DEF outcome_from_reasons
      <3> QED
        BY <2>2, <3>2, <3>3, ReasonsRefuse
    <2> QED
      BY <2>1, <2>2
  <1>6. CASE ~admitted
    <2> DEFINE reasons == canonicalize_reasons(gate)
    <2>1. gate # <<>>
      BY <1>1, <1>6
    <2>2. record = Record(set, candidate, reasons, Len(gate), <<>>)
      BY <1>3, <2>1
    <2>3. reasons \in Seq(Reason) /\ reasons # <<>> /\ primary_reason_of(reasons) = primary_reason_of(gate)
      BY <1>2, <2>1, ReasonsCanonical
    <2>4. reasons[1].code = primary_reason_of(gate) /\ Foremost(reasons[1], gate)
      BY <1>2, <2>1, ReasonsCanonical
    <2>5. reasons[1] \in GateReason
      <3>1. reasons[1] \in ToSet(gate)
        BY <2>4 DEF Foremost
      <3> QED
        BY <1>1, <3>1 DEF ToSet
    <2>6. Code[reasons[1].code] \in 100..799
      BY <2>5 DEF GateReason, GateCode
    <2> HIDE DEF reasons, gate, record
    <2>7. /\ record.path = candidate.path /\ record.reasons = reasons
          /\ record.preferences = <<>> /\ record.primary_reason = primary_reason_of(reasons)
          /\ record.outcome = outcome_from_reasons(reasons, << >> # <<>>)
      BY <1>4, <2>2
    <2>8. ~Admissible(record)
      BY <1>5, <2>3, <2>7 DEF Admissible
    <2> QED
      BY <1>6, <2>3, <2>4, <2>6, <2>7, <2>8 DEF record
  <1>7. CASE admitted
    <2> DEFINE reasons == canonicalize_reasons(pushed)
               p == IF \A i \in DOMAIN failed : failed[i] = <<>> THEN prefs ELSE <<>>
    <2>1. gate = <<>>
      BY <1>1, <1>7
    <2>2. record = Record(set, candidate, reasons, Len(FlattenSeq(failed)), p)
      BY <1>3, <2>1 DEF RecordOfChecks
    <2>3. pushed \in Seq(Reason) /\ (pushed = <<>> <=> failing = {})
      BY <1>7, PushedIs
    <2>4. (\A i \in DOMAIN failed : failed[i] = <<>>) <=> failing = {}
      BY <1>7, PushedIs
    <2>5. p = IF failing = {} THEN prefs ELSE <<>>
      BY <2>4
    <2> HIDE DEF pushed, failed, failing, prefs, p
    <2>6. /\ reasons \in Seq(Reason) /\ (reasons = <<>> <=> pushed = <<>>)
          /\ primary_reason_of(reasons) = primary_reason_of(pushed)
      BY <2>3, ReasonsCanonical
    <2>7. pushed # <<>> => reasons[1].code = primary_reason_of(pushed)
      BY <2>3, ReasonsCanonical
    <2> HIDE DEF reasons, gate, record
    <2>8. /\ record.path = candidate.path /\ record.reasons = reasons
          /\ record.preferences = p /\ record.primary_reason = primary_reason_of(reasons)
          /\ record.reasons_truncated = (Len(reasons) < Len(FlattenSeq(failed)))
          /\ record.outcome = outcome_from_reasons(reasons, p # <<>>)
      BY <1>4, <2>2
    <2>9. Admissible(record) <=> failing = {}
      BY <1>5, <2>3, <2>6, <2>8 DEF Admissible
    <2> QED
      BY <1>7, <2>5, <2>6, <2>7, <2>8, <2>9 DEF record, reasons, failing, pushed, failed, prefs
  <1> QED
    BY <1>6, <1>7

-----------------------------------------------------------------------------
(* Answers *)

\* The definition evaluated against is in its types, and the verification every
\* evaluation makes comes down to the digest.
LEMMA EvaluatedSetIsRuled ==
    ASSUME CallInv, DefinitionInv, call # None
    PROVE  LET set == definition.set
           IN /\ Ruled(set)
              /\ verify_canonical_constraint_set(set) <=> set.digest = constraint_set_digest(set)
  <1> DEFINE set == definition.set
             raw == definition.raw
             q == set.constraints
  <1>1. /\ raw \in Undigested /\ canonicalizable(raw)
        /\ q = canonical_constraints(Listed(raw.constraints)) /\ q \in Seq(Constraint)
        /\ detect_contradictions(q) = {}
        /\ set.digest = <<raw.generation, q, raw.ranking>>
        /\ set.ranking = raw.ranking
    BY EvaluatedSetIs
  <1>2. set.state \in SetState
    <2>1. definition # None /\ definition.ok
      BY DEF CallInv
    <2>2. PICK submission \in Submission : definition = Outcome(submission)
      BY <2>1 DEF DefinitionInv
    <2>3. definition.set = Stored(submission.raw, submission.state, submission.assigned)
      BY <2>1, <2>2, OutcomeIs
    <2>4. Stored(submission.raw, submission.state, submission.assigned).state = submission.state
      BY StoredIs
    <2>5. submission.state \in SetState
      BY SubmissionAssumption
    <2> QED
      BY <2>3, <2>4, <2>5
  <1>3. set.ranking \in RankingPolicy
    BY <1>1 DEF Undigested
  <1> HIDE DEF set, raw, q
  <1>4. /\ Len(q) <= max_constraints_per_set
        /\ \A i \in 1..Len(q) : validate_constraint(q[i]) /\ canonicalize_lists(q[i]) = q[i]
    BY <1>1, CanonicalForm
  <1>5. \A i, j \in 1..Len(q) : i < j => canonical_less(q[i], q[j])
    BY <1>1, CanonicalForm
  <1>6. \A i, j \in 1..Len(q) : i # j => q[i].id # q[j].id
    BY <1>1, CanonicalForm
  <1>7. Len(q) \in Nat /\ DOMAIN q = 1..Len(q)
    BY <1>1
  <1>8. \A i \in 2..Len(q) : canonical_less(q[i - 1], q[i]) /\ q[i - 1].id # q[i].id
    <2> SUFFICES ASSUME NEW i \in 2..Len(q)
                 PROVE  canonical_less(q[i - 1], q[i]) /\ q[i - 1].id # q[i].id
      OBVIOUS
    <2>1. i \in 1..Len(q) /\ i - 1 \in 1..Len(q) /\ i - 1 < i /\ i - 1 # i
      BY <1>7
    <2> QED
      BY <1>5, <1>6, <2>1
  <1>9. raw.generation \in Nat /\ raw.generation > 0
    BY <1>1 DEF canonicalizable, Undigested
  <1>10. ASSUME set.digest = constraint_set_digest(set) PROVE verify_canonical_constraint_set(set)
    <2>1. set.generation = raw.generation
      BY <1>1, <1>10 DEF constraint_set_digest
    <2>2. set.generation > 0
      BY <1>9, <2>1
    <2> QED
      BY <1>1, <1>4, <1>7, <1>8, <1>10, <2>2 DEF verify_canonical_constraint_set, q
  <1>11. verify_canonical_constraint_set(set) => set.digest = constraint_set_digest(set)
    BY DEF verify_canonical_constraint_set
  <1>12. Ruled(set)
    BY <1>1, <1>2, <1>3 DEF Ruled, q
  <1> QED
    BY <1>10, <1>11, <1>12 DEF set

\* The answer has a record for each candidate kept, in their order, unless the
\* population was rejected.
LEMMA BatchIs ==
    ASSUME CallInv, call # None, call.batch.records # <<>>
    PROVE  LET set == definition.set
               kept == Kept(call.candidates)
               records == [i \in DOMAIN kept |-> evaluate_candidate(set, call.ctx, kept[i])]
           IN call.batch = Answered(records, order_admissible(records, kept, set.ranking))
  <1> DEFINE set == definition.set
             kept == Kept(call.candidates)
             records == [i \in DOMAIN kept |-> evaluate_candidate(set, call.ctx, kept[i])]
  <1>1. call.batch = evaluate_batch(set, call.ctx, call.candidates)
    BY DEF CallInv
  <1>2. \A reason : BatchRejected(reason).records = <<>>
    BY DEF BatchRejected
  <1>3. \/ \E reason : call.batch = BatchRejected(reason)
        \/ call.batch = EvaluateCanonical(set, call.ctx, kept)
    BY <1>1 DEF evaluate_batch, Kept
  <1>4. call.batch = EvaluateCanonical(set, call.ctx, kept)
    BY <1>2, <1>3
  <1>5. EvaluateCanonical(set, call.ctx, kept)
           = Answered(records, order_admissible(records, kept, set.ranking))
    BY DEF EvaluateCanonical, RankRecords
  <1> QED
    BY <1>4, <1>5

\* The record a candidate has in an answer.
RecordFor(i) == evaluate_candidate(definition.set, call.ctx, Kept(call.candidates)[i])

LEMMA RecordsAre ==
    ASSUME CallInv, DefinitionInv, NEW record \in Evaluated
    PROVE  LET kept == Kept(call.candidates)
           IN /\ call # None /\ Ruled(definition.set) /\ call.ctx \in ContextType
              /\ kept \in Seq(CandidatePath) /\ Len(kept) \in Nat /\ DOMAIN kept = 1..Len(kept)
              /\ \A i, j \in 1..Len(kept) : kept[i].path = kept[j].path => i = j
              /\ call.batch.records = [i \in 1..Len(kept) |-> RecordFor(i)]
              /\ \E i \in 1..Len(kept) : record = RecordFor(i) /\ Source(record) = kept[i]
  <1> DEFINE kept == Kept(call.candidates)
             n == Len(kept)
             set == definition.set
             records == [i \in DOMAIN kept |-> evaluate_candidate(set, call.ctx, kept[i])]
  <1>1. call # None /\ record \in ToSet(call.batch.records)
    BY DEF Evaluated
  <1>2. Ruled(set)
    BY <1>1, EvaluatedSetIsRuled
  <1>3. call.ctx \in ContextType /\ call.candidates \in Seq(CandidatePath)
    BY <1>1, ContextAssumption, CandidateAssumption DEF CallInv
  <1>4. kept \in Seq(CandidatePath) /\ n \in Nat /\ DOMAIN kept = 1..n
    BY <1>3, KeptIs
  <1>5. \A i, j \in 1..n : i < j => kept[i].path < kept[j].path
    BY <1>3, KeptIs
  <1>6. call.batch.records # <<>>
    <2>1. ToSet(<< >>) = {}
      BY DEF ToSet
    <2> QED
      BY <1>1, <2>1
  <1>7. call.batch = Answered(records, order_admissible(records, kept, set.ranking))
    BY <1>1, <1>6, BatchIs
  <1>8. call.batch.records = [i \in 1..n |-> RecordFor(i)]
    <2>1. \A r, o : Answered(r, o).records = r
      BY DEF Answered
    <2>2. call.batch.records = records
      BY <1>7, <2>1
    <2>3. records = [i \in 1..n |-> RecordFor(i)]
      BY <1>4 DEF RecordFor
    <2> QED
      BY <2>2, <2>3
  <1>9. PICK i \in 1..n : record = RecordFor(i)
    <2>1. ToSet(call.batch.records) = {RecordFor(i) : i \in 1..n}
      BY <1>8 DEF ToSet
    <2> QED
      BY <1>1, <2>1
  <1>10. \A j \in 1..n : kept[j].path \in Nat /\ kept[j] \in CandidatePath
    <2>1. \A j \in 1..n : kept[j] \in CandidatePath
      BY <1>4
    <2>2. \A c \in CandidatePath : c.path \in Nat
      BY DEF CandidatePath
    <2> QED
      BY <2>1, <2>2
  <1>11. \A j, k \in 1..n : kept[j].path = kept[k].path => j = k
    <2> SUFFICES ASSUME NEW j \in 1..n, NEW k \in 1..n, kept[j].path = kept[k].path, j # k
                 PROVE  FALSE
      OBVIOUS
    <2>1. j < k \/ k < j
      BY <1>4
    <2> DEFINE x == kept[j].path
               y == kept[k].path
    <2>2. x < y \/ y < x
      BY <1>5, <2>1
    <2>3. x \in Nat /\ y \in Nat /\ x = y
      BY <1>10
    <2> HIDE DEF x, y
    <2> QED
      BY <2>2, <2>3
  <1>12. record.path = kept[i].path
    BY <1>2, <1>3, <1>9, <1>10, RecordIs, SMTT(60) DEF RecordFor
  <1>13. Source(record) = kept[i]
    <2>1. ToSet(kept) = {kept[j] : j \in 1..n}
      BY <1>4 DEF ToSet
    <2>2. Source(record) = CHOOSE c \in ToSet(kept) : c.path = record.path
      BY DEF Source, Kept
    <2>3. kept[i] \in ToSet(kept)
      BY <2>1
    <2>4. \A c \in ToSet(kept) : c.path = record.path => c = kept[i]
      BY <1>11, <1>12, <2>1
    <2> QED
      BY <1>12, <2>2, <2>3, <2>4
  <1> QED
    BY <1>1, <1>2, <1>3, <1>4, <1>8, <1>9, <1>11, <1>13

\* The two invariants of a call at once.
LEMMA CallsAre == Spec => [](DefinitionInv /\ CallInv)
  BY DefinitionsAreSubmitted, AnswersAreOfTheirCall, PTL

\* evaluate_candidate admits a candidate exactly when it is lawful: for every
\* definition, context and population the stages of the evaluator, the reasons it
\* keeps and the bounds it keeps them under decide what the requirements mean.
THEOREM LawfulAreAdmitted == Spec => []AdmissibleIffLawful
  <1>1. DefinitionInv /\ CallInv => AdmissibleIffLawful
    <2> SUFFICES ASSUME DefinitionInv, CallInv, NEW record \in Evaluated
                 PROVE  Admissible(record) <=> Lawful(definition.set, call.ctx, Source(record))
      BY DEF AdmissibleIffLawful
    <2> DEFINE kept == Kept(call.candidates)
               set == definition.set
    <2>1. /\ call # None /\ Ruled(set) /\ call.ctx \in ContextType
          /\ kept \in Seq(CandidatePath) /\ Len(kept) \in Nat
      BY RecordsAre
    <2>2. PICK i \in 1..Len(kept) : record = RecordFor(i) /\ Source(record) = kept[i]
      BY RecordsAre
    <2> DEFINE candidate == kept[i]
    <2>3. candidate \in CandidatePath
      BY <2>1
    <2>4. record = evaluate_candidate(set, call.ctx, candidate)
      BY <2>2 DEF RecordFor
    <2> HIDE DEF set, kept, candidate
    <2>5. Admissible(record) <=>
             Admitted(set, call.ctx, candidate) /\ Failing(set, call.ctx, candidate) = {}
      BY <2>1, <2>3, <2>4, RecordIs
    <2>6. verify_canonical_constraint_set(set) <=> set.digest = constraint_set_digest(set)
      BY <2>1, EvaluatedSetIsRuled DEF set
    <2>7. Failing(set, call.ctx, candidate) = {} <=>
             \A j \in Scoped(set, "Mandatory") : Satisfies(set.constraints[j], candidate, call.ctx.current)
      BY DEF Failing
    <2>8. Lawful(set, call.ctx, candidate) <=>
             Admitted(set, call.ctx, candidate) /\ Failing(set, call.ctx, candidate) = {}
      BY <2>6, <2>7 DEF Lawful, Admitted
    <2> QED
      BY <2>2, <2>5, <2>8 DEF set, candidate
  <1> QED
    BY <1>1, CallsAre, PTL


\* The slots of an admitted candidate: one for each preference of the definition,
\* in an order all candidates share.
LEMMA SlotsAre ==
    ASSUME NEW set, Ruled(set), NEW ctx \in ContextType, NEW candidate \in CandidatePath,
           Admitted(set, ctx, candidate)
    PROVE  LET n == Cardinality(Scoped(set, "Preference"))
               order == PreferenceOrder(set)
               slots == evaluate_preferences(set, ctx, candidate)
           IN /\ n \in Nat /\ slots \in Seq(Slot) /\ Len(slots) = n
              /\ \A k \in 1..n :
                    /\ order[k] \in DOMAIN set.constraints /\ order[k] \in Nat
                    /\ slots[k].ordinal + 1 = order[k]
                    /\ slots[k].satisfied <=>
                         Satisfies(set.constraints[order[k]], candidate, ctx.current)
  <1> DEFINE P == Scoped(set, "Preference")
             n == Cardinality(P)
             order == PreferenceOrder(set)
             slots == evaluate_preferences(set, ctx, candidate)
             slot(k) == evaluate_preference(set.constraints[order[k]], order[k] - 1, candidate, ctx.current)
  <1>1. set.constraints \in Seq(Constraint)
    BY DEF Ruled
  <1>2. n \in Nat /\ order \in [1..n -> P]
    BY <1>1, PreferenceOrderIs
  <1>3. slots = [k \in 1..n |-> slot(k)]
    BY <1>1, PreferencesAre
  <1>4. P \subseteq DOMAIN set.constraints
    BY DEF Scoped
  <1>5. validate_candidate(candidate) = "None"
    BY DEF Admitted
  <1> HIDE DEF n, order, slots, P
  <1>6. ASSUME NEW k \in 1..n
        PROVE  /\ slot(k) \in Slot
               /\ order[k] \in DOMAIN set.constraints /\ order[k] \in Nat
               /\ slot(k).ordinal + 1 = order[k]
               /\ slot(k).satisfied <=> Satisfies(set.constraints[order[k]], candidate, ctx.current)
    <2> DEFINE i == order[k]
               c == set.constraints[i]
               s == preference_slot(c, candidate, ctx.current)
    <2>1. i \in DOMAIN set.constraints
      BY <1>2, <1>4
    <2> HIDE DEF i
    <2>2. /\ c \in Constraint /\ validate_constraint(c)
          /\ ctx.current \in [Family -> Nat]
          /\ \A f \in families_of(c) : ctx.current[f] # 0
          /\ i \in Nat /\ i - 1 \in Nat
      BY <2>1, AdmittedConstraints
    <2> HIDE DEF c
    <2>3. s.satisfied \in BOOLEAN /\ s.margin \in Int
      BY <1>5, <2>2, SlotIs
    <2>4. s.satisfied <=> Satisfies(c, candidate, ctx.current)
      BY <1>5, <2>2, SlotIs
    <2>5. slot(k) = [constraint |-> c.id, ordinal |-> i - 1, rank |-> c.preference_rank,
                     weight |-> c.preference_weight, satisfied |-> s.satisfied, margin |-> s.margin]
      BY DEF evaluate_preference, i, c
    <2>6. c.id \in Nat /\ c.preference_rank \in Nat /\ c.preference_weight \in Nat
      BY <2>2 DEF Constraint
    <2>7. slot(k).ordinal = i - 1 /\ slot(k).satisfied = s.satisfied
      BY <2>5
    <2>8. slot(k) \in Slot
      <3> HIDE DEF s, slot
      <3> QED
        BY <2>2, <2>3, <2>5, <2>6 DEF Slot
    <2> HIDE DEF s, slot
    <2>9. (i - 1) + 1 = i
      BY <2>2
    <2> QED
      BY <2>1, <2>2, <2>4, <2>7, <2>8, <2>9 DEF i, c
  <1> HIDE DEF slot
  <1>7. slots \in [1..n -> Slot] /\ \A k \in 1..n : slots[k] = slot(k)
    BY <1>3, <1>6
  <1>8. slots \in Seq(Slot) /\ Len(slots) = n
    BY <1>2, <1>7
  <1>9. \A k \in 1..n :
           /\ order[k] \in DOMAIN set.constraints /\ order[k] \in Nat
           /\ slots[k].ordinal + 1 = order[k]
           /\ slots[k].satisfied <=> Satisfies(set.constraints[order[k]], candidate, ctx.current)
    BY <1>6, <1>7
  <1> QED
    BY <1>2, <1>8, <1>9 DEF n, order, slots, P

\* evaluate_preference, which computes a preference from the figures again, finds
\* it satisfied exactly when evaluate_mandatory would have let the same constraint
\* pass: for every definition, context and population.
THEOREM PreferencesAreConstraints == Spec => []PreferencesAgree
  <1>1. DefinitionInv /\ CallInv => PreferencesAgree
    <2> SUFFICES ASSUME DefinitionInv, CallInv, NEW record \in Evaluated,
                        NEW k \in DOMAIN record.preferences
                 PROVE  record.preferences[k].satisfied <=>
                          Satisfies(definition.set.constraints[record.preferences[k].ordinal + 1],
                                    Source(record), call.ctx.current)
      BY DEF PreferencesAgree
    <2> DEFINE kept == Kept(call.candidates)
               set == definition.set
    <2>1. /\ call # None /\ Ruled(set) /\ call.ctx \in ContextType
          /\ kept \in Seq(CandidatePath) /\ Len(kept) \in Nat
      BY RecordsAre
    <2>2. PICK i \in 1..Len(kept) : record = RecordFor(i) /\ Source(record) = kept[i]
      BY RecordsAre
    <2> DEFINE candidate == kept[i]
               n == Cardinality(Scoped(set, "Preference"))
               order == PreferenceOrder(set)
               slots == evaluate_preferences(set, call.ctx, candidate)
    <2>3. candidate \in CandidatePath
      BY <2>1
    <2>4. record = evaluate_candidate(set, call.ctx, candidate)
      BY <2>2 DEF RecordFor
    <2> HIDE DEF set, kept, candidate
    <2>5. record.preferences = IF /\ Admitted(set, call.ctx, candidate)
                                  /\ Failing(set, call.ctx, candidate) = {}
                               THEN slots ELSE <<>>
      BY <2>1, <2>3, <2>4, RecordIs
    <2>6. Admitted(set, call.ctx, candidate) /\ record.preferences = slots
      <3>1. DOMAIN << >> = {}
        OBVIOUS
      <3>2. record.preferences # <<>>
        BY <3>1
      <3> QED
        BY <2>5, <3>2
    <2>7. n \in Nat /\ slots \in Seq(Slot) /\ Len(slots) = n
      BY <2>1, <2>3, <2>6, SlotsAre
    <2>8. \A j \in 1..n : /\ slots[j].ordinal + 1 = order[j]
                          /\ slots[j].satisfied <=>
                                Satisfies(set.constraints[order[j]], candidate, call.ctx.current)
      BY <2>1, <2>3, <2>6, SlotsAre
    <2> HIDE DEF slots, order
    <2>9. k \in 1..n
      BY <2>6, <2>7
    <2> QED
      BY <2>2, <2>6, <2>8, <2>9 DEF set, candidate
  <1> QED
    BY <1>1, CallsAre, PTL


LEMMA CandidatesAreRankable ==
    ASSUME NEW candidate \in CandidatePath
    PROVE  Rankable(candidate)
  <1>1. /\ candidate.path \in Nat /\ candidate.nodes \in Seq(NodeFact)
        /\ candidate.has_planner_rank \in BOOLEAN /\ candidate.planner_rank \in Nat
        /\ candidate.has_planner_cost \in BOOLEAN /\ candidate.planner_cost \in Int
    BY DEF CandidatePath
  <1>2. Len(candidate.nodes) \in Nat /\ DOMAIN candidate.nodes = 1..Len(candidate.nodes)
    BY <1>1
  <1>3. \A i \in DOMAIN candidate.nodes : candidate.nodes[i].node \in Nat
    <2>1. \A i \in DOMAIN candidate.nodes : candidate.nodes[i] \in NodeFact
      BY <1>1
    <2> QED
      BY <2>1 DEF NodeFact
  <1> QED
    BY <1>1, <1>2, <1>3 DEF Rankable

\* A satisfied foremost slot comes before one that is not, whatever the rest.
LEMMA ForemostSlotDecides ==
    ASSUME NEW ra, NEW a, NEW rb, NEW b, NEW policy,
           ra.preferences \in Seq(Slot), rb.preferences \in Seq(Slot),
           Len(ra.preferences) >= 1, Len(rb.preferences) >= 1,
           ra.preferences[1].satisfied, ~rb.preferences[1].satisfied
    PROVE  compare_ranked(ra, a, rb, b, policy) < 0
  <1> DEFINE p == ra.preferences
             q == rb.preferences
             m == Len(p)
             n == Len(q)
             f == Places(compare_slot, p, q)
  <1>1. p \in Seq(Slot) /\ q \in Seq(Slot) /\ m \in Nat /\ n \in Nat /\ m >= 1 /\ n >= 1
    OBVIOUS
  <1>2. p[1] \in Slot /\ q[1] \in Slot
    BY <1>1
  <1>3. 1 \in 1..Shorter(m, n)
    <2> HIDE DEF m, n
    <2> QED
      BY <1>1 DEF Shorter
  <1>4. CmpFlag(p[1].satisfied, q[1].satisfied) = -1
    <2>1. p[1].satisfied \in BOOLEAN /\ q[1].satisfied \in BOOLEAN
      BY <1>2 DEF Slot
    <2>2. p[1].satisfied = TRUE /\ q[1].satisfied = FALSE
      BY <2>1
    <2>3. CmpFlag(TRUE, FALSE) = -1
      BY DEF CmpFlag
    <2> QED
      BY <2>2, <2>3
  <1>5. compare_slot(p[1], q[1]) = -1
    <2>1. \A y : OrElse(-1, y) = -1
      BY DEF OrElse
    <2> QED
      BY <1>4, <2>1 DEF compare_slot
  <1>6. f[1] = -1
    BY <1>3, <1>5 DEF Places
  <1>7. compare_preferences(p, q) = Lexical(f, m, n)
    BY <1>1, PreferencesAreLexical
  <1> HIDE DEF p, q, m, n, f
  <1>8. Lexical(f, m, n) = f[1]
    <2>1. f[1] # 0 /\ \A i \in 1..(1 - 1) : f[i] = 0
      BY <1>6
    <2> QED
      BY <1>1, <1>3, <2>1, FirstDecides
  <1>9. compare_preferences(p, q) = -1
    BY <1>6, <1>7, <1>8
  <1>10. compare_ranked(ra, a, rb, b, policy) = -1
    BY <1>9 DEF compare_ranked, OrElse, p, q
  <1> QED
    BY <1>10

\* The order of an answer has every admissible candidate, and of two the one that
\* compares less comes first.
LEMMA RankingIs ==
    ASSUME NEW n \in Nat, NEW records, DOMAIN records = 1..n, NEW candidates, NEW policy,
           \A i \in 1..n : Admissible(records[i]) => RankedPair(records[i], candidates[i])
    PROVE  LET I == {i \in 1..n : Admissible(records[i])}
               order == order_admissible(records, candidates, policy)
           IN /\ Cardinality(I) \in Nat /\ order \in [1..Cardinality(I) -> I]
              /\ \A i \in I : \E k \in 1..Cardinality(I) : order[k] = i
              /\ \A j, k \in 1..Cardinality(I) :
                    compare_ranked(records[order[j]], candidates[order[j]],
                                   records[order[k]], candidates[order[k]], policy) < 0 => j < k
  <1> DEFINE I == {i \in 1..n : Admissible(records[i])}
             order == order_admissible(records, candidates, policy)
             Less(i, j) == compare_ranked(records[i], candidates[i], records[j], candidates[j], policy) < 0
             less == {ij \in I \X I : Less(ij[1], ij[2])}
             cmp == [ij \in I \X I |-> compare_ranked(records[ij[1]], candidates[ij[1]],
                                                      records[ij[2]], candidates[ij[2]], policy)]
             m == Cardinality(I)
  <1>1. order = Ascending(I, Stably(I, less))
    BY DEF order_admissible, stable_order
  <1>2. IsFiniteSet(I) /\ I \in SUBSET Int
    BY FS_Interval, FS_Subset
  <1>3. \A i, j \in I : cmp[<<i, j>>] = compare_ranked(records[i], candidates[i], records[j],
                                                       candidates[j], policy)
    OBVIOUS
  <1>4. \A i \in I : RankedPair(records[i], candidates[i])
    OBVIOUS
  <1>5. \A i, j \in I : <<i, j>> \in less <=> Less(i, j)
    OBVIOUS
  <1>6. less = {ij \in I \X I : cmp[ij] < 0}
    <2>1. \A ij \in I \X I : ij[1] \in I /\ ij[2] \in I /\ ij = <<ij[1], ij[2]>>
      OBVIOUS
    <2>2. \A i, j \in I : Less(i, j) <=> cmp[<<i, j>>] < 0
      BY <1>3
    <2> HIDE DEF cmp, Less, I
    <2> QED
      BY <2>1, <2>2
  <1> HIDE DEF I, less, cmp, order
  <1>7. /\ \A x, y, z \in I : Triple(cmp[<<x, y>>], cmp[<<y, z>>], cmp[<<x, z>>])
        /\ \A x, y \in I : Turned(cmp[<<x, y>>], cmp[<<y, x>>])
    <2>1. ASSUME NEW x \in I, NEW y \in I, NEW z \in I
          PROVE  /\ Triple(cmp[<<x, y>>], cmp[<<y, z>>], cmp[<<x, z>>])
                 /\ Turned(cmp[<<x, y>>], cmp[<<y, x>>])
      BY <1>3, <1>4, ComparisonsOrder
    <2> QED
      BY <2>1
  <1>8. WeakOrder(I, less)
    BY <1>6, <1>7, ComparisonIsWeakOrder
  <1>9. StrictOrder(I, Stably(I, less))
    BY <1>2, <1>8, StablyOrders
  <1>10. /\ m \in Nat /\ order \in [1..m -> I]
         /\ \A i \in I : \E k \in 1..m : order[k] = i
         /\ \A j, k \in 1..m : j < k <=> <<order[j], order[k]>> \in Stably(I, less)
    BY <1>1, <1>2, <1>9, AscendingSorts
  <1> HIDE DEF m
  <1>11. \A i, j \in I : <<i, j>> \in less => <<i, j>> \in Stably(I, less)
    BY DEF Stably
  <1>12. \A j, k \in 1..m : Less(order[j], order[k]) => j < k
    <2> SUFFICES ASSUME NEW j \in 1..m, NEW k \in 1..m, Less(order[j], order[k]) PROVE j < k
      OBVIOUS
    <2>1. order[j] \in I /\ order[k] \in I
      BY <1>10
    <2> HIDE DEF Less
    <2>2. <<order[j], order[k]>> \in less
      BY <1>5, <2>1
    <2> QED
      BY <1>10, <1>11, <2>1, <2>2
  <1> QED
    BY <1>10, <1>12 DEF I, order, m

\* For every definition, context and population, the order of an answer puts each
\* admissible candidate that satisfies the foremost preference before each that
\* does not: no margin, weight, planner rank or cost outweighs it.
THEOREM ForemostPreferenceRanks == Spec => []ForemostPreferenceDecides
  <1>1. DefinitionInv /\ CallInv => ForemostPreferenceDecides
    <2> SUFFICES ASSUME DefinitionInv, CallInv, NEW a \in Evaluated, NEW b \in Evaluated,
                        Admissible(a), Admissible(b), a.preferences # <<>>,
                        a.preferences[1].satisfied, ~b.preferences[1].satisfied
                 PROVE  \E i, j \in DOMAIN call.batch.order :
                          i < j /\ call.batch.order[i] = a.path /\ call.batch.order[j] = b.path
      BY DEF ForemostPreferenceDecides
    <2> DEFINE kept == Kept(call.candidates)
               set == definition.set
               n == Len(kept)
               records == [i \in DOMAIN kept |-> evaluate_candidate(set, call.ctx, kept[i])]
               I == {i \in 1..n : Admissible(records[i])}
               m == Cardinality(I)
               order == order_admissible(records, kept, set.ranking)
               p == Cardinality(Scoped(set, "Preference"))
    <2>1. /\ call # None /\ Ruled(set) /\ call.ctx \in ContextType
          /\ kept \in Seq(CandidatePath) /\ n \in Nat /\ DOMAIN kept = 1..n
      BY RecordsAre
    <2>2. PICK x \in 1..n : a = RecordFor(x)
      BY RecordsAre
    <2>3. PICK y \in 1..n : b = RecordFor(y)
      BY RecordsAre
    <2>4. DOMAIN records = 1..n /\ a = records[x] /\ b = records[y]
      BY <2>1, <2>2, <2>3 DEF RecordFor
    <2>5. ASSUME NEW i \in 1..n, Admissible(records[i])
          PROVE  /\ RankedPair(records[i], kept[i])
                 /\ records[i].preferences \in Seq(Slot) /\ Len(records[i].preferences) = p
      <3> DEFINE candidate == kept[i]
                 r == evaluate_candidate(set, call.ctx, candidate)
      <3>1. candidate \in CandidatePath
        BY <2>1
      <3>2. records[i] = r
        BY <2>1
      <3> HIDE DEF candidate, set, records
      <3>3. Admitted(set, call.ctx, candidate) /\ Failing(set, call.ctx, candidate) = {}
        BY <2>1, <2>5, <3>1, <3>2, RecordIs, SMTT(60), ZenonT(60)
      <3>4. r.preferences = evaluate_preferences(set, call.ctx, candidate)
        BY <2>1, <3>1, <3>3, RecordIs, SMTT(60), ZenonT(60)
      <3>5. /\ evaluate_preferences(set, call.ctx, candidate) \in Seq(Slot)
            /\ Len(evaluate_preferences(set, call.ctx, candidate)) = p
        BY <2>1, <3>1, <3>3, SlotsAre
      <3>6. Rankable(candidate)
        BY <3>1, CandidatesAreRankable
      <3> QED
        BY <3>2, <3>4, <3>5, <3>6 DEF RankedPair, candidate
    <2>6. call.batch.order = [k \in DOMAIN order |-> records[order[k]].path]
      <3>1. call.batch.records # <<>>
        <4>1. ToSet(<< >>) = {}
          BY DEF ToSet
        <4> QED
          BY <2>1, <4>1 DEF Evaluated
      <3>2. call.batch = Answered(records, order)
        BY <2>1, <3>1, BatchIs
      <3>3. \A r, o : Answered(r, o).order = [k \in DOMAIN o |-> r[o[k]].path]
        BY DEF Answered
      <3> QED
        BY <3>2, <3>3
    <2>7. x \in I /\ y \in I
      BY <2>4
    <2>8. \A i \in 1..n : Admissible(records[i]) => RankedPair(records[i], kept[i])
      BY <2>5
    <2> HIDE DEF kept, set, n, records
    <2> DEFINE policy == set.ranking
    <2>9. n \in Nat /\ DOMAIN records = 1..n
      BY <2>1, <2>4
    <2> HIDE DEF policy
    <2>10. /\ m \in Nat /\ order_admissible(records, kept, policy) \in [1..m -> I]
           /\ \A i \in I : \E k \in 1..m : order_admissible(records, kept, policy)[k] = i
           /\ \A j, k \in 1..m :
                 compare_ranked(records[order_admissible(records, kept, policy)[j]],
                                kept[order_admissible(records, kept, policy)[j]],
                                records[order_admissible(records, kept, policy)[k]],
                                kept[order_admissible(records, kept, policy)[k]], policy) < 0 => j < k
      BY <2>8, <2>9, RankingIs, ZenonT(60)
    <2>11. /\ m \in Nat /\ order \in [1..m -> I]
          /\ \A i \in I : \E k \in 1..m : order[k] = i
      BY <2>10 DEF policy
    <2>12. \A j, k \in 1..m :
             compare_ranked(records[order[j]], kept[order[j]],
                            records[order[k]], kept[order[k]], policy) < 0 => j < k
      BY <2>10 DEF policy
    <2> HIDE DEF I, m, order, p
    <2>13. PICK j \in 1..m : order[j] = x
      BY <2>7, <2>11
    <2>14. PICK k \in 1..m : order[k] = y
      BY <2>7, <2>11
    <2>15. compare_ranked(records[x], kept[x], records[y], kept[y], policy) < 0
      <3>1. /\ records[x].preferences \in Seq(Slot) /\ Len(records[x].preferences) = p
            /\ records[y].preferences \in Seq(Slot) /\ Len(records[y].preferences) = p
        BY <2>4, <2>5
      <3>2. p >= 1
        <4>1. records[x].preferences # <<>>
          BY <2>4
        <4> DEFINE s == records[x].preferences
        <4>2. s \in Seq(Slot) /\ s # <<>> /\ Len(s) = p
          BY <3>1, <4>1
        <4> HIDE DEF s
        <4> QED
          BY <4>2
      <3> QED
        BY <2>4, <3>1, <3>2, ForemostSlotDecides
    <2>16. j < k
      BY <2>12, <2>13, <2>14, <2>15
    <2>17. DOMAIN order = 1..m
      BY <2>11
    <2>18. call.batch.order[j] = a.path /\ call.batch.order[k] = b.path
           /\ j \in DOMAIN call.batch.order /\ k \in DOMAIN call.batch.order
      BY <2>4, <2>6, <2>13, <2>14, <2>17
    <2> QED
      BY <2>16, <2>18
  <1> QED
    BY <1>1, CallsAre, PTL

-----------------------------------------------------------------------------
(* Explanations *)

\* Shorter parts make a shorter whole.
LEMMA FlattenShortens ==
    ASSUME NEW T, NEW n \in Nat, NEW f \in [1..n -> Seq(T)], NEW g \in [1..n -> Seq(T)],
           \A i \in 1..n : Len(f[i]) <= Len(g[i])
    PROVE  Len(FlattenSeq(f)) <= Len(FlattenSeq(g))
  <1>1. CASE n = 0
    <2>1. f = g
      BY <1>1
    <2>2. FlattenSeq(f) \in Seq(T)
      BY FlattenFunction
    <2> DEFINE m == Len(FlattenSeq(f))
    <2>3. m \in Nat
      BY <2>2
    <2> HIDE DEF m
    <2>4. m <= m
      BY <2>3
    <2> QED
      BY <2>1, <2>4 DEF m
  <1>2. CASE n # 0
    <2>1. Len(f) = n /\ Len(g) = n
      OBVIOUS
    <2>2. PICK x : Flattens(x, f, n) /\ FlattenSeq(f) = x[n]
      BY <1>2, <2>1, FlattenIs
    <2>3. PICK y : Flattens(y, g, n) /\ FlattenSeq(g) = y[n]
      BY <1>2, <2>1, FlattenIs
    <2>4. \A i \in 1..n : x[i] = IF i = 1 THEN f[i] ELSE x[i - 1] \o f[i]
      BY <2>2 DEF Flattens
    <2>5. \A i \in 1..n : y[i] = IF i = 1 THEN g[i] ELSE y[i - 1] \o g[i]
      BY <2>3 DEF Flattens
    <2> DEFINE Good(i) == x[i] \in Seq(T) /\ y[i] \in Seq(T) /\ Len(x[i]) <= Len(y[i])
               D == {i \in 1..n : ~Good(i)}
    <2>6. D = {}
      <3> SUFFICES ASSUME D # {} PROVE FALSE
        OBVIOUS
      <3>1. PICK i \in D : \A k \in D : i <= k
        <4>1. D \in SUBSET Nat
          OBVIOUS
        <4> HIDE DEF D
        <4> QED
          BY <4>1, Least
      <3>2. i \in 1..n /\ ~Good(i)
        OBVIOUS
      <3>3. f[i] \in Seq(T) /\ g[i] \in Seq(T) /\ Len(f[i]) <= Len(g[i])
        BY <3>2
      <3>4. CASE i = 1
        <4>1. x[i] = f[i] /\ y[i] = g[i]
          BY <2>4, <2>5, <3>2, <3>4
        <4> QED
          BY <3>2, <3>3, <4>1
      <3>5. CASE i # 1
        <4>1. i - 1 \in 1..n /\ ~(i <= i - 1)
          BY <3>2, <3>5
        <4>2. i - 1 \notin D
          BY <3>1, <4>1
        <4>3. Good(i - 1)
          BY <4>1, <4>2
        <4>4. x[i] = x[i - 1] \o f[i] /\ y[i] = y[i - 1] \o g[i]
          BY <2>4, <2>5, <3>2, <3>5
        <4> HIDE DEF D
        <4> DEFINE a == x[i - 1]
                   b == f[i]
                   c == y[i - 1]
                   d == g[i]
        <4>5. a \in Seq(T) /\ b \in Seq(T) /\ c \in Seq(T) /\ d \in Seq(T)
          BY <3>3, <4>3
        <4>6. Len(a) <= Len(c) /\ Len(b) <= Len(d)
          BY <3>3, <4>3
        <4>7. x[i] = a \o b /\ y[i] = c \o d
          BY <4>4
        <4> HIDE DEF a, b, c, d
        <4>8. a \o b \in Seq(T) /\ Len(a \o b) = Len(a) + Len(b)
          BY <4>5, ConcatIs
        <4>9. c \o d \in Seq(T) /\ Len(c \o d) = Len(c) + Len(d)
          BY <4>5, ConcatIs
        <4>10. Len(a) \in Nat /\ Len(b) \in Nat /\ Len(c) \in Nat /\ Len(d) \in Nat
          BY <4>5
        <4>11. Len(a) + Len(b) <= Len(c) + Len(d)
          BY <4>6, <4>10
        <4> QED
          BY <3>2, <4>7, <4>8, <4>9, <4>11
      <3> QED
        BY <3>4, <3>5
    <2>7. n \in 1..n
      BY <1>2
    <2>8. Good(n)
      BY <2>6, <2>7
    <2> QED
      BY <2>2, <2>3, <2>8
  <1> QED
    BY <1>1, <1>2

\* The reasons of the constraints are ordered by their constraints.
LEMMA EarlierConstraintFirst ==
    ASSUME NEW a \in Reason, NEW b \in Reason, a.code \in MandatoryCode, b.code \in MandatoryCode,
           a.ordinal < b.ordinal
    PROVE  reason_less(a, b)
  <1> DEFINE p == ReasonKey(a)
             q == ReasonKey(b)
             f == Places(Cmp, p, q)
  <1>1. /\ p \in Seq(Int) /\ Len(p) = 7
        /\ p[1] = reason_class_of(a.code) /\ p[2] = a.ordinal
    BY KeysAre
  <1>2. /\ q \in Seq(Int) /\ Len(q) = 7
        /\ q[1] = reason_class_of(b.code) /\ q[2] = b.ordinal
    BY KeysAre
  <1>3. reason_class_of(a.code) = 7 /\ reason_class_of(b.code) = 7
    <2>1. ASSUME NEW k \in MandatoryCode PROVE reason_class_of(k) = 7
      <3>1. Code[k] \in 800..899
        BY DEF MandatoryCode
      <3> DEFINE v == Code[k]
      <3>2. v \in 800..899 /\ reason_class_of(k) = IF v \in 100..899 THEN v \div 100 - 1 ELSE 8
        BY <3>1 DEF reason_class_of
      <3> HIDE DEF v
      <3>3. v \div 100 = 8
        BY <3>2
      <3> QED
        BY <3>2, <3>3
    <2> QED
      BY <2>1
  <1>4. compare_lists(p, q) = Lexical(f, 7, 7)
    BY <1>1, <1>2, ListsAreLexical
  <1>5. Shorter(7, 7) = 7
    BY DEF Shorter
  <1>6. f = [i \in 1..7 |-> Cmp(p[i], q[i])]
    BY <1>1, <1>2, <1>5 DEF Places
  <1>7. a.ordinal \in Nat /\ b.ordinal \in Nat
    BY DEF Reason
  <1>8. f[1] = 0
    <2>1. f[1] = Cmp(7, 7)
      BY <1>1, <1>2, <1>3, <1>6
    <2>2. Cmp(7, 7) = 0
      BY DEF Cmp
    <2> QED
      BY <2>1, <2>2
  <1>9. f[2] = -1
    <2>1. f[2] = Cmp(a.ordinal, b.ordinal)
      BY <1>1, <1>2, <1>6
    <2> QED
      BY <1>7, <2>1 DEF Cmp
  <1> HIDE DEF p, q, f
  <1>10. Lexical(f, 7, 7) = f[2]
    <2> DEFINE m == 7
    <2>1. m \in Nat /\ 2 \in 1..Shorter(m, m) /\ f[2] # 0 /\ \A i \in 1..(2 - 1) : f[i] = 0
      BY <1>5, <1>8, <1>9
    <2> HIDE DEF m
    <2>2. Lexical(f, m, m) = f[2]
      BY <2>1, FirstDecides
    <2> QED
      BY <2>2 DEF m
  <1>11. compare_reason(a, b) = compare_lists(p, q)
    BY DEF compare_reason, ReasonKey, p, q
  <1> QED
    BY <1>4, <1>9, <1>10, <1>11 DEF reason_less

\* What is said of an admitted candidate: of the first constraint that fails
\* first, and of every one that fails unless the explanation is truncated.
LEMMA ExplanationOf ==
    ASSUME NEW set, Ruled(set), NEW ctx \in ContextType, NEW candidate \in CandidatePath,
           Admitted(set, ctx, candidate)
    PROVE  LET failed == mandatory_reasons(set, ctx, candidate)
               pushed == ForEach(failed, push_reasons)
               failing == Failing(set, ctx, candidate)
               reasons == canonicalize_reasons(pushed)
           IN /\ failing # {} => reasons[1].constraint = set.constraints[Min(failing)].id
              /\ ~(Len(reasons) < Len(FlattenSeq(failed))) =>
                    {r.constraint : r \in ToSet(reasons)} = {set.constraints[i].id : i \in failing}
  <1> DEFINE failed == mandatory_reasons(set, ctx, candidate)
             pushed == ForEach(failed, push_reasons)
             failing == Failing(set, ctx, candidate)
             reasons == canonicalize_reasons(pushed)
             n == Len(set.constraints)
             Of(r, i) == /\ r.code \in MandatoryCode /\ r.ordinal = i - 1
                         /\ r.constraint = set.constraints[i].id
  <1>1. pushed \in Seq(Reason) /\ (pushed = <<>> <=> failing = {})
    BY PushedIs
  <1>2. \A r \in ToSet(pushed) : \E i \in failing : Of(r, i)
    BY PushedIs, Zenon
  <1>3. \A i \in failing : \E r \in ToSet(pushed) : Of(r, i)
    BY PushedIs, Zenon
  <1>4. n \in Nat /\ DOMAIN set.constraints = 1..n /\ failed \in [1..n -> Seq(Reason)]
    BY FailedIs
  <1>5. failing \in SUBSET (1..n)
    BY <1>4 DEF Failing, Scoped
  <1>6. ASSUME failing # {} PROVE reasons[1].constraint = set.constraints[Min(failing)].id
    <2> DEFINE m == Min(failing)
               first == reasons[1]
    <2>1. m \in failing /\ \A i \in failing : m <= i
      <3> HIDE DEF failing
      <3>1. failing \in SUBSET Nat
        BY <1>4, <1>5
      <3>2. PICK i \in failing : \A j \in failing : i <= j
        BY <1>6, <3>1, Least
      <3> QED
        BY <3>2 DEF Min
    <2>2. Foremost(first, pushed)
      BY <1>1, <1>6, ReasonsCanonical
    <2> HIDE DEF pushed, failing, reasons, first, m
    <2>3. first \in ToSet(pushed) /\ \A r \in ToSet(pushed) : ~reason_less(r, first)
      BY <2>2 DEF Foremost
    <2>4. PICK i \in failing : Of(first, i)
      BY <1>2, <2>3
    <2>5. PICK r \in ToSet(pushed) : Of(r, m)
      BY <1>3, <2>1
    <2>6. ToSet(pushed) \subseteq Reason
      BY <1>1 DEF ToSet
    <2>7. r \in Reason /\ first \in Reason
      BY <2>3, <2>6
    <2>8. i \in Nat /\ m \in Nat /\ m <= i
      BY <1>4, <1>5, <2>1
    <2>9. i = m
      <3> SUFFICES ASSUME i # m PROVE FALSE
        OBVIOUS
      <3>1. m - 1 < i - 1
        BY <2>8
      <3>2. r.ordinal < first.ordinal
        BY <2>4, <2>5, <3>1
      <3>3. reason_less(r, first)
        BY <2>4, <2>5, <2>7, <3>2, EarlierConstraintFirst
      <3> QED
        BY <2>3, <3>3
    <2> QED
      BY <2>4, <2>9 DEF first, m
  <1>7. Len(pushed) <= Len(FlattenSeq(failed))
    <2> DEFINE f == [i \in 1..n |-> push_reasons(failed[i])]
    <2>1. DOMAIN failed = 1..n
      BY <1>4
    <2>2. pushed = FlattenSeq(f)
      BY <2>1 DEF ForEach
    <2> HIDE DEF n, failed, pushed
    <2>3. \A i \in 1..n : push_reasons(failed[i]) \in Seq(Reason) /\ Len(push_reasons(failed[i])) <= Len(failed[i])
      BY <1>4, PushIs
    <2>4. f \in [1..n -> Seq(Reason)] /\ \A i \in 1..n : Len(f[i]) <= Len(failed[i])
      BY <2>3
    <2> HIDE DEF f
    <2>5. Len(FlattenSeq(f)) <= Len(FlattenSeq(failed))
      BY <1>4, <2>4, FlattenShortens
    <2> QED
      BY <2>2, <2>5
  <1>8. ASSUME ~(Len(reasons) < Len(FlattenSeq(failed)))
        PROVE  {r.constraint : r \in ToSet(reasons)} = {set.constraints[i].id : i \in failing}
    <2>1. /\ reasons \in Seq(Reason) /\ Len(reasons) <= Len(pushed)
          /\ Len(reasons) = Len(pushed) => ToSet(reasons) = ToSet(pushed)
      BY <1>1, ReasonsCanonical
    <2>2. FlattenSeq(failed) \in Seq(Reason)
      BY <1>4, FlattenFunction
    <2> DEFINE x == Len(reasons)
               y == Len(pushed)
               z == Len(FlattenSeq(failed))
    <2>3. x \in Nat /\ y \in Nat /\ z \in Nat
      BY <1>1, <2>1, <2>2
    <2>4. x <= y /\ y <= z /\ ~(x < z)
      BY <1>7, <1>8, <2>1
    <2>5. x = y
      <3> HIDE DEF x, y, z
      <3> QED
        BY <2>3, <2>4
    <2>6. ToSet(reasons) = ToSet(pushed)
      BY <2>1, <2>5
    <2> HIDE DEF reasons, pushed, failing, failed
    <2>7. \A v : v \in {r.constraint : r \in ToSet(pushed)} => v \in {set.constraints[i].id : i \in failing}
      BY <1>2
    <2>8. \A v : v \in {set.constraints[i].id : i \in failing} => v \in {r.constraint : r \in ToSet(pushed)}
      <3> SUFFICES ASSUME NEW i \in failing
                   PROVE  set.constraints[i].id \in {r.constraint : r \in ToSet(pushed)}
        OBVIOUS
      <3>1. PICK r \in ToSet(pushed) : Of(r, i)
        BY <1>3
      <3> QED
        BY <3>1
    <2> QED
      BY <2>6, <2>7, <2>8
  <1> QED
    BY <1>6, <1>8

\* For every definition, context and population, the explanation of a refused
\* candidate begins with its primary reason, which push_reason and the bounds of
\* canonicalize_reasons never change; when it is about constraints it begins with
\* the first mandatory one that fails, and it leaves none out unless it says so.
THEOREM ExplanationsAreSound == Spec => []ExplanationIsSound
  <1>1. DefinitionInv /\ CallInv => ExplanationIsSound
    <2> SUFFICES ASSUME DefinitionInv, CallInv, NEW record \in Evaluated
                 PROVE  LET candidate == Source(record) IN
                        /\ record.reasons # <<>> => record.reasons[1].code = record.primary_reason
                        /\ Code[record.primary_reason] \notin 1..799 =>
                             Explains(record, definition.set.constraints,
                                 ForEach(mandatory_reasons(definition.set, call.ctx, candidate), push_reasons),
                                 Failing(definition.set, call.ctx, candidate))
      BY DEF ExplanationIsSound
    <2> DEFINE kept == Kept(call.candidates)
               set == definition.set
    <2>1. /\ call # None /\ Ruled(set) /\ call.ctx \in ContextType
          /\ kept \in Seq(CandidatePath) /\ Len(kept) \in Nat
      BY RecordsAre
    <2>2. PICK i \in 1..Len(kept) : record = RecordFor(i) /\ Source(record) = kept[i]
      BY RecordsAre
    <2> DEFINE candidate == kept[i]
               failed == mandatory_reasons(set, call.ctx, candidate)
               pushed == ForEach(failed, push_reasons)
               failing == Failing(set, call.ctx, candidate)
    <2>3. candidate \in CandidatePath
      BY <2>1
    <2>4. record = evaluate_candidate(set, call.ctx, candidate)
      BY <2>2 DEF RecordFor
    <2> HIDE DEF set, kept, candidate
    <2>5. record.reasons # <<>> => record.reasons[1].code = record.primary_reason
      BY <2>1, <2>3, <2>4, RecordIs
    <2>6. ASSUME Code[record.primary_reason] \notin 1..799
          PROVE  Explains(record, set.constraints, pushed, failing)
      <3>1. Admitted(set, call.ctx, candidate)
        <4>1. ~Admitted(set, call.ctx, candidate) => Code[record.primary_reason] \in 100..799
          BY <2>1, <2>3, <2>4, RecordIs, ZenonT(60)
        <4>2. 100..799 \subseteq 1..799
          OBVIOUS
        <4> QED
          BY <2>6, <4>1, <4>2, SMTT(60), ZenonT(60)
      <3>2. /\ record.reasons = canonicalize_reasons(pushed)
            /\ record.primary_reason = primary_reason_of(pushed)
            /\ record.reasons_truncated = (Len(record.reasons) < Len(FlattenSeq(failed)))
        BY <2>1, <2>3, <2>4, <3>1, RecordIs
      <3>3. failing # {} => canonicalize_reasons(pushed)[1].constraint = set.constraints[Min(failing)].id
        BY <2>1, <2>3, <3>1, ExplanationOf
      <3>4. ~(Len(canonicalize_reasons(pushed)) < Len(FlattenSeq(failed))) =>
               {r.constraint : r \in ToSet(canonicalize_reasons(pushed))}
                  = {set.constraints[j].id : j \in failing}
        BY <2>1, <2>3, <3>1, ExplanationOf
      <3> HIDE DEF pushed, failed, failing
      <3> QED
        BY <3>2, <3>3, <3>4 DEF Explains
    <2> QED
      BY <2>2, <2>5, <2>6 DEF set, candidate
  <1> QED
    BY <1>1, CallsAre, PTL

-----------------------------------------------------------------------------
(* The order of submission *)

\* Some path has two different candidates.
Conflict(S) == \E c, d \in S : c.path = d.path /\ candidate_digest(c) # candidate_digest(d)

\* Neighbours of the sorted population conflict exactly when any two candidates do.
LEMMA ConflictsAre ==
    ASSUME NEW candidates \in Seq(CandidatePath)
    PROVE  conflicting_duplicates(canonical_population(candidates)) <=> Conflict(ToSet(candidates))
  <1> DEFINE n == Len(candidates)
             q == canonical_population(candidates)
             S == ToSet(candidates)
             path == [i \in 1..n |-> q[i].path]
             digest == [i \in 1..n |-> candidate_digest(q[i])]
  <1>1. n \in Nat /\ DOMAIN candidates = 1..n /\ DOMAIN q = 1..n
    BY SortedPopulation
  <1>2. \A i \in 1..n : q[i].path \in Nat
    BY SortedPopulation
  <1>3. \A i \in 1..n : \E k \in 1..n : q[i] = candidates[k]
    BY SortedPopulation
  <1>4. \A k \in 1..n : \E i \in 1..n : q[i] = candidates[k]
    BY SortedPopulation
  <1>5. \A i, j \in 1..n : i < j => q[i].path <= q[j].path
    BY SortedPopulation
  <1>6. S = {candidates[i] : i \in 1..n}
    BY <1>1 DEF ToSet
  <1>7. Len(q) = n
    <2>1. q = [i \in 1..n |-> q[i]]
      BY <1>1 DEF canonical_population, stable_sort, Arranged
    <2> HIDE DEF q, n
    <2> QED
      BY <1>1, <2>1
  <1> HIDE DEF q, n, S
  <1>8. \A i \in 1..n : path[i] = q[i].path /\ path[i] \in Nat /\ digest[i] = candidate_digest(q[i])
    BY <1>2
  <1>9. \A i, j \in 1..n : i < j => path[i] <= path[j]
    BY <1>5, <1>8
  <1>10. conflicting_duplicates(q) <=>
           \E i \in 2..n : path[i - 1] = path[i] /\ digest[i - 1] # digest[i]
    <2>1. \A i \in 2..n : i \in 1..n /\ i - 1 \in 1..n
      BY <1>1
    <2>2. \A i \in 2..n : /\ path[i - 1] = q[i - 1].path /\ path[i] = q[i].path
                          /\ digest[i - 1] = candidate_digest(q[i - 1]) /\ digest[i] = candidate_digest(q[i])
      BY <1>8, <2>1
    <2> HIDE DEF path, digest
    <2> QED
      BY <1>7, <2>2 DEF conflicting_duplicates
  <1> HIDE DEF path, digest
  <1>11. ASSUME conflicting_duplicates(q) PROVE Conflict(S)
    <2>1. PICK i \in 2..n : path[i - 1] = path[i] /\ digest[i - 1] # digest[i]
      BY <1>10, <1>11
    <2>2. i \in 1..n /\ i - 1 \in 1..n
      BY <1>1
    <2>3. q[i - 1] \in S /\ q[i] \in S
      BY <1>3, <1>6, <2>2
    <2>4. q[i - 1].path = q[i].path /\ candidate_digest(q[i - 1]) # candidate_digest(q[i])
      BY <1>8, <2>1, <2>2
    <2> QED
      BY <2>3, <2>4 DEF Conflict
  <1>12. ASSUME Conflict(S) PROVE conflicting_duplicates(q)
    <2>1. PICK c \in S, d \in S : c.path = d.path /\ candidate_digest(c) # candidate_digest(d)
      BY <1>12 DEF Conflict
    <2>2. PICK x \in 1..n : q[x] = c
      BY <1>4, <1>6
    <2>3. PICK y \in 1..n : q[y] = d
      BY <1>4, <1>6
    <2>4. path[x] = path[y] /\ digest[x] # digest[y]
      BY <1>8, <2>1, <2>2, <2>3
    <2>5. ASSUME NEW a \in 1..n, NEW b \in 1..n, a < b, path[a] = path[b], digest[a] # digest[b]
          PROVE  conflicting_duplicates(q)
      <3> DEFINE D == {k \in 1..n : a < k /\ k <= b /\ digest[k] # digest[a]}
      <3>1. b \in D /\ D \in SUBSET Nat
        BY <2>5
      <3>2. PICK k \in D : \A j \in D : k <= j
        <4> HIDE DEF D
        <4> QED
          BY <3>1, Least
      <3>3. /\ k \in 1..n /\ a < k /\ k <= b /\ digest[k] # digest[a]
            /\ k - 1 \in 1..n /\ k \in 2..n /\ k - 1 \notin D
        BY <3>2, <1>1
      <3>4. digest[k - 1] = digest[a]
        <4>1. CASE k - 1 = a
          BY <4>1
        <4>2. CASE k - 1 # a
          <5>1. a < k - 1 /\ k - 1 <= b
            BY <3>3, <4>2
          <5> QED
            BY <3>3, <5>1
        <4> QED
          BY <4>1, <4>2
      <3>5. path[k - 1] = path[a] /\ path[k] = path[a]
        <4>1. ASSUME NEW j \in 1..n, a <= j, j <= b PROVE path[j] = path[a]
          <5>1. path[a] <= path[j]
            <6>1. CASE a = j
              BY <1>8, <6>1
            <6>2. CASE a # j
              <7>1. a < j
                BY <4>1, <6>2
              <7> QED
                BY <1>9, <7>1
            <6> QED
              BY <6>1, <6>2
          <5>2. path[j] <= path[b]
            <6>1. CASE b = j
              BY <1>8, <6>1
            <6>2. CASE b # j
              <7>1. j < b
                BY <4>1, <6>2
              <7> QED
                BY <1>9, <7>1
            <6> QED
              BY <6>1, <6>2
          <5>3. path[a] \in Nat /\ path[j] \in Nat
            BY <1>8
          <5> QED
            BY <2>5, <5>1, <5>2, <5>3
        <4>2. a <= k - 1 /\ k - 1 <= b /\ a <= k /\ k <= b
          BY <3>3
        <4> QED
          BY <3>3, <4>1, <4>2
      <3> QED
        BY <1>10, <3>3, <3>4, <3>5
    <2>6. x < y \/ y < x
      BY <2>4
    <2> QED
      BY <2>4, <2>5, <2>6
  <1> QED
    BY <1>11, <1>12 DEF q, S

\* Candidates that agree in everything the digest covers agree in the tick, too.
TicksAgree(S) ==
    \A c, d \in S : candidate_digest(c) = candidate_digest(d) => c.captured_tick = d.captured_tick

LEMMA DigestDetermines ==
    ASSUME NEW c \in CandidatePath, NEW d \in CandidatePath,
           candidate_digest(c) = candidate_digest(d), c.captured_tick = d.captured_tick
    PROVE  c = d
  <1> DEFINE F == {"path", "authority_generation", "authority_verdict", "nodes", "links", "hop_count",
                   "latency", "policies", "evidence", "captured_tick", "has_planner_rank",
                   "planner_rank", "has_planner_cost", "planner_cost", "cost_model"}
  <1>1. DOMAIN c = F /\ DOMAIN d = F
    BY DEF CandidatePath
  <1>2. c = [f \in F |-> c[f]] /\ d = [f \in F |-> d[f]]
    BY DEF CandidatePath
  <1> HIDE DEF F
  <1>3. \A f \in F \ {"captured_tick"} : candidate_digest(c)[f] = c[f] /\ candidate_digest(d)[f] = d[f]
    BY <1>1 DEF candidate_digest
  <1>4. c["captured_tick"] = d["captured_tick"]
    OBVIOUS
  <1>5. \A f \in F : c[f] = d[f]
    BY <1>3, <1>4
  <1> QED
    BY <1>2, <1>5

PathOrder(S) == {cd \in S \X S : cd[1].path < cd[2].path}

\* Without a conflict the candidates kept are those there are, by path.
LEMMA KeptIsAscending ==
    ASSUME NEW candidates \in Seq(CandidatePath), ~Conflict(ToSet(candidates)),
           TicksAgree(ToSet(candidates))
    PROVE  Kept(candidates) = Ascending(ToSet(candidates), PathOrder(ToSet(candidates)))
  <1> DEFINE n == Len(candidates)
             S == ToSet(candidates)
             kept == Kept(candidates)
             m == Len(kept)
             less == PathOrder(S)
  <1>1. n \in Nat /\ DOMAIN candidates = 1..n /\ \A i \in 1..n : candidates[i] \in CandidatePath
    OBVIOUS
  <1>2. S = {candidates[i] : i \in 1..n} /\ IsFiniteSet(S)
    BY <1>1, ToSetIsFinite
  <1>3. kept \in Seq(CandidatePath) /\ m \in Nat /\ DOMAIN kept = 1..m
    BY KeptIs
  <1>4. \A i \in 1..m : \E k \in 1..n : kept[i] = candidates[k]
    BY KeptIs
  <1>5. \A k \in 1..n : \E i \in 1..m : kept[i].path = candidates[k].path
    BY KeptIs
  <1>6. \A i, j \in 1..m : i < j => kept[i].path < kept[j].path
    BY KeptIs
  <1> HIDE DEF n, S, kept, m
  <1>7. \A c \in S : c \in CandidatePath /\ c.path \in Nat
    <2>1. \A c \in S : c \in CandidatePath
      BY <1>1, <1>2
    <2>2. \A c \in CandidatePath : c.path \in Nat
      BY DEF CandidatePath
    <2> QED
      BY <2>1, <2>2
  <1>8. \A c, d \in S : c.path = d.path => c = d
    <2> SUFFICES ASSUME NEW c \in S, NEW d \in S, c.path = d.path PROVE c = d
      OBVIOUS
    <2>1. candidate_digest(c) = candidate_digest(d)
      BY DEF Conflict, S
    <2>2. c.captured_tick = d.captured_tick
      BY <2>1 DEF TicksAgree, S
    <2> QED
      BY <1>7, <2>1, <2>2, DigestDetermines
  <1>9. \A c, d \in S : <<c, d>> \in less <=> c.path < d.path
    BY DEF PathOrder
  <1> HIDE DEF less
  <1>10. StrictOrder(S, less)
    <2>1. \A c \in S : <<c, c>> \notin less
      BY <1>7, <1>9
    <2>2. \A c, d, e \in S : <<c, d>> \in less /\ <<d, e>> \in less => <<c, e>> \in less
      <3> SUFFICES ASSUME NEW c \in S, NEW d \in S, NEW e \in S, <<c, d>> \in less, <<d, e>> \in less
                   PROVE  <<c, e>> \in less
        OBVIOUS
      <3> DEFINE x == c.path
                 y == d.path
                 z == e.path
      <3>1. x < y /\ y < z /\ x \in Nat /\ y \in Nat /\ z \in Nat
        BY <1>7, <1>9
      <3> HIDE DEF x, y, z
      <3>2. x < z
        BY <3>1
      <3> QED
        BY <1>9, <3>2 DEF x, z
    <2>3. \A c, d \in S : c # d => <<c, d>> \in less \/ <<d, c>> \in less
      <3> SUFFICES ASSUME NEW c \in S, NEW d \in S, c # d
                   PROVE  <<c, d>> \in less \/ <<d, c>> \in less
        OBVIOUS
      <3> DEFINE x == c.path
                 y == d.path
      <3>1. x # y /\ x \in Nat /\ y \in Nat
        BY <1>7, <1>8
      <3> HIDE DEF x, y
      <3>2. x < y \/ y < x
        BY <3>1
      <3> QED
        BY <1>9, <3>2 DEF x, y
    <2> QED
      BY <2>1, <2>2, <2>3 DEF StrictOrder
  <1>11. \A i \in 1..m : kept[i] \in S
    BY <1>2, <1>4
  <1>12. kept \in [1..m -> S]
    BY <1>3, <1>11
  <1>13. \A c \in S : \E i \in 1..m : kept[i] = c
    <2> SUFFICES ASSUME NEW c \in S PROVE \E i \in 1..m : kept[i] = c
      OBVIOUS
    <2>1. PICK k \in 1..n : c = candidates[k]
      BY <1>2
    <2>2. PICK i \in 1..m : kept[i].path = c.path
      BY <1>5, <2>1
    <2> QED
      BY <1>8, <1>11, <2>2
  <1>14. \A i, j \in 1..m : i < j => <<kept[i], kept[j]>> \in less
    BY <1>6, <1>9, <1>11
  <1>15. kept = Ascending(S, less)
    BY <1>2, <1>3, <1>10, <1>12, <1>13, <1>14, AscendingIsUnique, ZenonT(60)
  <1> QED
    BY <1>15 DEF kept, S, less

\* Two populations of the same candidates, as many, have one answer.
LEMMA BatchOfSet ==
    ASSUME NEW s \in Seq(CandidatePath), NEW t \in Seq(CandidatePath),
           Len(s) = Len(t), ToSet(s) = ToSet(t), TicksAgree(ToSet(s)), NEW set, NEW ctx
    PROVE  evaluate_batch(set, ctx, t) = evaluate_batch(set, ctx, s)
  <1>1. conflicting_duplicates(canonical_population(t)) <=> conflicting_duplicates(canonical_population(s))
    BY ConflictsAre
  <1>2. ASSUME ~conflicting_duplicates(canonical_population(s))
        PROVE  drop_duplicates(canonical_population(t)) = drop_duplicates(canonical_population(s))
    <2>1. ~Conflict(ToSet(s)) /\ ~Conflict(ToSet(t))
      BY <1>2, ConflictsAre
    <2>2. Kept(s) = Ascending(ToSet(s), PathOrder(ToSet(s)))
      BY <2>1, KeptIsAscending
    <2>3. Kept(t) = Ascending(ToSet(t), PathOrder(ToSet(t)))
      BY <2>1, KeptIsAscending
    <2> QED
      BY <2>2, <2>3 DEF Kept
  <1> QED
    BY <1>1, <1>2 DEF evaluate_batch

\* The caller's container order is not observable (evaluate_batch), for every
\* definition, context and population, as long as candidates that differ in
\* nothing else have one captured_tick, which candidate_digest leaves out.
THEOREM ContainerOrderHidden ==
    Spec => [](call # None /\ TicksAgree(ToSet(call.candidates)) => ContainerOrderUnobservable)
  <1>1. CallInv => (call # None /\ TicksAgree(ToSet(call.candidates)) => ContainerOrderUnobservable)
    <2> SUFFICES ASSUME CallInv, call # None, TicksAgree(ToSet(call.candidates)),
                        NEW p \in Rearrangements(DOMAIN call.candidates)
                 PROVE  evaluate_batch(definition.set, call.ctx,
                                       [i \in DOMAIN p |-> call.candidates[p[i]]]) = call.batch
      BY DEF ContainerOrderUnobservable
    <2> DEFINE s == call.candidates
               n == Len(s)
               t == [i \in DOMAIN p |-> s[p[i]]]
    <2>1. /\ s \in Seq(CandidatePath)
          /\ call.batch = evaluate_batch(definition.set, call.ctx, s)
      BY CandidateAssumption DEF CallInv
    <2>2. n \in Nat /\ DOMAIN s = 1..n /\ \A i \in 1..n : s[i] \in CandidatePath
      BY <2>1
    <2>3. p \in [1..n -> 1..n] /\ \A x \in 1..n : \E y \in 1..n : p[y] = x
      BY <2>2 DEF Rearrangements
    <2> HIDE DEF n, s
    <2>4. DOMAIN p = 1..n
      BY <2>3
    <2>5. t = [i \in 1..n |-> s[p[i]]]
      BY <2>4
    <2>6. t \in [1..n -> CandidatePath] /\ \A i \in 1..n : t[i] = s[p[i]]
      BY <2>2, <2>3, <2>5
    <2> HIDE DEF t
    <2>7. t \in Seq(CandidatePath) /\ Len(t) = n
      BY <2>2, <2>6
    <2>8. ToSet(t) = {t[i] : i \in 1..n} /\ ToSet(s) = {s[i] : i \in 1..n}
      BY <2>2, <2>6 DEF ToSet
    <2>9. \A c : c \in ToSet(t) => c \in ToSet(s)
      BY <2>3, <2>6, <2>8
    <2>10. \A c : c \in ToSet(s) => c \in ToSet(t)
      <3> SUFFICES ASSUME NEW i \in 1..n PROVE s[i] \in ToSet(t)
        BY <2>8
      <3>1. PICK k \in 1..n : p[k] = i
        BY <2>3
      <3> QED
        BY <2>6, <2>8, <3>1
    <2>11. ToSet(s) = ToSet(t) /\ Len(s) = Len(t)
      BY <2>7, <2>9, <2>10 DEF n
    <2>12. evaluate_batch(definition.set, call.ctx, t) = evaluate_batch(definition.set, call.ctx, s)
      BY <2>1, <2>7, <2>11, BatchOfSet DEF s
    <2> QED
      BY <2>1, <2>12 DEF s, t
  <1> QED
    BY <1>1, AnswersAreOfTheirCall, PTL
=============================================================================

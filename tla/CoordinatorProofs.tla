-------------------------- MODULE CoordinatorProofs --------------------------
(***************************************************************************)
(* Proofs about Coordinator, for any sets, definitions, candidates,        *)
(* callers, concurrent evaluations and limits, with and without a store    *)
(* and failing writes.                                                     *)
(***************************************************************************)
EXTENDS Coordinator, SequenceTheorems, FiniteSetTheorems, TLAPS

(* The invariant: parts that speak of one state record *)

UniqueIds(st) == \A q, r \in st.results : Id(q) = Id(r) => q = r

KnownResults(st) == \A r \in st.results : Known(st, r.set)

KnownDefined(st) == \A s \in SetId : Known(st, s) => st.sets[s].definition \in Definition

OneCurrent(st) ==
    \A q, r \in st.results :
        /\ q.state = "Current" /\ r.state = "Current"
        /\ q.set = r.set /\ q.path = r.path
        => q = r

\* The part of Sound that needs no retained candidate, and the other one.
MatchesSet(st, r) ==
    LET set == st.sets[r.set]
    IN /\ set.generation = r.setGeneration
       /\ set.state = "Active"
       /\ Canonical(set)
       /\ r.consulted = Consulted(set.definition)

MatchesEvidence(st, r) == \A f \in r.consulted : r.evidence[f] = st.evidence.gen[f]

AdmissibleMatches(st) ==
    \A r \in CurrentAdmissible(st) :
        MatchesSet(st, r) /\ (Retained(st, r) => MatchesEvidence(st, r))

WatermarksCover(st) ==
    \A f \in Family :
        st.evidence.gen[f] > InitialEvidence.gen[f] => st.families[f] >= st.evidence.gen[f]

\* Sets in use are bounded, populations are of different sets in use, and with
\* room for a population of each set no current result loses its candidate.
KnownSets(st) == {s \in SetId : Known(st, s)}

KnownBounded(st) == IsFiniteSet(KnownSets(st)) /\ Cardinality(KnownSets(st)) <= MaxSets

OnePopulation(st) ==
    /\ \A i \in DOMAIN st.populations : Known(st, st.populations[i].set)
    /\ \A i, j \in DOMAIN st.populations : st.populations[i].set = st.populations[j].set => i = j

NothingEvicted(st) ==
    MaxSets <= MaxPopulations => \A r \in st.results : r.state = "Current" => Retained(st, r)

StateInv(st) ==
    /\ IsFiniteSet(st.results)
    /\ UniqueIds(st)
    /\ KnownResults(st)
    /\ KnownDefined(st)
    /\ OneCurrent(st)
    /\ AdmissibleMatches(st)
    /\ WatermarksCover(st)
    /\ KnownBounded(st)
    /\ OnePopulation(st)
    /\ NothingEvicted(st)

(* The invariant: memory and store, calls in progress *)

SameAnswers(st, tt) ==
    /\ st.sets = tt.sets
    /\ st.results = tt.results
    /\ st.populations = tt.populations
    /\ st.evidence = tt.evidence

WatermarksGrow(st, tt) ==
    /\ \A f \in Family : st.families[f] <= tt.families[f]
    /\ \A k \in KeyInput : st.keys[k] <= tt.keys[k]

\* Unlike MemoryMatchesStore this also speaks of a coordinator that is down,
\* whose last memory is compared with what the next one opens.
StoreInv ==
    /\ ~up => Durable
    /\ Durable => SameAnswers(disk.state, mem)
    /\ WatermarksGrow(disk.state, mem)
    /\ WatermarksCover(disk.state)

\* A call that evaluates was begun in this incarnation, on a published set.
CallsInv ==
    \A t \in Thread : thread[t].phase = "evaluating" =>
        /\ up
        /\ thread[t].epoch = epoch
        /\ thread[t].snapshot.generation # 0
        /\ thread[t].snapshot.definition \in Definition

IInv ==
    /\ TypeOK
    /\ StateInv(mem)
    /\ StoreInv
    /\ CallsInv
    /\ CurrentProvenInThisEpoch

-----------------------------------------------------------------------------
(* Sets of results *)

\* The fields of a result are typed, and changing its state to another one
\* leaves a result with the same other fields.
LEMMA ResultFields ==
    ASSUME NEW r \in Result, NEW x \in ResultState
    PROVE  /\ r.set \in SetId /\ r.path \in Path /\ r.consulted \in SUBSET Family
           /\ r.evidence \in Generations /\ r.state \in ResultState
           /\ [r EXCEPT !.state = x] \in Result
           /\ [r EXCEPT !.state = x].state = x
           /\ Id([r EXCEPT !.state = x]) = Id(r)
           /\ [r EXCEPT !.state = x].set = r.set
           /\ r.state = x => [r EXCEPT !.state = x] = r
  BY DEF Result, Id

\* Any set that a function of a finite set's elements yields is finite.
LEMMA ImageIsFinite ==
    ASSUME NEW S, IsFiniteSet(S), NEW f, DOMAIN f = S
    PROVE  IsFiniteSet({f[x] : x \in S})
  <1> DEFINE T == {f[x] : x \in S}
             g == [x \in S |-> f[x]]
  <1>1. g \in Surjection(S, T)
    BY DEF Surjection
  <1> QED
    BY <1>1, FS_Surjection

\* Reducing results adds none, keeps their identities, and leaves only
\* results current that were current and not among the targets.
LEMMA DemotedProperties ==
    ASSUME NEW results \in SUBSET Result, NEW targets
    PROVE  LET new == Demoted(results, targets)
           IN /\ new \in SUBSET Result
              /\ IsFiniteSet(results) => IsFiniteSet(new)
              /\ \A q \in new : \E r \in results :
                    /\ Id(q) = Id(r) /\ q.set = r.set
                    /\ q = r \/ (r \in targets /\ r.state = "Current")
              /\ \A q \in new : q.state = "Current" => q \in results /\ q \notin targets
              /\ (\A q, r \in results : Id(q) = Id(r) => q = r)
                    => (\A q, r \in new : Id(q) = Id(r) => q = r)
  <1> DEFINE new == Demoted(results, targets)
             Low(r) == IF r \in targets /\ r.state = "Current"
                       THEN [r EXCEPT !.state = "RevalidationRequired"] ELSE r
  <1>0. new = {Low(r) : r \in results}
    BY DEF Demoted
  <1>1. \A r \in results : /\ Low(r) \in Result
                           /\ Id(Low(r)) = Id(r)
                           /\ Low(r).set = r.set
                           /\ Low(r) = r \/ (r \in targets /\ r.state = "Current")
                           /\ Low(r).state = "Current" => Low(r) = r /\ r \notin targets
    BY ResultFields DEF ResultState
  <1> HIDE DEF Low, new
  <1>2. new \in SUBSET Result
    BY <1>0, <1>1
  <1>3. IsFiniteSet(results) => IsFiniteSet(new)
    <2> DEFINE g == [r \in results |-> Low(r)]
    <2>1. new = {g[r] : r \in results}
      BY <1>0
    <2> HIDE DEF g
    <2>2. DOMAIN g = results
      BY DEF g
    <2> QED
      BY <2>1, <2>2, ImageIsFinite
  <1>4. \A q \in new : \E r \in results :
            /\ Id(q) = Id(r) /\ q.set = r.set
            /\ q = r \/ (r \in targets /\ r.state = "Current")
    BY <1>0, <1>1
  <1>5. \A q \in new : q.state = "Current" => q \in results /\ q \notin targets
    BY <1>0, <1>1
  <1>6. ASSUME \A q, r \in results : Id(q) = Id(r) => q = r,
               NEW q \in new, NEW r \in new, Id(q) = Id(r)
        PROVE  q = r
    <2>1. PICK x \in results : q = Low(x)
      BY <1>0
    <2>2. PICK y \in results : r = Low(y)
      BY <1>0
    <2> QED
      BY <1>1, <1>6, <2>1, <2>2
  <1> QED
    BY <1>2, <1>3, <1>4, <1>5, <1>6 DEF new

\* The part of it that most steps use.
LEMMA DemotedCurrent ==
    ASSUME NEW results \in SUBSET Result, NEW targets
    PROVE  /\ Demoted(results, targets) \in SUBSET Result
           /\ \A q \in Demoted(results, targets) :
                 q.state = "Current" => q \in results /\ q \notin targets
  BY DemotedProperties

\* Recovery keeps every result and its identity; none is current.
LEMMA RecoveredProperties ==
    ASSUME NEW results \in SUBSET Result
    PROVE  LET new == Recovered(results)
           IN /\ new \in SUBSET Result
              /\ IsFiniteSet(results) => IsFiniteSet(new)
              /\ \A q \in new : q.state # "Current"
              /\ \A q \in new : \E r \in results : q.set = r.set
              /\ (\A q, r \in results : Id(q) = Id(r) => q = r)
                    => (\A q, r \in new : Id(q) = Id(r) => q = r)
  <1> DEFINE new == Recovered(results)
             Unproven(r) == [r EXCEPT !.state = "RecoveredUnproven"]
  <1>0. new = {Unproven(r) : r \in results}
    BY DEF Recovered
  <1>1. \A r \in results : /\ Unproven(r) \in Result
                           /\ Id(Unproven(r)) = Id(r)
                           /\ Unproven(r).set = r.set
                           /\ Unproven(r).state = "RecoveredUnproven"
    BY ResultFields DEF ResultState
  <1> HIDE DEF Unproven, new
  <1>2. /\ new \in SUBSET Result
        /\ \A q \in new : q.state # "Current"
        /\ \A q \in new : \E r \in results : q.set = r.set
    BY <1>0, <1>1
  <1>3. IsFiniteSet(results) => IsFiniteSet(new)
    <2> DEFINE g == [r \in results |-> Unproven(r)]
    <2>1. new = {g[r] : r \in results}
      BY <1>0
    <2> HIDE DEF g
    <2>2. DOMAIN g = results
      BY DEF g
    <2> QED
      BY <2>1, <2>2, ImageIsFinite
  <1>4. ASSUME \A q, r \in results : Id(q) = Id(r) => q = r,
               NEW q \in new, NEW r \in new, Id(q) = Id(r)
        PROVE  q = r
    <2>1. PICK x \in results : q = Unproven(x)
      BY <1>0
    <2>2. PICK y \in results : r = Unproven(y)
      BY <1>0
    <2> QED
      BY <1>1, <1>4, <2>1, <2>2
  <1> QED
    BY <1>2, <1>3, <1>4 DEF new

\* The results of a commit are the new ones and the old ones with other
\* identities; of the set's results only new ones are current.
LEMMA SupersedingProperties ==
    ASSUME NEW results \in SUBSET Result, NEW new \in SUBSET Result, NEW s \in SetId,
           \A n \in new : n.set = s
    PROVE  LET all == Superseding(results, new, s)
           IN /\ all \in SUBSET Result
              /\ new \subseteq all
              /\ IsFiniteSet(results) /\ IsFiniteSet(new) => IsFiniteSet(all)
              /\ \A q \in all : q \in new \/ \E r \in results : q.set = r.set
              /\ \A q \in all : q.state = "Current" =>
                    q \in new \/ (q \in results /\ q.set # s)
              /\ \A r \in results : r.set # s => r \in all
              /\ /\ \A q, r \in results : Id(q) = Id(r) => q = r
                 /\ \A q, r \in new : Id(q) = Id(r) => q = r
                 => \A q, r \in all : Id(q) = Id(r) => q = r
  <1> DEFINE kept == {q \in results : \A n \in new : Id(n) # Id(q)}
             Low(r) == IF r.set = s THEN [r EXCEPT !.state = "Superseded"] ELSE r
             low == {Low(r) : r \in kept}
             all == Superseding(results, new, s)
  <1>0. all = low \cup new
    BY DEF Superseding
  <1>1. \A r \in kept : /\ Low(r) \in Result
                        /\ Id(Low(r)) = Id(r)
                        /\ Low(r).set = r.set
                        /\ Low(r).state = "Current" => Low(r) = r /\ r.set # s
                        /\ r.set # s => Low(r) = r
    BY ResultFields DEF ResultState
  <1>2. kept \in SUBSET results /\ \A r \in kept, n \in new : Id(n) # Id(r)
    OBVIOUS
  <1>3. \A r \in results : r.set # s => r \in kept
    BY DEF Id
  <1>4. low = {Low(r) : r \in kept}
    OBVIOUS
  <1> HIDE DEF Low, kept, low, all
  <1>5. /\ all \in SUBSET Result
        /\ new \subseteq all
        /\ \A q \in all : q \in new \/ \E r \in results : q.set = r.set
        /\ \A q \in all : q.state = "Current" => q \in new \/ (q \in results /\ q.set # s)
        /\ \A r \in results : r.set # s => r \in all
    BY <1>0, <1>1, <1>2, <1>3, <1>4
  <1>6. ASSUME IsFiniteSet(results), IsFiniteSet(new)
        PROVE  IsFiniteSet(all)
    <2> DEFINE g == [r \in kept |-> Low(r)]
    <2>1. low = {g[r] : r \in kept}
      BY <1>4
    <2> HIDE DEF g
    <2>2. DOMAIN g = kept
      BY DEF g
    <2>3. IsFiniteSet(kept)
      BY <1>2, <1>6, FS_Subset
    <2>4. IsFiniteSet(low)
      BY <2>1, <2>2, <2>3, ImageIsFinite
    <2> QED
      BY <1>0, <1>6, <2>4, FS_Union
  <1>7. ASSUME \A q, r \in results : Id(q) = Id(r) => q = r,
               \A q, r \in new : Id(q) = Id(r) => q = r,
               NEW q \in all, NEW r \in all, Id(q) = Id(r)
        PROVE  q = r
    <2>1. CASE q \in new /\ r \in new
      BY <1>7, <2>1
    <2>2. CASE q \in low /\ r \in low
      <3>1. PICK x \in kept : q = Low(x)
        BY <1>4, <2>2
      <3>2. PICK y \in kept : r = Low(y)
        BY <1>4, <2>2
      <3> QED
        BY <1>1, <1>2, <1>7, <3>1, <3>2
    <2>3. CASE q \in new /\ r \in low
      BY <1>1, <1>2, <1>4, <1>7, <2>3
    <2>4. CASE q \in low /\ r \in new
      BY <1>1, <1>2, <1>4, <1>7, <2>4
    <2> QED
      BY <1>0, <2>1, <2>2, <2>3, <2>4
  <1> QED
    BY <1>5, <1>6, <1>7 DEF all

\* Trimming takes results that are not current, and takes enough of them, or
\* all there are.
LEMMA TrimProperties ==
    ASSUME NEW results, IsFiniteSet(results), NEW victims \in TrimVictims(results)
    PROVE  /\ \A r \in victims : r \in results /\ r.state # "Current"
           /\ \/ Cardinality(results \ victims) <= MaxEvaluations
              \/ \A r \in results \ victims : r.state = "Current"
  <1> DEFINE old == {r \in results : r.state # "Current"}
             excess == IF Cardinality(results) > MaxEvaluations
                       THEN Cardinality(results) - MaxEvaluations ELSE 0
  <1>1. /\ victims \in SUBSET old
        /\ Cardinality(victims) = IF Cardinality(old) < excess THEN Cardinality(old) ELSE excess
    BY DEF TrimVictims
  <1>2. IsFiniteSet(old) /\ Cardinality(old) \in Nat
    BY FS_Subset, FS_CardinalityType
  <1>3. CASE Cardinality(old) < excess
    <2>1. victims = old
      BY <1>1, <1>2, <1>3, FS_Subset
    <2> QED
      BY <2>1
  <1>4. CASE ~(Cardinality(old) < excess)
    <2>1. results \cap victims = victims
      BY <1>1
    <2>2. Cardinality(results \ victims) = Cardinality(results) - Cardinality(victims)
      BY <2>1, FS_Difference
    <2>3. Cardinality(results) \in Nat /\ MaxEvaluations \in Nat
      BY FS_CardinalityType, CoordinatorLimits
    <2>4. Cardinality(victims) = excess
      BY <1>1, <1>4
    <2>5. Cardinality(results \ victims) <= MaxEvaluations
      BY <2>2, <2>3, <2>4
    <2> QED
      BY <1>1, <2>5
  <1> QED
    BY <1>1, <1>3, <1>4

-----------------------------------------------------------------------------
(* State records *)

\* What a successful or failed operation may make of a state record.
Follows(st, tt) ==
    /\ tt \in State
    /\ StateInv(tt)
    /\ WatermarksGrow(st, tt)
    /\ \A f \in Family : st.evidence.gen[f] <= tt.evidence.gen[f]
    /\ \A s \in SetId : /\ st.sets[s].generation <= tt.sets[s].generation
                        /\ st.sets[s].state = "Retired" =>
                              \/ tt.sets[s].state = "Retired"
                              \/ tt.sets[s].generation > st.sets[s].generation
    /\ \A r \in tt.results : r.state = "Current" => r.epoch = epoch

\* The fields of a state record are typed.
LEMMA StateFields ==
    ASSUME NEW st \in State
    PROVE  /\ st.evidence \in Evidence /\ st.evidence.gen \in Generations /\ st.evidence.age \in Nat
           /\ \A f \in Family : st.evidence.gen[f] \in Nat /\ st.families[f] \in Nat
           /\ \A k \in KeyInput : st.keys[k] \in Nat
           /\ st.families \in Generations
           /\ st.keys \in [KeyInput -> Nat]
           /\ st.sets \in [SetId -> SetRecord]
           /\ \A s \in SetId : /\ st.sets[s] \in SetRecord
                               /\ st.sets[s].generation \in Nat
                               /\ st.sets[s].state \in SetState
                               /\ st.sets[s].carried \in Nat
           /\ st.results \in SUBSET Result
           /\ st.populations \in Seq(Population)
           /\ st.last \in Nat
  BY DEF State, Evidence, Generations, SetRecord

\* A state record follows itself.
LEMMA FollowsItself ==
    ASSUME IInv, up
    PROVE  Follows(mem, mem)
  <1>1. mem \in State /\ StateInv(mem)
    BY DEF IInv, TypeOK
  <1>2. \A r \in mem.results : r.state = "Current" => r.epoch = epoch
    BY DEF IInv, CurrentProvenInThisEpoch
  <1>3. /\ WatermarksGrow(mem, mem)
        /\ \A f \in Family : mem.evidence.gen[f] <= mem.evidence.gen[f]
        /\ \A s \in SetId : mem.sets[s].generation <= mem.sets[s].generation
    BY <1>1, StateFields DEF WatermarksGrow
  <1> QED
    BY <1>1, <1>2, <1>3 DEF Follows

\* Reducing results, and changing only sets that keep no admissible current
\* result or keep them matching, preserves what the invariant says of results.
LEMMA DemotionKeeps ==
    ASSUME NEW st \in State, StateInv(st), NEW tt \in State, NEW targets,
           tt.results = Demoted(st.results, targets),
           tt.populations = st.populations,
           \A s \in SetId : Known(st, s) => Known(tt, s),
           KnownDefined(tt), KnownBounded(tt),
           \A r \in tt.results : r.state = "Current" /\ r.outcome = "Admissible" =>
              /\ MatchesSet(st, r) => MatchesSet(tt, r)
              /\ Retained(st, r) /\ MatchesEvidence(st, r) => MatchesEvidence(tt, r),
           WatermarksCover(tt)
    PROVE  StateInv(tt)
  <1>1. /\ tt.results \in SUBSET Result
        /\ IsFiniteSet(tt.results)
        /\ UniqueIds(tt)
        /\ \A q \in tt.results : \E r \in st.results : q.set = r.set
        /\ \A q \in tt.results : q.state = "Current" => q \in st.results
    BY DemotedProperties, StateFields DEF StateInv, UniqueIds
  <1>2. KnownResults(tt)
    <2>1. \A r \in Result : r.set \in SetId
      BY DEF Result
    <2>2. st.results \in SUBSET Result
      BY StateFields
    <2> QED
      BY <1>1, <2>1, <2>2 DEF StateInv, KnownResults, Known
  <1>3. OneCurrent(tt)
    BY <1>1 DEF StateInv, OneCurrent
  <1>4. AdmissibleMatches(tt)
    <2> SUFFICES ASSUME NEW r \in tt.results, r.state = "Current", r.outcome = "Admissible"
                 PROVE  MatchesSet(tt, r) /\ (Retained(tt, r) => MatchesEvidence(tt, r))
      BY DEF AdmissibleMatches, CurrentAdmissible
    <2>1. r \in CurrentAdmissible(st)
      BY <1>1 DEF CurrentAdmissible
    <2>2. Retained(tt, r) => Retained(st, r)
      BY DEF Retained, RetainedIn
    <2> QED
      BY <2>1, <2>2 DEF StateInv, AdmissibleMatches
  <1>5. OnePopulation(tt)
    <2>1. \A i \in DOMAIN st.populations : st.populations[i].set \in SetId
      <3>1. st.populations \in Seq(Population)
        BY StateFields
      <3>2. \A i \in DOMAIN st.populations : st.populations[i] \in Population
        BY <3>1, LenProperties, ElementOfSeq
      <3> QED
        BY <3>2 DEF Population
    <2> QED
      BY <2>1 DEF StateInv, OnePopulation
  <1>6. NothingEvicted(tt)
    <2>1. \A r \in tt.results : Retained(st, r) => Retained(tt, r)
      BY DEF Retained, RetainedIn
    <2> QED
      BY <1>1, <2>1 DEF StateInv, NothingEvicted
  <1> QED
    BY <1>1, <1>2, <1>3, <1>4, <1>5, <1>6 DEF StateInv

\* What a step needs of the invariant's state record.
LEMMA MemoryFacts ==
    ASSUME IInv, up
    PROVE  /\ mem \in State /\ StateInv(mem) /\ WatermarksCover(mem)
           /\ mem.results \in SUBSET Result
           /\ \A s \in SetId : mem.sets[s] \in SetRecord
           /\ \A r \in mem.results : r.state = "Current" => r.epoch = epoch
  BY StateFields DEF IInv, TypeOK, StateInv, CurrentProvenInThisEpoch

\* A reduction that changes nothing but sets follows when the sets advance and
\* the current results of a changed set are reduced or still match.
LEMMA SetChangeFollows ==
    ASSUME IInv, up, NEW s \in SetId, NEW set \in SetRecord, NEW targets, NEW tt,
           tt = [mem EXCEPT !.sets[s] = set, !.results = Demoted(@, targets)],
           mem.sets[s].generation <= set.generation,
           mem.sets[s].state = "Retired" =>
              set.state = "Retired" \/ set.generation > mem.sets[s].generation,
           set.generation # 0 => set.definition \in Definition,
           set.generation # 0 /\ ~Known(mem, s) => Cardinality(KnownSets(mem)) < MaxSets,
           \A r \in tt.results : r.state = "Current" /\ r.set = s /\ MatchesSet(mem, r) =>
              MatchesSet(tt, r)
    PROVE  Follows(mem, tt)
  <1>1. /\ mem \in State /\ StateInv(mem)
        /\ mem.results \in SUBSET Result
        /\ mem.sets \in [SetId -> SetRecord]
        /\ \A r \in mem.results : r.state = "Current" => r.epoch = epoch
    BY MemoryFacts, StateFields
  <1>2. Demoted(mem.results, targets) \in SUBSET Result
    BY <1>1, DemotedCurrent
  <1>3. /\ tt \in State
        /\ tt.sets = [mem.sets EXCEPT ![s] = set]
        /\ tt.results = Demoted(mem.results, targets)
        /\ tt.populations = mem.populations /\ tt.evidence = mem.evidence
        /\ tt.families = mem.families /\ tt.keys = mem.keys
    BY <1>1, <1>2 DEF State
  <1>4. /\ tt.sets[s] = set
        /\ \A x \in SetId : x # s => tt.sets[x] = mem.sets[x]
    BY <1>1, <1>3
  <1>5. /\ \A x \in SetId : Known(mem, x) => Known(tt, x)
        /\ KnownDefined(tt)
    BY <1>1, <1>4 DEF Known, SetRecord, KnownDefined, StateInv
  <1>6. \A r \in tt.results : r.state = "Current" => r \in mem.results /\ r.set \in SetId
    <2>1. \A r \in mem.results : r.set \in SetId
      BY <1>1 DEF Result
    <2> QED
      BY <1>1, <1>3, <2>1, DemotedCurrent
  <1>7. ASSUME NEW r \in tt.results, r.state = "Current"
        PROVE  /\ MatchesSet(mem, r) => MatchesSet(tt, r)
               /\ MatchesEvidence(mem, r) => MatchesEvidence(tt, r)
    <2>1. CASE r.set = s
      BY <1>3, <1>7, <2>1 DEF MatchesEvidence
    <2>2. CASE r.set # s
      <3>1. tt.sets[r.set] = mem.sets[r.set]
        BY <1>4, <1>6, <1>7, <2>2
      <3> QED
        BY <1>3, <3>1 DEF MatchesSet, MatchesEvidence
    <2> QED
      BY <2>1, <2>2
  <1>8. WatermarksCover(tt)
    BY <1>3, MemoryFacts DEF WatermarksCover
  <1>9. StateInv(tt)
    <2>1. KnownBounded(tt)
      <3>1. KnownBounded(mem)
        BY <1>1 DEF StateInv
      <3>2. /\ Cardinality(KnownSets(mem)) \in Nat /\ MaxSets \in Nat
            /\ IsFiniteSet(KnownSets(mem) \cup {s})
            /\ s \notin KnownSets(mem) =>
                  Cardinality(KnownSets(mem) \cup {s}) = Cardinality(KnownSets(mem)) + 1
        BY <3>1, FS_CardinalityType, FS_AddElement, CoordinatorLimits DEF KnownBounded
      <3>3. CASE Known(mem, s) \/ set.generation = 0
        <4>1. KnownSets(tt) \in SUBSET KnownSets(mem)
          BY <1>4, <3>3 DEF KnownSets, Known
        <4> QED
          BY <3>1, <3>2, <4>1, FS_Subset, FS_CardinalityType DEF KnownBounded
      <3>4. CASE ~Known(mem, s) /\ set.generation # 0
        <4>1. KnownSets(tt) \in SUBSET (KnownSets(mem) \cup {s}) /\ s \notin KnownSets(mem)
          BY <1>4, <3>4 DEF KnownSets, Known
        <4>2. Cardinality(KnownSets(mem) \cup {s}) <= MaxSets
          BY <3>2, <3>4, <4>1
        <4> QED
          BY <3>2, <4>1, <4>2, FS_Subset, FS_CardinalityType DEF KnownBounded
      <3> QED
        BY <3>3, <3>4
    <2> QED
      BY <1>1, <1>3, <1>5, <1>7, <1>8, <2>1, DemotionKeeps
  <1>10. /\ WatermarksGrow(mem, tt)
         /\ \A f \in Family : mem.evidence.gen[f] <= tt.evidence.gen[f]
    BY <1>1, <1>3, StateFields DEF WatermarksGrow
  <1>11. \A x \in SetId : /\ mem.sets[x].generation <= tt.sets[x].generation
                          /\ mem.sets[x].state = "Retired" =>
                                \/ tt.sets[x].state = "Retired"
                                \/ tt.sets[x].generation > mem.sets[x].generation
    BY <1>1, <1>4, StateFields
  <1> QED
    BY <1>1, <1>3, <1>6, <1>9, <1>10, <1>11 DEF Follows

\* Publishing a definition.
LEMMA PublicationFollows ==
    ASSUME IInv, up, NEW s \in SetId, NEW d \in Definition, NEW carried \in Nat,
           Known(mem, s) \/ Cardinality(KnownSets(mem)) < MaxSets
    PROVE  Follows(mem, [mem EXCEPT !.sets[s] = Published(s, d, carried),
                                    !.results = Demoted(@, ResultsOf(mem, s))])
  <1> DEFINE set == Published(s, d, carried)
             tt == [mem EXCEPT !.sets[s] = set, !.results = Demoted(@, ResultsOf(mem, s))]
  <1>1. mem.sets[s] \in SetRecord /\ mem.results \in SUBSET Result /\ mem \in State
    BY MemoryFacts
  <1>2. /\ set \in SetRecord
        /\ mem.sets[s].generation <= set.generation
        /\ mem.sets[s].state = "Retired" =>
              set.state = "Retired" \/ set.generation > mem.sets[s].generation
        /\ set.definition \in Definition
    <2>1. Known(mem, s) => mem.sets[s].definition \in Definition
      BY MemoryFacts DEF StateInv, KnownDefined
    <2> QED
      BY <1>1, <2>1 DEF Published, Known, SetRecord, SetState
  <1>3. tt.results = Demoted(mem.results, ResultsOf(mem, s))
    BY <1>1 DEF State
  <1> HIDE DEF set, tt
  <1>4. \A r \in tt.results : r.state = "Current" => r \in mem.results /\ r \notin ResultsOf(mem, s)
    BY <1>1, <1>3, DemotedCurrent
  <1>5. \A r \in tt.results : r.state = "Current" => r.set # s
    BY <1>4 DEF ResultsOf
  <1>6. Follows(mem, tt)
    BY <1>2, <1>5, SetChangeFollows DEF tt
  <1> QED
    BY <1>6 DEF tt, set

\* Applying an accepted lifecycle event.  Nothing leads out of "Retired".
LEMMA LifecycleFollows ==
    ASSUME IInv, up, NEW s \in SetId, NEW event \in LifecycleEvent,
           Accepted(mem.sets[s].state, event),
           NEW state, state = NextState(mem.sets[s].state, event)
    PROVE  Follows(mem, [mem EXCEPT !.sets[s].state = state,
                                    !.results = IF state = "Active"
                                                THEN @ ELSE Demoted(@, ResultsOf(mem, s))])
  <1> DEFINE set == [mem.sets[s] EXCEPT !.state = state]
             targets == IF state = "Active" THEN {} ELSE ResultsOf(mem, s)
             tt == [mem EXCEPT !.sets[s] = set, !.results = Demoted(@, targets)]
             uu == [mem EXCEPT !.sets[s].state = state,
                               !.results = IF state = "Active"
                                           THEN @ ELSE Demoted(@, ResultsOf(mem, s))]
  <1>1. mem.sets[s] \in SetRecord /\ mem.results \in SUBSET Result /\ mem \in State
    BY MemoryFacts
  <1>2. state \in SetState /\ mem.sets[s].state # "Retired"
    <2>1. PICK t \in Transition : t[1] = mem.sets[s].state /\ t[2] = event
      BY DEF Accepted
    <2>2. \A u \in Transition : u[3] \in SetState /\ u[1] # "Retired"
      BY DEF Transition, SetState
    <2>3. \E u \in Transition : u[1] = mem.sets[s].state /\ u[2] = event /\ state = u[3]
      BY <2>1 DEF NextState
    <2> QED
      BY <2>1, <2>2, <2>3
  <1>3. /\ set \in SetRecord
        /\ set.generation = mem.sets[s].generation /\ set.definition = mem.sets[s].definition
        /\ set.carried = mem.sets[s].carried /\ set.state = state
    BY <1>1, <1>2 DEF SetRecord
  <1>4. Demoted(mem.results, {}) = mem.results
    BY DEF Demoted
  <1>5. uu = tt
    BY <1>1, <1>4 DEF State
  <1>6. /\ tt.results = Demoted(mem.results, targets)
        /\ tt.sets[s] = set
    BY <1>1 DEF State
  <1>7. ASSUME NEW r \in tt.results, r.state = "Current", r.set = s, MatchesSet(mem, r)
        PROVE  MatchesSet(tt, r)
    <2>1. r \notin targets /\ r \in mem.results
      BY <1>1, <1>6, <1>7, DemotedCurrent
    <2>2. state = "Active"
      BY <1>7, <2>1 DEF ResultsOf
    <2> QED
      BY <1>3, <1>6, <1>7, <2>2 DEF MatchesSet, Canonical
  <1>8. /\ mem.sets[s].generation <= set.generation
        /\ set.generation # 0 => set.definition \in Definition
        /\ set.generation # 0 => Known(mem, s)
    BY <1>1, <1>3, MemoryFacts DEF SetRecord, StateInv, KnownDefined, Known
  <1> HIDE DEF set, targets
  <1>9. Follows(mem, tt)
    BY <1>2, <1>3, <1>7, <1>8, SetChangeFollows
  <1> QED
    BY <1>5, <1>9

-----------------------------------------------------------------------------
(* Evidence and the reverse index *)

\* An evaluation binds the family-wide key of each family it consulted, which
\* an advance of the family reaches.
LEMMA ConsultedIsBound ==
    ASSUME NEW f \in Family, NEW consulted, f \in consulted,
           NEW set, NEW definition, NEW candidate
    PROVE  /\ Key(f, 0) \in DependencyKeys(consulted, set, definition, candidate)
           /\ Key(f, 0).kind \in FamilyKinds(f)
  <1>1. Key(f, 0) \in FamilyKeys(f, definition, candidate)
    BY DEF Family, FamilyKeys
  <1>2. Key(f, 0).kind \in FamilyKinds(f)
    BY DEF Family, FamilyKinds, Key
  <1> QED
    BY <1>1, <1>2 DEF DependencyKeys

\* A key that an advance of family f reaches was bound because f was consulted,
\* or it is a node or link bound for capabilities or failure domains.
LEMMA ReachedIsConsulted ==
    ASSUME NEW f \in Family, NEW consulted \in SUBSET Family,
           NEW set, NEW definition, NEW candidate,
           NEW k \in DependencyKeys(consulted, set, definition, candidate),
           k.kind \in FamilyKinds(f)
    PROVE  \/ f \in consulted
           \/ f = "Topology" /\ {"Capability", "FailureDomain"} \cap consulted # {}
  <1>1. k.kind \notin {"ConstraintSet", "Path"}
    BY DEF FamilyKinds, Family
  <1>2. PICK g \in consulted : k \in FamilyKeys(g, definition, candidate)
    BY <1>1 DEF DependencyKeys, Key
  <1>3. \A kind, values : \A x \in KeysOf(kind, values) : x.kind = kind
    BY DEF KeysOf, Key
  <1>4. \A x \in EntityKeys(candidate) : x.kind \in {"Node", "Link"}
    BY <1>3 DEF EntityKeys
  <1>5. g \in Family
    BY <1>2
  <1>6. CASE g = "Topology"
    <2>1. k.kind \in {"Topology", "Node", "Link", "LocalityDomain"}
      BY <1>2, <1>3, <1>4, <1>6 DEF FamilyKeys, Key
    <2> QED
      BY <1>2, <1>6, <2>1 DEF FamilyKinds, Family
  <1>7. CASE g = "Capability"
    <2>1. k.kind \in {"Capability", "Node", "Link"}
      BY <1>2, <1>3, <1>4, <1>7 DEF FamilyKeys, Key
    <2> QED
      BY <1>2, <1>7, <2>1 DEF FamilyKinds, Family
  <1>8. CASE g = "FailureDomain"
    <2>1. k.kind \in {"FailureDomain", "IsolationClass", "Node", "Link"}
      BY <1>2, <1>3, <1>4, <1>8 DEF FamilyKeys, Key
    <2> QED
      BY <1>2, <1>8, <2>1 DEF FamilyKinds, Family
  <1>9. CASE g \in {"LinkState", "Policy", "Planner", "PathAuthority"}
    <2>1. k.kind = g
      BY <1>2, <1>3, <1>9 DEF FamilyKeys, Key
    <2> QED
      BY <1>2, <1>9, <2>1 DEF FamilyKinds, Family
  <1> QED
    BY <1>5, <1>6, <1>7, <1>8, <1>9 DEF Family

\* A retained current result is reached by the advance of any family it consulted.
LEMMA ConsultedIsDependent ==
    ASSUME NEW st, NEW r \in st.results, r.state = "Current", Known(st, r.set),
           Retained(st, r), NEW f \in Family, f \in r.consulted
    PROVE  r \in DependentsOfFamily(st, f)
  <1>1. PICK c \in RetainedIn(st, r.set, r.path) : TRUE
    BY DEF Retained
  <1> DEFINE definition == Content[st.sets[r.set].definition]
  <1>2. /\ Key(f, 0) \in DependencyKeys(r.consulted, r.set, definition, Fact[c])
        /\ Key(f, 0).kind \in FamilyKinds(f)
    BY ConsultedIsBound
  <1>3. Key(f, 0) \in BoundKeys(st, r)
    BY <1>1, <1>2 DEF BoundKeys
  <1> QED
    BY <1>2, <1>3 DEF DependentsOfFamily

\* Only results that consulted the family, or bound nodes or links, depend on it.
LEMMA DependentConsulted ==
    ASSUME NEW st, NEW f \in Family, NEW r \in DependentsOfFamily(st, f),
           r.consulted \in SUBSET Family
    PROVE  \/ f \in r.consulted
           \/ f = "Topology" /\ {"Capability", "FailureDomain"} \cap r.consulted # {}
  <1>1. PICK k \in BoundKeys(st, r) : k.kind \in FamilyKinds(f)
    BY DEF DependentsOfFamily
  <1>2. PICK c \in RetainedIn(st, r.set, r.path) :
            k \in DependencyKeys(r.consulted, r.set, Content[st.sets[r.set].definition], Fact[c])
    BY <1>1 DEF BoundKeys
  <1> QED
    BY <1>1, <1>2, ReachedIsConsulted

\* The loop over the families reaches each of them.
LEMMA FamilyOrderCovers ==
    \A f \in Family : \E i \in DOMAIN FamilyOrder : FamilyOrder[i] = f
  <1>1. /\ FamilyOrder[1] = "Topology" /\ FamilyOrder[2] = "LinkState"
        /\ FamilyOrder[3] = "Capability" /\ FamilyOrder[4] = "FailureDomain"
        /\ FamilyOrder[5] = "Policy" /\ FamilyOrder[6] = "Planner"
        /\ FamilyOrder[7] = "PathAuthority"
        /\ DOMAIN FamilyOrder = 1..7
    BY DEF FamilyOrder
  <1> QED
    BY <1>1 DEF Family

\* Watermarks only rise, and an advance that nothing blocks moves them all.
LEMMA WatermarkedProperties ==
    ASSUME mem \in State, NEW req \in Evidence
    PROVE  /\ Watermarked(req) \in Generations
           /\ \A f \in Family : mem.families[f] <= Watermarked(req)[f]
           /\ BlockedBy(req) = {} /\ ~Regresses(req) =>
                 \A f \in Family : \/ req.gen[f] = mem.evidence.gen[f]
                                   \/ /\ f \in AdvancedBy(req)
                                      /\ Watermarked(req)[f] = req.gen[f]
  <1>1. /\ req.gen \in Generations
        /\ \A f \in Family : /\ req.gen[f] \in Nat /\ mem.families[f] \in Nat
                             /\ mem.evidence.gen[f] \in Nat
    BY StateFields DEF Evidence, Generations
  <1>2. Watermarked(req) \in Generations
    BY <1>1 DEF Watermarked, Generations
  <1>3. \A i \in DOMAIN FamilyOrder : i \in Nat /\ i \in 1..i
    BY DEF FamilyOrder
  <1>4. \A f \in MovedBy(req) : f \in AdvancedBy(req) /\ f \notin BlockedBy(req)
    BY <1>3 DEF MovedBy
  <1>5. \A f \in MovedBy(req) : f \in Family => req.gen[f] > mem.families[f]
    BY <1>1, <1>4 DEF BlockedBy
  <1>6. \A f \in Family : mem.families[f] <= Watermarked(req)[f]
    BY <1>1, <1>5 DEF Watermarked
  <1>7. ASSUME BlockedBy(req) = {}, ~Regresses(req), NEW f \in Family,
               req.gen[f] # mem.evidence.gen[f]
        PROVE  f \in AdvancedBy(req) /\ Watermarked(req)[f] = req.gen[f]
    <2>1. f \in AdvancedBy(req)
      BY <1>1, <1>7 DEF AdvancedBy, Regresses
    <2>2. f \in MovedBy(req)
      BY <1>7, <2>1, FamilyOrderCovers DEF MovedBy
    <2> QED
      BY <2>1, <2>2 DEF Watermarked
  <1> QED
    BY <1>2, <1>6, <1>7

\* A reduction that leaves the sets alone and raises evidence and watermarks
\* follows when it reduces the retained results whose evidence moved.
LEMMA WatermarkChangeFollows ==
    ASSUME IInv, up, NEW tt \in State, NEW targets,
           tt.sets = mem.sets, tt.populations = mem.populations,
           tt.results = Demoted(mem.results, targets),
           WatermarksGrow(mem, tt), WatermarksCover(tt),
           \A f \in Family : mem.evidence.gen[f] <= tt.evidence.gen[f],
           \A r \in mem.results \ targets : r.state = "Current" /\ Retained(mem, r) =>
              \A f \in r.consulted : tt.evidence.gen[f] = mem.evidence.gen[f]
    PROVE  Follows(mem, tt)
  <1>1. /\ mem \in State /\ StateInv(mem)
        /\ mem.results \in SUBSET Result
        /\ \A r \in mem.results : r.state = "Current" => r.epoch = epoch
    BY MemoryFacts
  <1>2. \A r \in tt.results : r.state = "Current" => r \in mem.results /\ r \notin targets
    BY <1>1, DemotedCurrent
  <1>3. ASSUME NEW r \in tt.results, r.state = "Current"
        PROVE  /\ MatchesSet(mem, r) => MatchesSet(tt, r)
               /\ Retained(mem, r) /\ MatchesEvidence(mem, r) => MatchesEvidence(tt, r)
    BY <1>2, <1>3 DEF MatchesSet, MatchesEvidence
  <1>4. /\ \A s \in SetId : Known(mem, s) => Known(tt, s)
        /\ KnownDefined(tt) /\ KnownBounded(tt)
    BY <1>1 DEF Known, KnownDefined, KnownBounded, KnownSets, StateInv
  <1>5. StateInv(tt)
    BY <1>1, <1>3, <1>4, DemotionKeeps
  <1>6. \A s \in SetId : mem.sets[s].generation <= tt.sets[s].generation
    BY <1>1, StateFields
  <1> QED
    BY <1>1, <1>2, <1>5, <1>6 DEF Follows

\* Demoting nothing changes nothing.
LEMMA DemotedNothing == \A results : Demoted(results, {}) = results
  BY DEF Demoted

\* Moving watermarks alone, as a failed or blocked advance does.
LEMMA MovedFollows ==
    ASSUME IInv, up, NEW req \in Evidence
    PROVE  LET tt == [mem EXCEPT !.families = Watermarked(req)]
           IN Follows(mem, tt) /\ SameAnswers(mem, tt)
  <1> DEFINE tt == [mem EXCEPT !.families = Watermarked(req)]
  <1>1. mem \in State /\ WatermarksCover(mem)
    BY MemoryFacts
  <1>2. Watermarked(req) \in Generations
    BY <1>1, WatermarkedProperties
  <1>3. /\ tt \in State
        /\ tt.sets = mem.sets /\ tt.populations = mem.populations
        /\ tt.results = mem.results /\ tt.evidence = mem.evidence
        /\ tt.families = Watermarked(req) /\ tt.keys = mem.keys
    BY <1>1, <1>2 DEF State
  <1> HIDE DEF tt
  <1>4. /\ \A f \in Family : mem.families[f] <= tt.families[f]
        /\ \A f \in Family : tt.families[f] \in Nat
    BY <1>1, <1>2, <1>3, WatermarkedProperties DEF Generations
  <1>5. WatermarksGrow(mem, tt)
    BY <1>1, <1>3, <1>4, StateFields DEF WatermarksGrow
  <1>6. WatermarksCover(tt)
    BY <1>1, <1>3, <1>4, StateFields DEF WatermarksCover
  <1>7. \A f \in Family : mem.evidence.gen[f] <= tt.evidence.gen[f]
    BY <1>1, <1>3, StateFields
  <1>8. Follows(mem, tt)
    BY <1>3, <1>5, <1>6, <1>7, DemotedNothing, WatermarkChangeFollows
  <1> QED
    BY <1>3, <1>8 DEF SameAnswers, tt

\* An evidence advance that nothing blocks.
LEMMA EvidenceFollows ==
    ASSUME IInv, up, NEW req \in Evidence, ~Regresses(req), BlockedBy(req) = {}
    PROVE  Follows(mem, [mem EXCEPT !.evidence = req,
                                    !.families = Watermarked(req),
                                    !.results = Demoted(@, UNION {DependentsOfFamily(mem, f) :
                                                                    f \in AdvancedBy(req)})])
  <1> DEFINE targets == UNION {DependentsOfFamily(mem, f) : f \in AdvancedBy(req)}
             tt == [mem EXCEPT !.evidence = req, !.families = Watermarked(req),
                               !.results = Demoted(@, targets)]
  <1>1. /\ mem \in State /\ WatermarksCover(mem) /\ StateInv(mem)
        /\ mem.results \in SUBSET Result
    BY MemoryFacts
  <1>2. /\ Watermarked(req) \in Generations
        /\ \A f \in Family : mem.families[f] <= Watermarked(req)[f]
        /\ \A f \in Family : \/ req.gen[f] = mem.evidence.gen[f]
                             \/ f \in AdvancedBy(req) /\ Watermarked(req)[f] = req.gen[f]
        /\ \A f \in Family : Watermarked(req)[f] \in Nat /\ req.gen[f] \in Nat
    BY <1>1, WatermarkedProperties DEF Generations, Evidence
  <1>3. \A f \in AdvancedBy(req), r \in mem.results \ targets : r \notin DependentsOfFamily(mem, f)
    OBVIOUS
  <1> HIDE DEF targets
  <1>4. Demoted(mem.results, targets) \in SUBSET Result
    BY <1>1, DemotedCurrent
  <1>5. /\ tt \in State
        /\ tt.sets = mem.sets /\ tt.populations = mem.populations
        /\ tt.results = Demoted(mem.results, targets) /\ tt.evidence = req
        /\ tt.families = Watermarked(req) /\ tt.keys = mem.keys
    BY <1>1, <1>2, <1>4 DEF State
  <1> HIDE DEF tt
  <1>6. WatermarksGrow(mem, tt)
    BY <1>1, <1>2, <1>5, StateFields DEF WatermarksGrow
  <1>7. WatermarksCover(tt)
    <2> SUFFICES ASSUME NEW f \in Family, req.gen[f] > InitialEvidence.gen[f]
                 PROVE  Watermarked(req)[f] >= req.gen[f]
      BY <1>5 DEF WatermarksCover
    <2>1. CASE req.gen[f] = mem.evidence.gen[f]
      <3>1. mem.families[f] >= req.gen[f] /\ mem.families[f] \in Nat
        BY <1>1, <2>1, StateFields DEF WatermarksCover
      <3> QED
        BY <1>2, <3>1
    <2>2. CASE Watermarked(req)[f] = req.gen[f]
      BY <1>2, <2>2
    <2> QED
      BY <1>2, <2>1, <2>2
  <1>8. \A f \in Family : mem.evidence.gen[f] <= tt.evidence.gen[f]
    BY <1>1, <1>2, <1>5, StateFields DEF Regresses
  <1>9. ASSUME NEW r \in mem.results \ targets, r.state = "Current", Retained(mem, r),
               NEW f \in r.consulted
        PROVE  tt.evidence.gen[f] = mem.evidence.gen[f]
    <2>1. f \in Family /\ Known(mem, r.set)
      BY <1>1 DEF Result, StateInv, KnownResults
    <2>2. r \in DependentsOfFamily(mem, f)
      BY <1>9, <2>1, ConsultedIsDependent
    <2> QED
      BY <1>2, <1>3, <1>5, <2>1, <2>2
  <1>10. Follows(mem, tt)
    BY <1>5, <1>6, <1>7, <1>8, <1>9, WatermarkChangeFollows
  <1> QED
    BY <1>10 DEF tt, targets

\* Invalidating a key whose watermark is behind: the watermark alone, and with
\* the reduction of its dependents.
LEMMA KeyFollows ==
    ASSUME IInv, up, NEW k \in KeyInput, NEW n \in Nat, mem.keys[k] < n, NEW targets
    PROVE  LET moved == [mem EXCEPT !.keys[k] = n]
               next == [moved EXCEPT !.results = Demoted(@, targets)]
           IN /\ Follows(mem, moved) /\ SameAnswers(mem, moved)
              /\ Follows(mem, next)
  <1> DEFINE moved == [mem EXCEPT !.keys[k] = n]
             next == [moved EXCEPT !.results = Demoted(@, targets)]
  <1>1. /\ mem \in State /\ WatermarksCover(mem)
        /\ mem.results \in SUBSET Result
    BY MemoryFacts
  <1>2. Demoted(mem.results, targets) \in SUBSET Result
    BY <1>1, DemotedCurrent
  <1>3. /\ moved \in State
        /\ moved.sets = mem.sets /\ moved.populations = mem.populations
        /\ moved.results = mem.results /\ moved.evidence = mem.evidence
        /\ moved.families = mem.families /\ moved.keys = [mem.keys EXCEPT ![k] = n]
    BY <1>1 DEF State
  <1>4. /\ next \in State
        /\ next.sets = mem.sets /\ next.populations = mem.populations
        /\ next.results = Demoted(mem.results, targets) /\ next.evidence = mem.evidence
        /\ next.families = mem.families /\ next.keys = [mem.keys EXCEPT ![k] = n]
    BY <1>2, <1>3 DEF State
  <1> HIDE DEF moved, next
  <1>5. \A j \in KeyInput : mem.keys[j] <= [mem.keys EXCEPT ![k] = n][j]
    BY <1>1, StateFields
  <1>6. /\ WatermarksGrow(mem, moved) /\ WatermarksGrow(mem, next)
        /\ WatermarksCover(moved) /\ WatermarksCover(next)
        /\ \A f \in Family : /\ mem.evidence.gen[f] <= moved.evidence.gen[f]
                             /\ mem.evidence.gen[f] <= next.evidence.gen[f]
    BY <1>1, <1>3, <1>4, <1>5, StateFields DEF WatermarksGrow, WatermarksCover
  <1>7. Follows(mem, moved)
    BY <1>3, <1>6, DemotedNothing, WatermarkChangeFollows
  <1>8. Follows(mem, next)
    BY <1>4, <1>6, WatermarkChangeFollows
  <1> QED
    BY <1>3, <1>7, <1>8 DEF SameAnswers, moved, next

-----------------------------------------------------------------------------
(* Evaluation *)

\* The stages end in one outcome; "Admissible" is reached only by an active
\* canonical set and a candidate that carries each consulted generation.
LEMMA OutcomeProperties ==
    ASSUME NEW e, NEW c, NEW late
    PROVE  /\ OutcomeOf(e, c, late) \in Outcome
           /\ OutcomeOf(e, c, late) = "Admissible" =>
                 /\ Canonical(e.snapshot)
                 /\ e.snapshot.state = "Active"
                 /\ \A f \in Consulted(e.snapshot.definition) :
                       Fact[c].evidence[f] = e.evidence.gen[f]
  BY DEF OutcomeOf, Outcome

\* The results of a batch are current results of the set, one for each path.
LEMMA BatchProperties ==
    ASSUME NEW e \in EvaluatingPhase, e.snapshot.definition \in Definition, NEW late
    PROVE  LET new == ResultsOfBatch(e, late)
           IN /\ new \in SUBSET Result
              /\ IsFiniteSet(new)
              /\ \A n \in new : n.set = e.set /\ n.epoch = e.epoch /\ n.state = "Current"
              /\ \A q, r \in new : q.path = r.path => q = r
              /\ \A n \in new : \E c \in e.batch : Fact[c].path = n.path
              /\ \A n \in new : n.outcome = "Admissible" =>
                    /\ n.setGeneration = e.snapshot.generation
                    /\ Canonical(e.snapshot)
                    /\ e.snapshot.state = "Active"
                    /\ n.consulted = Consulted(e.snapshot.definition)
                    /\ \A f \in n.consulted : n.evidence[f] = e.evidence.gen[f]
  <1> DEFINE new == ResultsOfBatch(e, late)
             Res(c) == ResultOf(e, c, c \in late)
  <1>1. /\ e.set \in SetId /\ e.batch \in SUBSET Candidate /\ e.boot \in Caller
        /\ e.snapshot.generation \in Nat /\ e.generation \in Nat /\ e.epoch \in Nat
    BY DEF EvaluatingPhase, SetRecord
  <1>2. Consulted(e.snapshot.definition) \in SUBSET Family
    BY CoordinatorInputs DEF Consulted, ContentType, Family
  <1>3. ASSUME NEW c \in e.batch
        PROVE  /\ Res(c) \in Result
               /\ Res(c).path = Fact[c].path
               /\ Res(c).set = e.set /\ Res(c).epoch = e.epoch /\ Res(c).state = "Current"
               /\ Res(c).outcome = "Admissible" =>
                    /\ Res(c).setGeneration = e.snapshot.generation
                    /\ Canonical(e.snapshot)
                    /\ e.snapshot.state = "Active"
                    /\ Res(c).consulted = Consulted(e.snapshot.definition)
                    /\ \A f \in Res(c).consulted : Res(c).evidence[f] = e.evidence.gen[f]
    <2>1. Fact[c].path \in Path /\ Fact[c].evidence \in Generations
      BY <1>1, CoordinatorInputs DEF Path
    <2>2. Res(c) \in Result
      BY <1>1, <1>2, <2>1, OutcomeProperties DEF ResultOf, Result, ResultState
    <2>3. Res(c).outcome = OutcomeOf(e, c, c \in late)
      BY DEF ResultOf
    <2> QED
      BY <2>2, <2>3, OutcomeProperties DEF ResultOf
  <1>4. \/ new = {}
        \/ /\ new = {Res(c) : c \in e.batch}
           /\ \A b, c \in e.batch : Fact[b].path = Fact[c].path => b = c
    BY DEF ResultsOfBatch, Rejected
  <1>5. IsFiniteSet(new)
    <2>1. IsFiniteSet(e.batch)
      BY <1>1, FiniteCandidates, FS_Subset
    <2>2. IsFiniteSet({})
      BY FS_EmptySet
    <2>3. IsFiniteSet({Res(c) : c \in e.batch})
      <3> DEFINE g == [c \in e.batch |-> Res(c)]
      <3>1. {Res(c) : c \in e.batch} = {g[c] : c \in e.batch}
        OBVIOUS
      <3> HIDE DEF g, Res
      <3>2. DOMAIN g = e.batch
        BY DEF g
      <3> QED
        BY <2>1, <3>1, <3>2, ImageIsFinite
    <2> HIDE DEF new, Res
    <2> QED
      BY <1>4, <2>2, <2>3
  <1> HIDE DEF new, Res
  <1>6. /\ new \in SUBSET Result
        /\ \A n \in new : n.set = e.set /\ n.epoch = e.epoch /\ n.state = "Current"
        /\ \A n \in new : \E c \in e.batch : Fact[c].path = n.path
        /\ \A n \in new : n.outcome = "Admissible" =>
                    /\ n.setGeneration = e.snapshot.generation
                    /\ Canonical(e.snapshot)
                    /\ e.snapshot.state = "Active"
                    /\ n.consulted = Consulted(e.snapshot.definition)
                    /\ \A f \in n.consulted : n.evidence[f] = e.evidence.gen[f]
    BY <1>3, <1>4
  <1>7. ASSUME NEW q \in new, NEW r \in new, q.path = r.path
        PROVE  q = r
    <2>1. PICK b \in e.batch : q = Res(b)
      BY <1>4
    <2>2. PICK c \in e.batch : r = Res(c)
      BY <1>4
    <2> QED
      BY <1>3, <1>4, <1>7, <2>1, <2>2
  <1> QED
    BY <1>5, <1>6, <1>7 DEF new

\* The populations once a batch is retained: one entry for each set, and no
\* other set's entry is changed, or dropped while there is room.
Retains(populations, new, s, batch) ==
    /\ new \in Seq(Population)
    /\ \A i \in DOMAIN new : new[i].set # s =>
          \E j \in DOMAIN populations : populations[j] = new[i]
    /\ \E i \in DOMAIN new : new[i] = [set |-> s, candidates |-> batch]
    /\ (\A i, j \in DOMAIN populations : populations[i].set = populations[j].set => i = j)
          => (\A i, j \in DOMAIN new : new[i].set = new[j].set => i = j)
    /\ \/ \E i \in DOMAIN populations : populations[i].set = s
       \/ Len(populations) < MaxPopulations
       => \A j \in DOMAIN populations : populations[j].set # s =>
             \E i \in DOMAIN new : new[i] = populations[j]

LEMMA WithPopulationProperties ==
    ASSUME NEW populations \in Seq(Population), NEW s \in SetId, NEW batch \in SUBSET Candidate
    PROVE  Retains(populations, WithPopulation(populations, s, batch), s, batch)
  <1> DEFINE entry == [set |-> s, candidates |-> batch]
             new == WithPopulation(populations, s, batch)
  <1> SUFFICES Retains(populations, new, s, batch)
    OBVIOUS
  <1>1. entry \in Population /\ entry.set = s
    BY DEF Population
  <1>2. /\ Len(populations) \in Nat /\ DOMAIN populations = 1..Len(populations)
        /\ \A i \in DOMAIN populations : populations[i] \in Population
    BY LenProperties, ElementOfSeq
  <1> HIDE DEF entry
  <1>3. CASE \E i \in DOMAIN populations : populations[i].set = s
    <2>1. new = [i \in DOMAIN populations |->
                    IF populations[i].set = s THEN entry ELSE populations[i]]
      BY <1>3 DEF WithPopulation, entry
    <2> HIDE DEF new
    <2>2. new \in [1..Len(populations) -> Population]
      BY <1>1, <1>2, <2>1
    <2>3. new \in Seq(Population)
      BY <1>2, <2>2, SeqDef
    <2>4. /\ DOMAIN new = DOMAIN populations
          /\ \A i \in DOMAIN new : new[i].set = populations[i].set
          /\ \A i \in DOMAIN new : populations[i].set # s => new[i] = populations[i]
          /\ \A i \in DOMAIN new : populations[i].set = s => new[i] = entry
      BY <1>1, <1>2, <2>1
    <2>5. \E i \in DOMAIN new : new[i] = entry
      BY <1>3, <2>4
    <2> QED
      BY <2>3, <2>4, <2>5 DEF Retains, entry
  <1>4. CASE ~\E i \in DOMAIN populations : populations[i].set = s
    <2> DEFINE kept == IF Len(populations) >= MaxPopulations THEN Tail(populations) ELSE populations
    <2>1. new = Append(kept, entry)
      BY <1>4 DEF WithPopulation, entry
    <2>2. /\ kept \in Seq(Population)
          /\ \E n \in Nat : \A i \in 1..Len(kept) :
                i + n \in DOMAIN populations /\ kept[i] = populations[i + n]
          /\ Len(populations) < MaxPopulations => kept = populations
      <3>1. CASE Len(populations) >= MaxPopulations
        <4>1. populations # <<>>
          BY <1>2, <3>1, CoordinatorLimits, EmptySeq
        <4>2. /\ Tail(populations) \in Seq(Population)
              /\ Len(Tail(populations)) = Len(populations) - 1
              /\ \A i \in 1..Len(Tail(populations)) : Tail(populations)[i] = populations[i + 1]
          BY <4>1, HeadTailProperties
        <4>3. \A i \in 1..Len(kept) : i + 1 \in DOMAIN populations /\ kept[i] = populations[i + 1]
          BY <1>2, <3>1, <4>2
        <4>4. kept \in Seq(Population)
          BY <3>1, <4>2
        <4>5. ~(Len(populations) < MaxPopulations)
          BY <1>2, <3>1, CoordinatorLimits
        <4> HIDE DEF kept, new
        <4>6. \E n \in Nat : \A i \in 1..Len(kept) :
                 i + n \in DOMAIN populations /\ kept[i] = populations[i + n]
          <5>1. 1 \in Nat
            OBVIOUS
          <5> QED
            BY <4>3, <5>1
        <4> QED
          BY <4>4, <4>5, <4>6
      <3>2. CASE ~(Len(populations) >= MaxPopulations)
        <4>1. \A i \in 1..Len(kept) : i + 0 \in DOMAIN populations /\ kept[i] = populations[i + 0]
          BY <1>2, <3>2
        <4> QED
          BY <1>2, <3>2, <4>1
      <3> QED
        BY <3>1, <3>2
    <2> HIDE DEF kept, new
    <2>3. /\ new \in Seq(Population)
          /\ Len(new) = Len(kept) + 1
          /\ \A i \in 1..Len(kept) : new[i] = kept[i]
          /\ new[Len(kept) + 1] = entry
      BY <1>1, <2>1, <2>2, AppendProperties
    <2>4. /\ DOMAIN new = 1..Len(new)
          /\ Len(kept) \in Nat
      BY <2>2, <2>3, LenProperties
    <2>5. PICK n \in Nat : \A i \in 1..Len(kept) :
              i + n \in DOMAIN populations /\ kept[i] = populations[i + n]
      BY <2>2
    <2>6. \A i \in DOMAIN new : i \in 1..Len(kept) \/ (i = Len(kept) + 1 /\ new[i] = entry)
      BY <2>3, <2>4
    <2>7. \A i \in DOMAIN new : new[i].set # s =>
              \E j \in DOMAIN populations : populations[j] = new[i]
      BY <1>1, <2>3, <2>5, <2>6
    <2>8. Len(kept) + 1 \in DOMAIN new
      BY <2>3, <2>4
    <2>9. ASSUME \A i, j \in DOMAIN populations : populations[i].set = populations[j].set => i = j,
                 NEW i \in DOMAIN new, NEW j \in DOMAIN new, new[i].set = new[j].set
          PROVE  i = j
      <3>1. \A x \in 1..Len(kept) : /\ x \in Nat /\ x + n \in DOMAIN populations
                                     /\ new[x] = populations[x + n]
        BY <2>3, <2>5
      <3>2. CASE i \in 1..Len(kept) /\ j \in 1..Len(kept)
        <4>1. i + n = j + n
          BY <2>9, <3>1, <3>2
        <4> QED
          BY <3>1, <3>2, <4>1
      <3>3. CASE i = Len(kept) + 1 /\ j \in 1..Len(kept)
        BY <1>1, <1>4, <2>3, <2>9, <3>1, <3>3
      <3>4. CASE j = Len(kept) + 1 /\ i \in 1..Len(kept)
        BY <1>1, <1>4, <2>3, <2>9, <3>1, <3>4
      <3> QED
        BY <2>6, <3>2, <3>3, <3>4
    <2>10. ASSUME Len(populations) < MaxPopulations, NEW j \in DOMAIN populations
           PROVE  \E i \in DOMAIN new : new[i] = populations[j]
      <3>1. kept = populations
        BY <2>2, <2>10
      <3>2. j \in 1..Len(kept) /\ j \in DOMAIN new
        BY <1>2, <2>3, <2>4, <3>1
      <3> QED
        BY <2>3, <3>1, <3>2
    <2> QED
      BY <1>4, <2>3, <2>7, <2>8, <2>9, <2>10 DEF Retains, entry
  <1> QED
    BY <1>3, <1>4

\* A set without a population leaves room for its own when there is room for
\* the population of every set in use.
LEMMA RoomForPopulation ==
    ASSUME NEW st \in State, KnownBounded(st), OnePopulation(st),
           MaxSets <= MaxPopulations, NEW s \in SetId, Known(st, s),
           \A i \in DOMAIN st.populations : st.populations[i].set # s
    PROVE  Len(st.populations) < MaxPopulations
  <1> DEFINE n == Len(st.populations)
             rest == KnownSets(st) \ {s}
             h == [i \in 1..n |-> st.populations[i].set]
  <1>1. st.populations \in Seq(Population) /\ MaxSets \in Nat /\ MaxPopulations \in Nat
    BY StateFields, CoordinatorLimits
  <1>2. n \in Nat /\ DOMAIN st.populations = 1..n
    BY <1>1, LenProperties
  <1>3. \A i \in 1..n : st.populations[i] \in Population
    BY <1>1, <1>2, ElementOfSeq
  <1>4. \A i \in 1..n : st.populations[i].set \in rest
    BY <1>2, <1>3 DEF Population, OnePopulation, KnownSets
  <1> HIDE DEF n, rest
  <1>5. h \in Injection(1..n, rest)
    BY <1>2, <1>4 DEF Injection, OnePopulation, IsInjective
  <1>6. IsFiniteSet(1..n) /\ Cardinality(1..n) = n
    BY <1>2, FS_Interval
  <1>7. /\ IsFiniteSet(rest) /\ Cardinality(KnownSets(st)) \in Nat
        /\ Cardinality(rest) = Cardinality(KnownSets(st)) - 1
    BY FS_RemoveElement, FS_CardinalityType DEF KnownBounded, KnownSets, rest
  <1>8. Cardinality(1..n) <= Cardinality(rest)
    <2> HIDE DEF h
    <2> QED
      BY <1>5, <1>6, <1>7, FS_Injection
  <1> QED
    BY <1>1, <1>2, <1>6, <1>7, <1>8 DEF KnownBounded, n

\* The results and the state record a commit produces.
AllResults(e, late) == Superseding(mem.results, ResultsOfBatch(e, late), e.set)

CommitOf(e, late, victims) ==
    [mem EXCEPT !.results = AllResults(e, late) \ victims,
                !.populations = WithPopulation(@, e.set, e.batch),
                !.last = e.generation]

\* Committing an evaluation whose set and evidence are still those of its
\* snapshot.  Results of other sets lose at most their candidates.
LEMMA CommitFollows ==
    ASSUME IInv, up, NEW e \in EvaluatingPhase, e.epoch = epoch,
           e.snapshot.generation # 0, e.snapshot.definition \in Definition,
           StillCurrent(e), NEW late, NEW victims \in TrimVictims(AllResults(e, late))
    PROVE  /\ Follows(mem, CommitOf(e, late, victims))
           /\ CommitOf(e, late, victims).results = AllResults(e, late) \ victims
           /\ IsFiniteSet(AllResults(e, late))
           /\ \A r \in mem.results : r.set # e.set => r \in AllResults(e, late)
  <1> DEFINE new == ResultsOfBatch(e, late)
             all == AllResults(e, late)
             tt == CommitOf(e, late, victims)
  <1>1. /\ mem \in State /\ StateInv(mem)
        /\ mem.results \in SUBSET Result /\ mem.populations \in Seq(Population)
        /\ \A r \in mem.results : r.state = "Current" => r.epoch = epoch
        /\ e.set \in SetId /\ e.batch \in SUBSET Candidate /\ e.generation \in Nat
    BY MemoryFacts, StateFields DEF EvaluatingPhase
  <1>2. /\ new \in SUBSET Result
        /\ IsFiniteSet(new)
        /\ \A n \in new : n.set = e.set /\ n.epoch = e.epoch /\ n.state = "Current"
        /\ \A q, r \in new : q.path = r.path => q = r
        /\ \A n \in new : \E c \in e.batch : Fact[c].path = n.path
        /\ \A n \in new : n.outcome = "Admissible" =>
              /\ n.setGeneration = e.snapshot.generation
              /\ Canonical(e.snapshot)
              /\ e.snapshot.state = "Active"
              /\ n.consulted = Consulted(e.snapshot.definition)
              /\ \A f \in n.consulted : n.evidence[f] = e.evidence.gen[f]
    BY BatchProperties
  <1> HIDE DEF new, all, tt
  <1>3. \A q, r \in new : Id(q) = Id(r) => q = r
    BY <1>2 DEF Id
  <1>4. /\ all \in SUBSET Result
        /\ IsFiniteSet(all)
        /\ \A q \in all : q \in new \/ \E r \in mem.results : q.set = r.set
        /\ \A q \in all : q.state = "Current" => q \in new \/ (q \in mem.results /\ q.set # e.set)
        /\ \A r \in mem.results : r.set # e.set => r \in all
        /\ \A q, r \in all : Id(q) = Id(r) => q = r
    <2>1. all = Superseding(mem.results, new, e.set)
      BY DEF new, all, AllResults
    <2>2. IsFiniteSet(mem.results) /\ \A q, r \in mem.results : Id(q) = Id(r) => q = r
      BY <1>1 DEF StateInv, UniqueIds
    <2> QED
      BY <1>1, <1>2, <1>3, <2>1, <2>2, SupersedingProperties
  <1> DEFINE kept == WithPopulation(mem.populations, e.set, e.batch)
  <1>5. /\ kept \in Seq(Population)
        /\ \A i \in DOMAIN kept : kept[i].set # e.set =>
              \E j \in DOMAIN mem.populations : mem.populations[j] = kept[i]
        /\ \E i \in DOMAIN kept : kept[i] = [set |-> e.set, candidates |-> e.batch]
        /\ \A i, j \in DOMAIN kept : kept[i].set = kept[j].set => i = j
        /\ \/ \E i \in DOMAIN mem.populations : mem.populations[i].set = e.set
           \/ Len(mem.populations) < MaxPopulations
           => \A j \in DOMAIN mem.populations : mem.populations[j].set # e.set =>
                 \E i \in DOMAIN kept : kept[i] = mem.populations[j]
    <2>1. \A i, j \in DOMAIN mem.populations :
             mem.populations[i].set = mem.populations[j].set => i = j
      BY <1>1 DEF StateInv, OnePopulation
    <2>2. /\ mem.populations \in Seq(Population)
          /\ e.set \in SetId /\ e.batch \in SUBSET Candidate
      BY <1>1
    <2>3. Retains(mem.populations, kept, e.set, e.batch)
      BY <2>2, WithPopulationProperties
    <2> HIDE DEF kept
    <2> QED
      BY <2>1, <2>3 DEF Retains
  <1>6. /\ tt \in State
        /\ tt.results = all \ victims
        /\ tt.populations = kept
        /\ tt.sets = mem.sets /\ tt.evidence = mem.evidence
        /\ tt.families = mem.families /\ tt.keys = mem.keys
    BY <1>1, <1>4, <1>5 DEF State, tt, all, CommitOf
  <1> HIDE DEF kept
  <1>7. IsFiniteSet(tt.results) /\ UniqueIds(tt)
    <2>1. IsFiniteSet(all \ victims)
      BY <1>4, FS_Difference
    <2> QED
      BY <1>4, <1>6, <2>1 DEF UniqueIds
  <1>8. KnownResults(tt) /\ KnownDefined(tt)
    BY <1>1, <1>2, <1>4, <1>6 DEF StateInv, KnownResults, KnownDefined, Known, StillCurrent
  <1>9. OneCurrent(tt)
    <2> SUFFICES ASSUME NEW q \in tt.results, NEW r \in tt.results,
                        q.state = "Current", r.state = "Current",
                        q.set = r.set, q.path = r.path
                 PROVE  q = r
      BY DEF OneCurrent
    <2>1. CASE q \in new \/ r \in new
      BY <1>2, <1>4, <1>6, <2>1
    <2>2. CASE q \notin new /\ r \notin new
      BY <1>1, <1>4, <1>6, <2>2 DEF StateInv, OneCurrent
    <2> QED
      BY <2>1, <2>2
  <1>10. AdmissibleMatches(tt)
    <2> SUFFICES ASSUME NEW r \in tt.results, r.state = "Current", r.outcome = "Admissible"
                 PROVE  MatchesSet(tt, r) /\ (Retained(tt, r) => MatchesEvidence(tt, r))
      BY DEF AdmissibleMatches, CurrentAdmissible
    <2>1. CASE r \in new
      BY <1>2, <1>6, <2>1 DEF StillCurrent, MatchesSet, MatchesEvidence
    <2>2. CASE r \in mem.results /\ r.set # e.set
      <3>1. MatchesSet(mem, r) /\ (Retained(mem, r) => MatchesEvidence(mem, r))
        BY <1>1, <2>2 DEF StateInv, AdmissibleMatches, CurrentAdmissible
      <3>2. Retained(tt, r) => Retained(mem, r)
        BY <1>5, <1>6, <2>2 DEF Retained, RetainedIn
      <3> QED
        BY <1>6, <3>1, <3>2 DEF MatchesSet, MatchesEvidence
    <2> QED
      BY <1>4, <1>6, <2>1, <2>2
  <1>11. WatermarksCover(tt)
    BY <1>6, MemoryFacts DEF WatermarksCover
  <1>12. KnownBounded(tt)
    BY <1>1, <1>6 DEF StateInv, KnownBounded, KnownSets, Known
  <1>13. OnePopulation(tt)
    <2>1. ASSUME NEW i \in DOMAIN kept
          PROVE  Known(tt, kept[i].set)
      <3>1. CASE kept[i].set = e.set
        BY <1>6, <3>1 DEF Known, StillCurrent
      <3>2. CASE kept[i].set # e.set
        <4>1. PICK j \in DOMAIN mem.populations : mem.populations[j] = kept[i]
          BY <1>5, <3>2
        <4> QED
          BY <1>1, <1>6, <4>1 DEF StateInv, OnePopulation, Known
      <3> QED
        BY <3>1, <3>2
    <2> QED
      BY <1>5, <1>6, <2>1 DEF OnePopulation
  <1>14. NothingEvicted(tt)
    <2> SUFFICES ASSUME MaxSets <= MaxPopulations, NEW r \in tt.results, r.state = "Current"
                 PROVE  Retained(tt, r)
      BY DEF NothingEvicted
    <2>1. CASE r \in new
      <3>1. PICK c \in e.batch : Fact[c].path = r.path
        BY <1>2, <2>1
      <3>2. PICK i \in DOMAIN kept : kept[i] = [set |-> e.set, candidates |-> e.batch]
        BY <1>5
      <3>3. c \in RetainedIn(tt, r.set, r.path)
        BY <1>1, <1>2, <1>6, <2>1, <3>1, <3>2 DEF RetainedIn
      <3> QED
        BY <3>3 DEF Retained
    <2>2. CASE r \in mem.results /\ r.set # e.set
      <3>1. Retained(mem, r)
        BY <1>1, <2>2 DEF StateInv, NothingEvicted
      <3>2. PICK c \in Candidate, j \in DOMAIN mem.populations :
               /\ Fact[c].path = r.path
               /\ mem.populations[j].set = r.set
               /\ c \in mem.populations[j].candidates
        BY <3>1 DEF Retained, RetainedIn
      <3>3. \/ \E i \in DOMAIN mem.populations : mem.populations[i].set = e.set
            \/ Len(mem.populations) < MaxPopulations
        <4>1. Known(mem, e.set)
          BY DEF Known, StillCurrent
        <4> QED
          BY <1>1, <4>1, RoomForPopulation DEF StateInv
      <3>4. PICK i \in DOMAIN kept : kept[i] = mem.populations[j]
        BY <1>5, <2>2, <3>2, <3>3
      <3>5. c \in RetainedIn(tt, r.set, r.path)
        BY <1>6, <3>2, <3>4 DEF RetainedIn
      <3> QED
        BY <3>5 DEF Retained
    <2> QED
      BY <1>4, <1>6, <2>1, <2>2
  <1>15. StateInv(tt)
    BY <1>7, <1>8, <1>9, <1>10, <1>11, <1>12, <1>13, <1>14 DEF StateInv
  <1>16. /\ WatermarksGrow(mem, tt)
         /\ \A f \in Family : mem.evidence.gen[f] <= tt.evidence.gen[f]
         /\ \A s \in SetId : mem.sets[s].generation <= tt.sets[s].generation
         /\ \A s \in SetId : tt.sets[s] = mem.sets[s]
    BY <1>1, <1>6, StateFields DEF WatermarksGrow
  <1>17. \A r \in tt.results : r.state = "Current" => r.epoch = epoch
    BY <1>1, <1>2, <1>4, <1>6
  <1>18. Follows(mem, tt)
    BY <1>6, <1>15, <1>16, <1>17 DEF Follows
  <1> QED
    BY <1>4, <1>6, <1>18 DEF all, tt

\* Taking an evaluation generation changes nothing that is answered or stored.
LEMMA BeginFollows ==
    ASSUME IInv, up, NEW n \in Nat
    PROVE  LET tt == [mem EXCEPT !.last = n]
           IN Follows(mem, tt) /\ SameAnswers(mem, tt)
  <1> DEFINE tt == [mem EXCEPT !.last = n]
  <1>1. mem \in State /\ WatermarksCover(mem)
    BY MemoryFacts
  <1>2. /\ tt \in State
        /\ tt.results = mem.results /\ tt.populations = mem.populations
        /\ tt.sets = mem.sets /\ tt.evidence = mem.evidence
        /\ tt.families = mem.families /\ tt.keys = mem.keys
    BY <1>1 DEF State
  <1> HIDE DEF tt
  <1>3. /\ WatermarksGrow(mem, tt) /\ WatermarksCover(tt)
        /\ \A f \in Family : mem.evidence.gen[f] <= tt.evidence.gen[f]
    BY <1>1, <1>2, StateFields DEF WatermarksGrow, WatermarksCover
  <1>4. Follows(mem, tt)
    BY <1>2, <1>3, DemotedNothing, WatermarkChangeFollows
  <1> QED
    BY <1>2, <1>4 DEF SameAnswers, tt

-----------------------------------------------------------------------------
(* Steps *)

StoreImage == [epoch : Nat, state : State, live : SUBSET Caller, fenced : SUBSET Caller]

\* Either nothing was written and nothing answered changes, or what is now in
\* memory was written.
Wrote ==
    \/ UNCHANGED disk /\ (Durable => SameAnswers(mem, mem'))
    \/ Durable /\ disk' \in StoreImage /\ disk'.state = mem'

Stepped == Follows(mem, mem') /\ Wrote /\ UNCHANGED <<epoch, up>>

\* A step of an open coordinator preserves the invariant when it preserves the
\* types of the registry's view, the window and the calls.
LEMMA SteppedHolds ==
    ASSUME IInv, up, Stepped,
           live' \in SUBSET Caller, fenced' \in SUBSET Caller,
           attempts' \in Seq([attempt : Attempt, payload : Payload]),
           Len(attempts') <= MaxAttempts,
           sequence' \in Nat, acked' \in Generations,
           thread' \in [Thread -> {Idle} \cup PopulationPhase \cup EvaluatingPhase],
           CallsInv'
    PROVE  IInv'
  <1>1. mem' \in State /\ StateInv(mem')
    BY DEF Stepped, Follows
  <1>2. disk' \in StoreImage
    BY DEF Stepped, Wrote, IInv, TypeOK, StoreImage
  <1>3. TypeOK'
    BY <1>1, <1>2 DEF TypeOK, StoreImage, IInv, Stepped
  <1>4. CurrentProvenInThisEpoch'
    BY DEF Stepped, Follows, CurrentProvenInThisEpoch
  <1>5. StoreInv'
    <2>1. CASE UNCHANGED disk /\ (Durable => SameAnswers(mem, mem'))
      <3>1. Durable => SameAnswers(disk'.state, mem')
        BY <2>1 DEF IInv, StoreInv, SameAnswers
      <3>2. disk.state \in State /\ mem \in State
        BY DEF IInv, TypeOK
      <3>3. \A f \in Family : disk.state.families[f] \in Nat /\ mem.families[f] \in Nat
                              /\ mem'.families[f] \in Nat
        BY <1>1, <3>2, StateFields
      <3>4. \A k \in KeyInput : disk.state.keys[k] \in Nat /\ mem.keys[k] \in Nat
                                /\ mem'.keys[k] \in Nat
        BY <1>1, <3>2, StateFields
      <3>5. WatermarksGrow(disk.state, mem) /\ WatermarksGrow(mem, mem')
        BY DEF IInv, StoreInv, Stepped, Follows
      <3>6. WatermarksGrow(disk.state, mem')
        BY <3>3, <3>4, <3>5 DEF WatermarksGrow
      <3>7. disk'.state = disk.state
        BY <2>1
      <3> QED
        BY <3>1, <3>6, <3>7 DEF IInv, StoreInv, Stepped
    <2>2. CASE Durable /\ disk'.state = mem'
      <3>1. SameAnswers(disk'.state, mem')
        BY <2>2 DEF SameAnswers
      <3>2. WatermarksGrow(disk'.state, mem')
        BY <1>1, <2>2, StateFields DEF WatermarksGrow
      <3>3. WatermarksCover(disk'.state)
        BY <1>1, <2>2 DEF StateInv
      <3> QED
        BY <2>2, <3>1, <3>2, <3>3 DEF StoreInv
    <2> QED
      BY <2>1, <2>2 DEF Stepped, Wrote
  <1> QED
    BY <1>1, <1>3, <1>4, <1>5 DEF IInv

\* A step that leaves the calls alone leaves what the invariant says of them.
LEMMA CallsUnchanged ==
    ASSUME IInv, UNCHANGED <<epoch, up, thread>>
    PROVE  /\ thread' \in [Thread -> {Idle} \cup PopulationPhase \cup EvaluatingPhase]
           /\ CallsInv'
  BY DEF IInv, TypeOK, CallsInv

\* A written image is one.
LEMMA ImageTyped ==
    ASSUME IInv, NEW st \in State
    PROVE  Image(st) \in StoreImage /\ Image(st).state = st
  BY DEF Image, StoreImage, IInv, TypeOK

\* Writing the next state and applying it, or failing to.
LEMMA PublishWrites ==
    ASSUME IInv, up, NEW next, Follows(mem, next), Publish(next)
    PROVE  Follows(mem, mem') /\ Wrote
  <1>1. next \in State
    BY DEF Follows
  <1>2. CASE Saved(next) /\ mem' = next
    <2>1. Follows(mem, mem')
      BY <1>2
    <2>2. Wrote
      BY <1>1, <1>2, ImageTyped DEF Saved, Wrote
    <2> QED
      BY <2>1, <2>2
  <1>3. CASE SaveFailed(next) /\ UNCHANGED mem
    <2>1. Follows(mem, mem')
      BY <1>3, FollowsItself
    <2>2. Wrote
      BY <1>3 DEF SaveFailed, Wrote, SameAnswers
    <2> QED
      BY <2>1, <2>2
  <1> QED
    BY <1>2, <1>3 DEF Publish

\* Writing the next state and applying it, or applying what answers the same.
LEMMA MovedWrites ==
    ASSUME IInv, up, NEW next, Follows(mem, next),
           NEW moved, Follows(mem, moved), SameAnswers(mem, moved),
           \/ Saved(next) /\ mem' = next
           \/ UNCHANGED disk /\ mem' = moved
    PROVE  Follows(mem, mem') /\ Wrote
  <1>1. next \in State
    BY DEF Follows
  <1>2. CASE Saved(next) /\ mem' = next
    BY <1>1, <1>2, ImageTyped DEF Saved, Wrote
  <1>3. CASE UNCHANGED disk /\ mem' = moved
    BY <1>3 DEF Wrote
  <1> QED
    BY <1>2, <1>3

\* The de-duplication window keeps its type and its limit.
LEMMA RememberTyped ==
    ASSUME IInv, NEW a \in Attempt, NEW payload \in Payload, Remember(a, payload)
    PROVE  /\ attempts' \in Seq([attempt : Attempt, payload : Payload])
           /\ Len(attempts') <= MaxAttempts
  <1> DEFINE Seen == [attempt : Attempt, payload : Payload]
             entry == [attempt |-> a, payload |-> payload]
             kept == IF Len(attempts) >= MaxAttempts THEN Tail(attempts) ELSE attempts
  <1>1. attempts \in Seq(Seen) /\ Len(attempts) <= MaxAttempts /\ MaxAttempts \in Nat \ {0}
    BY CoordinatorLimits DEF IInv, TypeOK
  <1>2. entry \in Seen
    OBVIOUS
  <1> HIDE DEF Seen, entry
  <1>3. Len(attempts) \in Nat
    BY <1>1, LenProperties
  <1>4. kept \in Seq(Seen) /\ Len(kept) < MaxAttempts
    <2>1. CASE Len(attempts) >= MaxAttempts
      <3>1. attempts # <<>>
        BY <1>1, <1>3, <2>1, EmptySeq
      <3>2. Tail(attempts) \in Seq(Seen) /\ Len(Tail(attempts)) = Len(attempts) - 1
        BY <1>1, <3>1, HeadTailProperties
      <3> QED
        BY <1>1, <1>3, <2>1, <3>2
    <2>2. CASE ~(Len(attempts) >= MaxAttempts)
      BY <1>1, <1>3, <2>2
    <2> QED
      BY <2>1, <2>2
  <1>5. attempts' = attempts \/ attempts' = Append(kept, entry)
    BY DEF Remember, Observe, entry
  <1> HIDE DEF kept
  <1>6. Append(kept, entry) \in Seq(Seen) /\ Len(Append(kept, entry)) = Len(kept) + 1
    BY <1>2, <1>4, AppendProperties
  <1>7. Len(kept) \in Nat
    BY <1>4, LenProperties
  <1>8. attempts' \in Seq(Seen)
    BY <1>1, <1>5, <1>6
  <1>9. Len(attempts') <= MaxAttempts
    BY <1>1, <1>4, <1>5, <1>6, <1>7
  <1> QED
    BY <1>8, <1>9 DEF Seen

\* What the invariant says of the variables an operation leaves alone.
LEMMA OthersTyped ==
    ASSUME IInv
    PROVE  /\ live \in SUBSET Caller /\ fenced \in SUBSET Caller
           /\ attempts \in Seq([attempt : Attempt, payload : Payload])
           /\ Len(attempts) <= MaxAttempts
           /\ sequence \in Nat /\ acked \in Generations /\ epoch \in Nat
           /\ thread \in [Thread -> {Idle} \cup PopulationPhase \cup EvaluatingPhase]
           /\ mem \in State
  BY DEF IInv, TypeOK

\* Registrations and fencings write the state as it is.
LEMMA CallersStep ==
    ASSUME IInv, NEW c \in Caller, RegisterCaller(c) \/ FenceCaller(c)
    PROVE  IInv' /\ Stepped
  <1>1. up /\ UNCHANGED <<mem, epoch, up, attempts, sequence, thread, acked>>
    BY DEF RegisterCaller, FenceCaller
  <1>2. live' \in SUBSET Caller /\ fenced' \in SUBSET Caller
    BY OthersTyped DEF RegisterCaller, FenceCaller
  <1>3. Follows(mem, mem')
    BY <1>1, FollowsItself
  <1>4. Image(mem) \in StoreImage /\ Image(mem).state = mem
    BY OthersTyped, ImageTyped
  <1>5. Wrote
    BY <1>1, <1>2, <1>4
       DEF RegisterCaller, FenceCaller, SaveFailed, Wrote, SameAnswers, StoreImage
  <1>6. Stepped
    BY <1>1, <1>3, <1>5 DEF Stepped
  <1>7. /\ thread' \in [Thread -> {Idle} \cup PopulationPhase \cup EvaluatingPhase]
        /\ CallsInv'
    BY <1>1, CallsUnchanged
  <1> QED
    BY <1>1, <1>2, <1>6, <1>7, OthersTyped, SteppedHolds

\* A step of the definition and evidence operations: they leave the registry's
\* view and the calls alone.
LEMMA OperationStep ==
    ASSUME IInv, up, NEW a \in Attempt, NEW payload \in Payload, Remember(a, payload),
           Follows(mem, mem') /\ Wrote, sequence' \in Nat, acked' \in Generations,
           UNCHANGED <<epoch, up, live, fenced, thread>>
    PROVE  IInv' /\ Stepped
  <1>1. Stepped
    BY DEF Stepped
  <1>2. /\ attempts' \in Seq([attempt : Attempt, payload : Payload])
        /\ Len(attempts') <= MaxAttempts
    BY RememberTyped
  <1>3. /\ thread' \in [Thread -> {Idle} \cup PopulationPhase \cup EvaluatingPhase]
        /\ CallsInv'
    BY CallsUnchanged
  <1> QED
    BY <1>1, <1>2, <1>3, OthersTyped, SteppedHolds

\* An operation that changes no state is a step.
LEMMA NothingWritten ==
    ASSUME IInv, up, UNCHANGED <<mem, disk>>
    PROVE  Follows(mem, mem') /\ Wrote
  BY FollowsItself DEF Wrote, SameAnswers

\* Publishing a definition and applying a lifecycle event.
LEMMA DefinitionsStep ==
    ASSUME IInv, NEW c \in Caller, NEW a \in Attempt, NEW s \in SetId,
           \/ \E d \in Definition, g \in CarriedInput : PublishConstraintSet(c, a, s, d, g)
           \/ \E event \in EventInput : ApplyLifecycle(c, a, s, event)
    PROVE  IInv' /\ Stepped
  <1>1. ASSUME NEW d \in Definition, NEW g \in CarriedInput, PublishConstraintSet(c, a, s, d, g)
        PROVE  IInv' /\ Stepped
    <2> DEFINE payload == <<"publish", s, Content[d].constraints>>
               next == [mem EXCEPT !.sets[s] = Published(s, d, g),
                                   !.results = Demoted(@, ResultsOf(mem, s))]
    <2>1. up /\ Remember(a, payload) /\ UNCHANGED <<epoch, up, live, fenced, sequence, thread, acked>>
      BY <1>1 DEF PublishConstraintSet, Authorized
    <2>2. payload \in Payload
      BY CoordinatorInputs DEF Payload, ContentType
    <2>3. Known(mem, s) \/ Cardinality(KnownSets(mem)) < MaxSets => Follows(mem, next)
      BY <2>1, PublicationFollows, CoordinatorInputs
    <2>4. \/ UNCHANGED <<mem, disk>>
          \/ /\ Known(mem, s) \/ Cardinality(KnownSets(mem)) < MaxSets
             /\ Publish(next)
      BY <1>1 DEF PublishConstraintSet, KnownSets
    <2> HIDE DEF next, payload
    <2>5. Follows(mem, mem') /\ Wrote
      BY <2>1, <2>3, <2>4, PublishWrites, NothingWritten
    <2> QED
      BY <2>1, <2>2, <2>5, OthersTyped, OperationStep
  <1>2. ASSUME NEW event \in EventInput, ApplyLifecycle(c, a, s, event)
        PROVE  IInv' /\ Stepped
    <2> DEFINE payload == <<"lifecycle", s, event>>
               state == NextState(mem.sets[s].state, event)
               next == [mem EXCEPT !.sets[s].state = state,
                                   !.results = IF state = "Active"
                                               THEN @ ELSE Demoted(@, ResultsOf(mem, s))]
    <2>1. up /\ Remember(a, payload) /\ UNCHANGED <<epoch, up, live, fenced, sequence, thread, acked>>
      BY <1>2 DEF ApplyLifecycle, Authorized
    <2>2. payload \in Payload /\ event \in LifecycleEvent
      BY CoordinatorInputs DEF Payload
    <2>3. Accepted(mem.sets[s].state, event) => Follows(mem, next)
      BY <2>1, <2>2, LifecycleFollows
    <2>4. (Accepted(mem.sets[s].state, event) /\ Publish(next)) \/ UNCHANGED <<mem, disk>>
      BY <1>2 DEF ApplyLifecycle
    <2> HIDE DEF next, payload
    <2>5. Follows(mem, mem') /\ Wrote
      BY <2>1, <2>3, <2>4, PublishWrites, NothingWritten
    <2> QED
      BY <2>1, <2>2, <2>5, OthersTyped, OperationStep
  <1> QED
    BY <1>1, <1>2

\* Advancing evidence.
LEMMA EvidenceStep ==
    ASSUME IInv, NEW c \in Caller, NEW a \in Attempt, NEW req \in Evidence,
           ApplyEvidenceRequirements(c, a, req)
    PROVE  IInv' /\ Stepped
  <1> DEFINE payload == <<"evidence", req>>
             targets == UNION {DependentsOfFamily(mem, f) : f \in AdvancedBy(req)}
             next == [mem EXCEPT !.evidence = req,
                                 !.families = Watermarked(req),
                                 !.results = Demoted(@, targets)]
             moved == [mem EXCEPT !.families = Watermarked(req)]
  <1>1. up /\ Remember(a, payload) /\ UNCHANGED <<epoch, up, live, fenced, sequence, thread>>
    BY DEF ApplyEvidenceRequirements, Authorized
  <1>2. payload \in Payload
    BY DEF Payload
  <1>3. Follows(mem, moved) /\ SameAnswers(mem, moved)
    BY <1>1, MovedFollows
  <1>4. ~Regresses(req) /\ BlockedBy(req) = {} => Follows(mem, next)
    BY <1>1, EvidenceFollows
  <1>5. /\ \/ UNCHANGED <<mem, disk>>
           \/ UNCHANGED disk /\ mem' = moved
           \/ ~Regresses(req) /\ BlockedBy(req) = {} /\ Saved(next) /\ mem' = next
        /\ UNCHANGED acked \/ Acknowledge(req)
    BY DEF ApplyEvidenceRequirements, SaveFailed
  <1>6. acked' \in Generations
    BY <1>5, OthersTyped DEF Acknowledge, Generations, Evidence
  <1> HIDE DEF next, moved, payload
  <1>7. Follows(mem, mem') /\ Wrote
    <2>1. CASE UNCHANGED <<mem, disk>>
      BY <1>1, <2>1, NothingWritten
    <2>2. CASE UNCHANGED disk /\ mem' = moved
      BY <1>1, <1>3, <2>2, MovedWrites
    <2>3. CASE ~Regresses(req) /\ BlockedBy(req) = {} /\ Saved(next) /\ mem' = next
      BY <1>1, <1>3, <1>4, <2>3, MovedWrites
    <2> QED
      BY <1>5, <2>1, <2>2, <2>3
  <1> QED
    BY <1>1, <1>2, <1>6, <1>7, OthersTyped, OperationStep

\* Invalidating a key.
LEMMA InvalidationStep ==
    ASSUME IInv, NEW c \in Caller, NEW a \in Attempt, NEW k \in KeyInput, InvalidateKey(c, a, k)
    PROVE  IInv' /\ Stepped
  <1> DEFINE payload == <<"invalidate", k>>
             moved == [mem EXCEPT !.keys[k] = sequence + 1]
             next == [moved EXCEPT !.results = Demoted(@, DependentsOfKey(mem, k))]
  <1>1. up /\ Remember(a, payload) /\ UNCHANGED <<epoch, up, live, fenced, thread, acked>>
    BY DEF InvalidateKey, Authorized
  <1>2. payload \in Payload
    BY DEF Payload
  <1>3. sequence + 1 \in Nat /\ sequence' \in Nat /\ mem.keys[k] \in Nat
    BY OthersTyped, StateFields DEF InvalidateKey
  <1>4. mem.keys[k] < sequence + 1 =>
            Follows(mem, moved) /\ SameAnswers(mem, moved) /\ Follows(mem, next)
    BY <1>1, <1>3, KeyFollows
  <1>5. \/ UNCHANGED <<mem, disk>>
        \/ /\ mem.keys[k] < sequence + 1
           /\ \/ Saved(next) /\ mem' = next
              \/ UNCHANGED disk /\ mem' = moved
    BY <1>3 DEF InvalidateKey, SaveFailed
  <1> HIDE DEF next, moved, payload
  <1>6. Follows(mem, mem') /\ Wrote
    BY <1>1, <1>4, <1>5, MovedWrites, NothingWritten
  <1> QED
    BY <1>1, <1>2, <1>3, <1>6, OthersTyped, OperationStep

\* A step that ends or begins one call, and may write, preserves the invariant
\* when the call's new record has its type and was begun here and now.
LEMMA CallStep ==
    ASSUME IInv, up, NEW t \in Thread, NEW call \in {Idle} \cup PopulationPhase \cup EvaluatingPhase,
           call.phase = "evaluating" =>
              /\ call.epoch = epoch
              /\ call.snapshot.generation # 0
              /\ call.snapshot.definition \in Definition,
           thread' = [thread EXCEPT ![t] = call],
           Follows(mem, mem') /\ Wrote,
           attempts' \in Seq([attempt : Attempt, payload : Payload]),
           Len(attempts') <= MaxAttempts,
           UNCHANGED <<epoch, up, live, fenced, sequence, acked>>
    PROVE  IInv' /\ Stepped
  <1>1. Stepped
    BY DEF Stepped
  <1>2. thread' \in [Thread -> {Idle} \cup PopulationPhase \cup EvaluatingPhase]
    BY OthersTyped
  <1>3. CallsInv'
    <2> SUFFICES ASSUME NEW x \in Thread, thread'[x].phase = "evaluating"
                 PROVE  /\ up
                        /\ thread'[x].epoch = epoch
                        /\ thread'[x].snapshot.generation # 0
                        /\ thread'[x].snapshot.definition \in Definition
      BY DEF CallsInv
    <2>1. CASE x = t
      BY <2>1, OthersTyped
    <2>2. CASE x # t
      <3>1. thread'[x] = thread[x]
        BY <2>2, OthersTyped
      <3> QED
        BY <3>1 DEF IInv, CallsInv
    <2> QED
      BY <2>1, <2>2
  <1> QED
    BY <1>1, <1>2, <1>3, OthersTyped, SteppedHolds

\* Idle is not an evaluation.
LEMMA IdleCall == Idle \in {Idle} /\ Idle.phase = "idle"
  BY DEF Idle

\* The retained population of a set consists of candidates.
LEMMA PopulationTyped ==
    ASSUME NEW st \in State, NEW s
    PROVE  PopulationOf(st, s) \in SUBSET Candidate
  <1>1. st.populations \in Seq(Population)
    BY StateFields
  <1>2. \A i \in DOMAIN st.populations : st.populations[i] \in Population
    BY <1>1, LenProperties, ElementOfSeq
  <1> QED
    BY <1>2 DEF PopulationOf, Population

\* Reading the population of a set, refusing its evaluation, and a stale commit
\* change nothing but the call.
LEMMA UnwrittenCallStep ==
    ASSUME IInv, NEW t \in Thread,
           \/ \E c \in Caller, s \in SetId : BeginRevalidate(t, c, s)
           \/ RefuseRevalidate(t)
           \/ CommitStale(t)
    PROVE  IInv' /\ Stepped
  <1>1. up /\ UNCHANGED <<mem, disk, epoch, up, live, fenced, attempts, sequence, acked>>
    BY DEF BeginRevalidate, RefuseRevalidate, CommitStale
  <1>2. Follows(mem, mem') /\ Wrote
    BY <1>1, NothingWritten
  <1>3. ASSUME NEW c \in Caller, NEW s \in SetId, BeginRevalidate(t, c, s)
        PROVE  IInv' /\ Stepped
    <2> DEFINE call == [phase |-> "population", set |-> s, batch |-> PopulationOf(mem, s), boot |-> c]
    <2>1. thread' = [thread EXCEPT ![t] = call]
      BY <1>3 DEF BeginRevalidate
    <2>2. call \in PopulationPhase /\ call.phase = "population"
      BY OthersTyped, PopulationTyped DEF PopulationPhase
    <2> HIDE DEF call
    <2> QED
      BY <1>1, <1>2, <2>1, <2>2, OthersTyped, CallStep
  <1>4. CASE RefuseRevalidate(t) \/ CommitStale(t)
    <2>1. thread' = [thread EXCEPT ![t] = Idle]
      BY <1>4 DEF RefuseRevalidate, CommitStale
    <2> QED
      BY <1>1, <1>2, <2>1, IdleCall, OthersTyped, CallStep
  <1> QED
    BY <1>3, <1>4

\* Phase one of an evaluation.
LEMMA BeginStep ==
    ASSUME IInv, NEW t \in Thread, NEW c \in Caller, NEW a \in Attempt, NEW s \in SetId,
           NEW batch \in Batch, NEW expected \in ExpectedInput,
           BeginEvaluate(t, c, a, s, batch, expected)
    PROVE  IInv' /\ Stepped
  <1> DEFINE payload == <<"evaluate", s, batch, expected,
                          mem.evidence.gen["Topology"], mem.evidence.gen["Capability"]>>
             call == [phase |-> "evaluating", set |-> s, batch |-> batch, expected |-> expected,
                      snapshot |-> mem.sets[s], evidence |-> mem.evidence,
                      generation |-> mem.last + 1, boot |-> c, epoch |-> epoch,
                      keys |-> mem.keys]
             tt == [mem EXCEPT !.last = @ + 1]
  <1>1. /\ up /\ Remember(a, payload)
        /\ UNCHANGED <<disk, epoch, up, live, fenced, sequence, acked>>
    BY DEF BeginEvaluate, Authorized
  <1>2. \/ Known(mem, s) /\ mem' = tt /\ thread' = [thread EXCEPT ![t] = call]
        \/ UNCHANGED mem /\ thread' = [thread EXCEPT ![t] = Idle]
    BY DEF BeginEvaluate
  <1>3. /\ mem \in State /\ epoch \in Nat
        /\ mem.evidence \in Evidence /\ mem.sets[s] \in SetRecord
        /\ mem.last + 1 \in Nat /\ mem.keys \in [KeyInput -> Nat]
        /\ mem.evidence.gen["Topology"] \in Nat /\ mem.evidence.gen["Capability"] \in Nat
        /\ batch \in SUBSET Candidate /\ expected \in Nat
    BY OthersTyped, StateFields, CoordinatorInputs DEF Family
  <1>4. payload \in Payload
    BY <1>3 DEF Payload
  <1>5. call \in EvaluatingPhase
    BY <1>3 DEF EvaluatingPhase
  <1>6. /\ call.epoch = epoch
        /\ Known(mem, s) => /\ call.snapshot.generation # 0
                            /\ call.snapshot.definition \in Definition
    BY <1>1, MemoryFacts DEF StateInv, KnownDefined, Known
  <1>7. Follows(mem, tt) /\ SameAnswers(mem, tt)
    <2>1. tt = [mem EXCEPT !.last = mem.last + 1]
      BY <1>3
    <2> HIDE DEF tt
    <2> QED
      BY <1>1, <1>3, <2>1, BeginFollows
  <1> HIDE DEF payload, call, tt
  <1>8. Follows(mem, mem') /\ Wrote
    BY <1>1, <1>2, <1>7, NothingWritten DEF Wrote
  <1>9. /\ attempts' \in Seq([attempt : Attempt, payload : Payload])
        /\ Len(attempts') <= MaxAttempts
    BY <1>1, <1>4, RememberTyped
  <1>10. CASE Known(mem, s) /\ thread' = [thread EXCEPT ![t] = call]
    BY <1>1, <1>5, <1>6, <1>8, <1>9, <1>10, CallStep
  <1>11. CASE thread' = [thread EXCEPT ![t] = Idle]
    BY <1>1, <1>8, <1>9, <1>11, IdleCall, CallStep
  <1> QED
    BY <1>2, <1>10, <1>11

\* What a call in progress has read.
LEMMA CallFacts ==
    ASSUME IInv, NEW t \in Thread, thread[t].phase = "evaluating"
    PROVE  /\ thread[t] \in EvaluatingPhase
           /\ up /\ thread[t].epoch = epoch
           /\ thread[t].snapshot.generation # 0
           /\ thread[t].snapshot.definition \in Definition
  <1>1. thread[t] \in {Idle} \cup PopulationPhase \cup EvaluatingPhase
    BY OthersTyped
  <1>2. thread[t] # Idle /\ thread[t] \notin PopulationPhase
    BY DEF Idle, PopulationPhase
  <1> QED
    BY <1>1, <1>2 DEF IInv, CallsInv

\* Phase three of an evaluation that is still current.  What it commits bounds
\* the history and keeps the current results of other sets.
LEMMA CommitStep ==
    ASSUME IInv, NEW t \in Thread, CommitEvaluate(t)
    PROVE  /\ IInv' /\ Stepped
           /\ thread' = [thread EXCEPT ![t] = Idle]
           /\ mem' # mem =>
                 /\ \/ Cardinality(mem'.results) <= MaxEvaluations
                    \/ \A r \in mem'.results : r.state = "Current"
                 /\ \A r \in mem.results :
                       r.set # thread[t].set /\ r.state = "Current" => r \in mem'.results
  <1> DEFINE e == thread[t]
  <1>1. /\ up /\ e.phase = "evaluating" /\ StillCurrent(e)
        /\ thread' = [thread EXCEPT ![t] = Idle]
        /\ UNCHANGED <<epoch, up, live, fenced, attempts, sequence, acked>>
    BY DEF CommitEvaluate
  <1>2. PICK late, victims : /\ victims \in TrimVictims(AllResults(e, late))
                             /\ Publish(CommitOf(e, late, victims))
    BY DEF CommitEvaluate, AllResults, CommitOf
  <1>3. /\ e \in EvaluatingPhase /\ e.epoch = epoch
        /\ e.snapshot.generation # 0 /\ e.snapshot.definition \in Definition
    BY <1>1, CallFacts
  <1> DEFINE all == AllResults(e, late)
             next == CommitOf(e, late, victims)
  <1> HIDE DEF e
  <1>4. /\ Follows(mem, next)
        /\ next.results = all \ victims
        /\ IsFiniteSet(all)
        /\ \A r \in mem.results : r.set # e.set => r \in all
    BY <1>1, <1>2, <1>3, CommitFollows
  <1> HIDE DEF all, next
  <1>5. /\ \A r \in victims : r \in all /\ r.state # "Current"
        /\ \/ Cardinality(all \ victims) <= MaxEvaluations
           \/ \A r \in all \ victims : r.state = "Current"
    BY <1>2, <1>4, TrimProperties DEF all
  <1>6. Follows(mem, mem') /\ Wrote
    BY <1>1, <1>2, <1>4, PublishWrites DEF next
  <1>7. IInv' /\ Stepped
    BY <1>1, <1>6, IdleCall, OthersTyped, CallStep
  <1>8. mem' # mem => mem' = next
    BY <1>2 DEF Publish, next
  <1> QED
    BY <1>1, <1>4, <1>5, <1>7, <1>8 DEF e

\* Flushing writes what is in memory.
LEMMA FlushStep ==
    ASSUME IInv, Flush
    PROVE  IInv' /\ Stepped
  <1>1. up /\ UNCHANGED <<mem, epoch, up, live, fenced, attempts, sequence, thread, acked>>
    BY DEF Flush
  <1>2. Follows(mem, mem')
    BY <1>1, FollowsItself
  <1>3. Wrote
    BY <1>1, OthersTyped, ImageTyped DEF Flush, Saved, Wrote, SameAnswers
  <1>4. Stepped
    BY <1>1, <1>2, <1>3 DEF Stepped
  <1>5. /\ thread' \in [Thread -> {Idle} \cup PopulationPhase \cup EvaluatingPhase]
        /\ CallsInv'
    BY <1>1, CallsUnchanged
  <1> QED
    BY <1>1, <1>4, <1>5, OthersTyped, SteppedHolds

\* A crash loses the calls and the window, not the state the next incarnation
\* is compared with.
LEMMA CrashStep ==
    ASSUME IInv, Crash
    PROVE  IInv' /\ UNCHANGED <<mem, disk>>
  <1>1. /\ Durable /\ UNCHANGED <<mem, disk, epoch, acked>> /\ ~up'
        /\ thread' = [t \in Thread |-> Idle]
        /\ live' = {} /\ fenced' = {} /\ attempts' = <<>> /\ sequence' = 0 /\ up' \in BOOLEAN
    BY DEF Crash
  <1>2. /\ attempts' \in Seq([attempt : Attempt, payload : Payload])
        /\ Len(attempts') <= MaxAttempts
    BY <1>1, CoordinatorLimits, EmptySeq
  <1>3. TypeOK'
    BY <1>1, <1>2 DEF IInv, TypeOK
  <1>4. CallsInv' /\ CurrentProvenInThisEpoch'
    BY <1>1, IdleCall DEF CallsInv, CurrentProvenInThisEpoch
  <1>5. StateInv(mem') /\ StoreInv'
    BY <1>1 DEF IInv, StoreInv
  <1> QED
    BY <1>1, <1>3, <1>4, <1>5 DEF IInv

\* What an opening makes of the store: nothing it finds differs from the last
\* memory but the states of results and the watermarks.
Reopened ==
    /\ mem' \in State
    /\ mem'.sets = mem.sets
    /\ mem'.evidence = mem.evidence
    /\ mem'.results = Recovered(mem.results)
    /\ disk'.state = mem'
    /\ mem'.families = disk.state.families
    /\ mem'.keys = disk.state.keys

\* Opening on what the last incarnation stored.
LEMMA OpenStep ==
    ASSUME IInv, Open
    PROVE  IInv' /\ Reopened
  <1>1. /\ ~up /\ up' = TRUE /\ epoch' = disk.epoch + 1
        /\ mem' = [disk.state EXCEPT !.results = Recovered(@)]
        /\ disk' = [epoch |-> disk.epoch + 1, state |-> mem',
                    live |-> {}, fenced |-> disk.fenced \cup disk.live]
        /\ fenced' = disk.fenced \cup disk.live
        /\ UNCHANGED <<live, attempts, sequence, thread, acked>>
    BY DEF Open
  <1>2. /\ disk.state \in State /\ disk.epoch \in Nat
        /\ disk.live \in SUBSET Caller /\ disk.fenced \in SUBSET Caller
        /\ mem \in State /\ StateInv(mem)
    BY DEF IInv, TypeOK
  <1>3. SameAnswers(disk.state, mem) /\ WatermarksCover(disk.state)
    BY <1>1 DEF IInv, StoreInv
  <1>4. mem.results \in SUBSET Result
    BY <1>2, StateFields
  <1>5. /\ Recovered(mem.results) \in SUBSET Result
        /\ IsFiniteSet(Recovered(mem.results))
        /\ \A q \in Recovered(mem.results) : q.state # "Current"
        /\ \A q \in Recovered(mem.results) : \E r \in mem.results : q.set = r.set
        /\ \A q, r \in Recovered(mem.results) : Id(q) = Id(r) => q = r
    <2>1. IsFiniteSet(mem.results) /\ \A q, r \in mem.results : Id(q) = Id(r) => q = r
      BY <1>2 DEF StateInv, UniqueIds
    <2> QED
      BY <1>4, <2>1, RecoveredProperties
  <1>6. /\ mem' \in State
        /\ mem'.results = Recovered(mem.results)
        /\ mem'.sets = mem.sets /\ mem'.populations = mem.populations
        /\ mem'.evidence = mem.evidence
        /\ mem'.families = disk.state.families /\ mem'.keys = disk.state.keys
    BY <1>1, <1>2, <1>3, <1>5 DEF State, SameAnswers
  <1>7. StateInv(mem')
    <2>1. IsFiniteSet(mem'.results) /\ UniqueIds(mem')
      BY <1>5, <1>6 DEF UniqueIds
    <2>2. KnownResults(mem') /\ KnownDefined(mem')
      BY <1>2, <1>5, <1>6 DEF StateInv, KnownResults, KnownDefined, Known
    <2>3. OneCurrent(mem') /\ AdmissibleMatches(mem')
      BY <1>5, <1>6 DEF OneCurrent, AdmissibleMatches, CurrentAdmissible
    <2>4. WatermarksCover(mem')
      BY <1>3, <1>6 DEF WatermarksCover, SameAnswers
    <2>5. KnownBounded(mem')
      BY <1>2, <1>6 DEF StateInv, KnownBounded, KnownSets, Known
    <2>6. OnePopulation(mem') /\ NothingEvicted(mem')
      BY <1>2, <1>5, <1>6 DEF StateInv, OnePopulation, Known, NothingEvicted
    <2> QED
      BY <2>1, <2>2, <2>3, <2>4, <2>5, <2>6 DEF StateInv
  <1>8. TypeOK'
    BY <1>1, <1>2, <1>6 DEF IInv, TypeOK
  <1>9. CallsInv' /\ CurrentProvenInThisEpoch'
    BY <1>1, <1>5, <1>6 DEF IInv, CallsInv, CurrentProvenInThisEpoch
  <1>10. disk'.state = mem'
    BY <1>1
  <1>11. StoreInv'
    <2>1. WatermarksGrow(mem', mem')
      BY <1>6, StateFields DEF WatermarksGrow
    <2> QED
      BY <1>1, <1>7, <1>10, <2>1 DEF StoreInv, SameAnswers, StateInv
  <1> QED
    BY <1>6, <1>7, <1>8, <1>9, <1>10, <1>11 DEF IInv, Reopened

-----------------------------------------------------------------------------
(* The invariant is inductive *)

\* A coordinator opened on an empty store.
LEMMA InitHolds == Init => IInv
  <1> SUFFICES ASSUME Init PROVE IInv
    OBVIOUS
  <1>1. NoSet \in SetRecord
    BY DEF NoSet, SetRecord, SetState
  <1>2. InitialState \in State
    <2>1. [f \in Family |-> 0] \in Generations /\ [k \in KeyInput |-> 0] \in [KeyInput -> Nat]
      BY DEF Generations
    <2>2. [s \in SetId |-> NoSet] \in [SetId -> SetRecord]
      BY <1>1
    <2>3. <<>> \in Seq(Population) /\ {} \in SUBSET Result
      OBVIOUS
    <2> QED
      BY <2>1, <2>2, <2>3, CoordinatorInputs DEF InitialState, State
  <1>3. attempts \in Seq([attempt : Attempt, payload : Payload]) /\ Len(attempts) <= MaxAttempts
    BY CoordinatorLimits, EmptySeq DEF Init
  <1>4. acked \in Generations
    BY CoordinatorInputs DEF Init, Evidence
  <1>5. TypeOK
    BY <1>2, <1>3, <1>4 DEF Init, TypeOK
  <1>6. mem.results = {} /\ mem = InitialState /\ disk.state = mem
    BY DEF Init, InitialState
  <1>7. StateInv(mem)
    <2>1. IsFiniteSet(mem.results)
      BY <1>6, FS_EmptySet
    <2>2. KnownDefined(mem)
      BY <1>6 DEF KnownDefined, Known, InitialState, NoSet
    <2>3. /\ UniqueIds(mem) /\ KnownResults(mem) /\ OneCurrent(mem) /\ AdmissibleMatches(mem)
      BY <1>6 DEF UniqueIds, KnownResults, OneCurrent, AdmissibleMatches, CurrentAdmissible
    <2>4. WatermarksCover(mem)
      <3>1. \A f \in Family : InitialEvidence.gen[f] \in Nat
        BY CoordinatorInputs DEF Evidence, Generations
      <3> QED
        BY <1>6, <3>1 DEF WatermarksCover, InitialState
    <2>5. KnownBounded(mem)
      <3>1. KnownSets(mem) = {}
        BY <1>6 DEF KnownSets, Known, InitialState, NoSet
      <3> QED
        BY <3>1, FS_EmptySet, CoordinatorLimits DEF KnownBounded
    <2>6. OnePopulation(mem) /\ NothingEvicted(mem)
      <3>1. DOMAIN mem.populations = {}
        BY <1>6 DEF InitialState
      <3> QED
        BY <1>6, <3>1 DEF OnePopulation, NothingEvicted
    <2> QED
      BY <2>1, <2>2, <2>3, <2>4, <2>5, <2>6 DEF StateInv
  <1>8. StoreInv
    <2>1. WatermarksGrow(mem, mem)
      BY <1>2, <1>6, StateFields DEF WatermarksGrow
    <2> QED
      BY <1>6, <1>7, <2>1 DEF Init, StoreInv, SameAnswers, StateInv
  <1>9. CallsInv /\ CurrentProvenInThisEpoch
    BY <1>6, IdleCall DEF Init, CallsInv, CurrentProvenInThisEpoch
  <1> QED
    BY <1>5, <1>7, <1>8, <1>9 DEF IInv

\* Every step preserves the invariant, and is an operation, a crash, an opening
\* or a stutter.
LEMMA NextHolds ==
    ASSUME IInv, [Next]_vars
    PROVE  /\ IInv'
           /\ Stepped \/ Reopened \/ UNCHANGED <<mem, disk>>
  <1>1. ASSUME NEW c \in Caller, RegisterCaller(c) \/ FenceCaller(c)
        PROVE  IInv' /\ Stepped
    BY <1>1, CallersStep
  <1>2. ASSUME NEW c \in Caller, NEW a \in Attempt, NEW s \in SetId,
               \/ \E d \in Definition, g \in CarriedInput : PublishConstraintSet(c, a, s, d, g)
               \/ \E event \in EventInput : ApplyLifecycle(c, a, s, event)
        PROVE  IInv' /\ Stepped
    BY <1>2, DefinitionsStep
  <1>3. ASSUME NEW c \in Caller, NEW a \in Attempt, NEW s \in SetId, NEW t \in Thread,
               NEW batch \in Batch, NEW expected \in ExpectedInput,
               BeginEvaluate(t, c, a, s, batch, expected)
        PROVE  IInv' /\ Stepped
    BY <1>3, BeginStep
  <1>4. ASSUME NEW c \in Caller, NEW a \in Attempt, NEW req \in RequirementInput,
               ApplyEvidenceRequirements(c, a, req)
        PROVE  IInv' /\ Stepped
    BY <1>4, EvidenceStep, CoordinatorInputs
  <1>5. ASSUME NEW c \in Caller, NEW a \in Attempt, NEW f \in AdvancedFamily,
               NEW g \in 1..MaxGeneration, AdvanceFamily(c, a, f, g)
        PROVE  IInv' /\ Stepped
    <2>1. mem.evidence \in Evidence /\ f \in Family /\ g \in Nat
      BY OthersTyped, StateFields, CoordinatorInputs, CoordinatorLimits
    <2>2. [mem.evidence EXCEPT !.gen[f] = g] \in Evidence
      BY <2>1 DEF Evidence, Generations
    <2> QED
      BY <1>5, <2>2, EvidenceStep DEF AdvanceFamily
  <1>6. ASSUME NEW c \in Caller, NEW a \in Attempt, NEW k \in KeyInput, InvalidateKey(c, a, k)
        PROVE  IInv' /\ Stepped
    BY <1>6, InvalidationStep
  <1>7. ASSUME NEW t \in Thread,
               \/ \E c \in Caller, s \in SetId : BeginRevalidate(t, c, s)
               \/ RefuseRevalidate(t)
               \/ CommitStale(t)
        PROVE  IInv' /\ Stepped
    BY <1>7, UnwrittenCallStep
  <1>8. ASSUME NEW t \in Thread, CommitEvaluate(t)
        PROVE  IInv' /\ Stepped
    BY <1>8, CommitStep
  <1>9. CASE Flush
    BY <1>9, FlushStep
  <1>10. CASE Crash
    BY <1>10, CrashStep
  <1>11. CASE Open
    BY <1>11, OpenStep
  <1>12. CASE UNCHANGED vars
    <2>1. TypeOK' /\ CallsInv' /\ CurrentProvenInThisEpoch' /\ StoreInv' /\ StateInv(mem')
      BY <1>12 DEF vars, IInv, TypeOK, CallsInv, CurrentProvenInThisEpoch, StoreInv
    <2> QED
      BY <1>12, <2>1 DEF vars, IInv
  <1> QED
    BY <1>1, <1>2, <1>3, <1>4, <1>5, <1>6, <1>7, <1>8, <1>9, <1>10, <1>11, <1>12 DEF Next

-----------------------------------------------------------------------------
(* Safety *)

\* Everything below follows from this invariant, through operations, failed
\* writes, crashes and openings in any order.
THEOREM Invariance == Spec => []IInv
  <1>1. IInv /\ [Next]_vars => IInv'
    BY NextHolds
  <1> QED
    BY <1>1, InitHolds, PTL DEF Spec

\* The type invariant of the coordinator, its store, its window of attempts and
\* its calls in progress.
THEOREM TypeCorrect == Spec => []TypeOK
  <1>1. IInv => TypeOK
    BY DEF IInv
  <1> QED
    BY <1>1, Invariance, PTL

\* A set has at most one current result for a path, so that rebuild_derived and
\* handoffs agree on it, whatever calls of evaluate overlap.
THEOREM CurrentIsUnique == Spec => []OneCurrentPerPath
  <1>1. IInv => OneCurrentPerPath
    BY DEF IInv, StateInv, OneCurrent, OneCurrentPerPath
  <1> QED
    BY <1>1, Invariance, PTL

\* While an open coordinator is durable, the definitions, results, populations
\* and evidence it answers from are those a restart would find: a write that
\* fails in Coordinator::persist applies none of them.
THEOREM AnswersFromStore == Spec => []MemoryMatchesStore
  <1>1. IInv => MemoryMatchesStore
    BY DEF IInv, StoreInv, SameAnswers, MemoryMatchesStore
  <1> QED
    BY <1>1, Invariance, PTL

\* Coordinator::open brings no result back as current, and no call that began
\* in an earlier incarnation commits: a current result is of this epoch.
THEOREM CurrentIsOfThisEpoch == Spec => []CurrentProvenInThisEpoch
  <1>1. IInv => CurrentProvenInThisEpoch
    BY DEF IInv
  <1> QED
    BY <1>1, Invariance, PTL

\* The watermark of an advanced family is never behind the evidence in force,
\* although apply_evidence_requirements moves it before the write that may fail
\* and a restart reads an older one.
THEOREM WatermarksCoverEvidence == Spec => []WatermarkCoversEvidence
  <1>1. IInv => WatermarkCoversEvidence
    BY DEF IInv, StateInv, WatermarksCover, WatermarkCoversEvidence
  <1> QED
    BY <1>1, Invariance, PTL

\* A current admissible result whose candidate is retained is sound: its set is
\* active and of the generation it was proven against, and the evidence it
\* consulted is in force, whatever ran between the two phases of evaluate.
THEOREM RetainedIsSound == Spec => []RetainedCurrentIsSound
  <1>1. IInv => RetainedCurrentIsSound
    BY DEF IInv, StateInv, AdmissibleMatches, MatchesSet, MatchesEvidence,
           RetainedCurrentIsSound, Sound
  <1> QED
    BY <1>1, Invariance, PTL

\* With room for the population of every constraint set (max_populations of the
\* coordinator's configuration is at least max_constraint_sets) every current
\* admissible result is sound: none loses the candidate that ties it to the
\* dependency keys an evidence advance looks for.
THEOREM EveryCurrentIsSound ==
    ASSUME MaxSets <= MaxPopulations
    PROVE  Spec => []CurrentIsSound
  <1>1. IInv => CurrentIsSound
    <2> SUFFICES ASSUME IInv, NEW r \in CurrentAdmissible(mem)
                 PROVE  Sound(mem, r)
      BY DEF CurrentIsSound
    <2>1. Retained(mem, r)
      BY DEF IInv, StateInv, NothingEvicted, CurrentAdmissible
    <2> QED
      BY <2>1 DEF IInv, StateInv, AdmissibleMatches, MatchesSet, MatchesEvidence, Sound
  <1> QED
    BY <1>1, Invariance, PTL

-----------------------------------------------------------------------------
(* Steps *)

\* Evidence and set generations, and the stored watermarks, never decrease:
\* not when a write fails after the watermarks moved, nor when a coordinator
\* opens on the watermarks an earlier write left.
THEOREM GenerationsGrow == Spec => GenerationsNeverDecrease
  <1>1. IInv /\ [Next]_vars =>
           [/\ \A f \in Family : mem'.evidence.gen[f] >= mem.evidence.gen[f]
            /\ \A s \in SetId : mem'.sets[s].generation >= mem.sets[s].generation
            /\ \A f \in Family : disk'.state.families[f] >= disk.state.families[f]
            /\ \A k \in KeyInput : disk'.state.keys[k] >= disk.state.keys[k]]_vars
    <2> SUFFICES ASSUME IInv, [Next]_vars
                 PROVE  /\ \A f \in Family : mem'.evidence.gen[f] >= mem.evidence.gen[f]
                        /\ \A s \in SetId : mem'.sets[s].generation >= mem.sets[s].generation
                        /\ \A f \in Family : disk'.state.families[f] >= disk.state.families[f]
                        /\ \A k \in KeyInput : disk'.state.keys[k] >= disk.state.keys[k]
      OBVIOUS
    <2>1. /\ IInv'
          /\ Stepped \/ Reopened \/ UNCHANGED <<mem, disk>>
      BY NextHolds
    <2>2. /\ mem \in State /\ mem' \in State /\ disk.state \in State /\ disk'.state \in State
      BY <2>1 DEF IInv, TypeOK
    <2>3. /\ \A f \in Family : /\ mem.evidence.gen[f] \in Nat /\ mem'.evidence.gen[f] \in Nat
                               /\ mem'.families[f] \in Nat /\ mem.families[f] \in Nat
                               /\ disk.state.families[f] \in Nat
          /\ \A s \in SetId : mem.sets[s].generation \in Nat /\ mem'.sets[s].generation \in Nat
          /\ \A k \in KeyInput : /\ disk.state.keys[k] \in Nat /\ mem.keys[k] \in Nat
                                 /\ mem'.keys[k] \in Nat
      BY <2>2, StateFields
    <2>4. CASE Stepped
      <3>1. /\ \A f \in Family : mem.evidence.gen[f] <= mem'.evidence.gen[f]
            /\ \A s \in SetId : mem.sets[s].generation <= mem'.sets[s].generation
            /\ WatermarksGrow(mem, mem')
        BY <2>4 DEF Stepped, Follows
      <3>2. WatermarksGrow(disk.state, mem)
        BY DEF IInv, StoreInv
      <3>3. disk' = disk \/ disk'.state = mem'
        BY <2>4 DEF Stepped, Wrote
      <3> QED
        BY <2>3, <3>1, <3>2, <3>3 DEF WatermarksGrow
    <2>5. CASE Reopened
      BY <2>3, <2>5 DEF Reopened
    <2>6. CASE UNCHANGED <<mem, disk>>
      BY <2>3, <2>6
    <2> QED
      BY <2>1, <2>4, <2>5, <2>6
  <1> QED
    BY <1>1, Invariance, PTL DEF Spec, GenerationsNeverDecrease

\* A retired set is served again only with a new generation, and no evaluation
\* that began before it was retired makes one of its paths admissible after it.
THEOREM RetiredForGood == Spec => RetiredStaysRetired
  <1>1. IInv /\ [Next]_vars =>
           [\A s \in SetId : mem.sets[s].state = "Retired" =>
              /\ \/ mem'.sets[s].state = "Retired"
                 \/ mem'.sets[s].generation > mem.sets[s].generation
              /\ \A r \in CurrentAdmissible(mem') :
                    r.set = s => r.setGeneration > mem.sets[s].generation]_vars
    <2> SUFFICES ASSUME IInv, [Next]_vars, NEW s \in SetId, mem.sets[s].state = "Retired"
                 PROVE  /\ \/ mem'.sets[s].state = "Retired"
                           \/ mem'.sets[s].generation > mem.sets[s].generation
                        /\ \A r \in CurrentAdmissible(mem') :
                              r.set = s => r.setGeneration > mem.sets[s].generation
      OBVIOUS
    <2>1. /\ IInv'
          /\ Stepped \/ Reopened \/ UNCHANGED <<mem, disk>>
      BY NextHolds
    <2>2. \/ mem'.sets[s].state = "Retired"
          \/ mem'.sets[s].generation > mem.sets[s].generation
      BY <2>1 DEF Stepped, Follows, Reopened
    <2>3. AdmissibleMatches(mem')
      BY <2>1 DEF IInv, StateInv
    <2> QED
      BY <2>2, <2>3 DEF AdmissibleMatches, MatchesSet
  <1> QED
    BY <1>1, Invariance, PTL DEF Spec, RetiredStaysRetired

\* Only the commit of a call turns it from evaluating to idle with a new memory:
\* a stale completion, a crash or another call's step does not.
LEMMA CommittedByCommit ==
    ASSUME IInv, [Next]_vars, NEW t \in Thread, Committed(t)
    PROVE  CommitEvaluate(t)
  <1>1. /\ thread[t].phase = "evaluating" /\ thread'[t].phase = "idle"
        /\ up' /\ mem' # mem
    BY DEF Committed
  <1>2. thread' # thread
    BY <1>1
  <1>3. DOMAIN thread = Thread
    BY DEF IInv, TypeOK
  <1>4. ASSUME NEW c \in Caller, RegisterCaller(c) \/ FenceCaller(c)
        PROVE  FALSE
    BY <1>2, <1>4 DEF RegisterCaller, FenceCaller
  <1>5. ASSUME NEW c \in Caller, NEW a \in Attempt, NEW s \in SetId,
               \/ \E d \in Definition, g \in CarriedInput : PublishConstraintSet(c, a, s, d, g)
               \/ \E event \in EventInput : ApplyLifecycle(c, a, s, event)
        PROVE  FALSE
    BY <1>2, <1>5 DEF PublishConstraintSet, ApplyLifecycle
  <1>6. ASSUME NEW c \in Caller, NEW a \in Attempt, NEW s \in SetId, NEW u \in Thread,
               NEW batch \in Batch, NEW expected \in ExpectedInput,
               BeginEvaluate(u, c, a, s, batch, expected)
        PROVE  FALSE
    <2>1. /\ thread[u].phase = "idle" \/ thread[u].phase = "population"
          /\ \A v \in Thread : v # u => thread'[v] = thread[v]
      BY <1>3, <1>6 DEF BeginEvaluate
    <2> QED
      BY <1>1, <2>1
  <1>7. ASSUME NEW c \in Caller, NEW a \in Attempt,
               \/ \E req \in RequirementInput : ApplyEvidenceRequirements(c, a, req)
               \/ \E f \in AdvancedFamily, g \in 1..MaxGeneration : AdvanceFamily(c, a, f, g)
               \/ \E k \in KeyInput : InvalidateKey(c, a, k)
        PROVE  FALSE
    BY <1>2, <1>7 DEF ApplyEvidenceRequirements, AdvanceFamily, InvalidateKey
  <1>8. ASSUME NEW u \in Thread,
               \/ \E c \in Caller, s \in SetId : BeginRevalidate(u, c, s)
               \/ RefuseRevalidate(u)
               \/ CommitStale(u)
        PROVE  FALSE
    BY <1>1, <1>8 DEF BeginRevalidate, RefuseRevalidate, CommitStale
  <1>9. ASSUME NEW u \in Thread, CommitEvaluate(u)
        PROVE  CommitEvaluate(t)
    <2>1. thread' = [thread EXCEPT ![u] = Idle]
      BY <1>9 DEF CommitEvaluate
    <2> QED
      BY <1>1, <1>3, <1>9, <2>1
  <1>10. CASE Flush \/ Crash \/ Open \/ UNCHANGED vars
    BY <1>1, <1>2, <1>10 DEF Flush, Crash, Open, vars
  <1> QED
    BY <1>4, <1>5, <1>6, <1>7, <1>8, <1>9, <1>10 DEF Next

\* The trim in Phase three of evaluate leaves a bounded history, unless current
\* results alone exceed the limit, and takes no current result of another set.
THEOREM HistoryIsBounded == Spec => CommitBoundsHistory
  <1>1. IInv /\ [Next]_vars =>
           [\A t \in Thread : Committed(t) =>
              /\ \/ Cardinality(mem'.results) <= MaxEvaluations
                 \/ \A r \in mem'.results : r.state = "Current"
              /\ \A r \in mem.results :
                    r.set # thread[t].set /\ r.state = "Current" => r \in mem'.results]_vars
    <2> SUFFICES ASSUME IInv, [Next]_vars, NEW t \in Thread, Committed(t)
                 PROVE  /\ \/ Cardinality(mem'.results) <= MaxEvaluations
                           \/ \A r \in mem'.results : r.state = "Current"
                        /\ \A r \in mem.results :
                              r.set # thread[t].set /\ r.state = "Current" => r \in mem'.results
      OBVIOUS
    <2>1. CommitEvaluate(t)
      BY CommittedByCommit
    <2>2. mem' # mem
      BY DEF Committed
    <2> QED
      BY <2>1, <2>2, CommitStep
  <1> QED
    BY <1>1, Invariance, PTL DEF Spec, CommitBoundsHistory

\* Only an applied set of evidence requirements changes the evidence, and the
\* results it reduces are those that depend on an advanced family.
LEMMA EvidenceMoves ==
    ASSUME IInv, [Next]_vars, mem'.evidence # mem.evidence
    PROVE  \E req \in Evidence :
              /\ mem'.evidence = req
              /\ mem'.results = Demoted(mem.results, UNION {DependentsOfFamily(mem, f) :
                                                              f \in AdvancedBy(req)})
  <1> DEFINE Moves(req) ==
                /\ mem'.evidence = req
                /\ mem'.results = Demoted(mem.results, UNION {DependentsOfFamily(mem, f) :
                                                                f \in AdvancedBy(req)})
  <1> SUFFICES \E req \in Evidence : Moves(req)
    OBVIOUS
  <1>1. mem \in State /\ mem' # mem
    BY DEF IInv, TypeOK
  <1>2. ASSUME NEW next, Publish(next), next.evidence = mem.evidence
        PROVE  FALSE
    BY <1>1, <1>2 DEF Publish
  <1>3. ASSUME NEW c \in Caller, RegisterCaller(c) \/ FenceCaller(c)
        PROVE  FALSE
    BY <1>1, <1>3 DEF RegisterCaller, FenceCaller
  <1>4. ASSUME NEW c \in Caller, NEW a \in Attempt, NEW s \in SetId,
               NEW d \in Definition, NEW g \in CarriedInput, PublishConstraintSet(c, a, s, d, g)
        PROVE  FALSE
    <2> DEFINE next == [mem EXCEPT !.sets[s] = Published(s, d, g),
                                   !.results = Demoted(@, ResultsOf(mem, s))]
    <2>1. next.evidence = mem.evidence
      BY <1>1 DEF State
    <2>2. Publish(next) \/ UNCHANGED mem
      BY <1>4 DEF PublishConstraintSet
    <2> HIDE DEF next
    <2> QED
      BY <1>1, <1>2, <2>1, <2>2
  <1>5. ASSUME NEW c \in Caller, NEW a \in Attempt, NEW s \in SetId,
               NEW event \in EventInput, ApplyLifecycle(c, a, s, event)
        PROVE  FALSE
    <2> DEFINE state == NextState(mem.sets[s].state, event)
               next == [mem EXCEPT !.sets[s].state = state,
                                   !.results = IF state = "Active"
                                               THEN @ ELSE Demoted(@, ResultsOf(mem, s))]
    <2>1. next.evidence = mem.evidence
      BY <1>1 DEF State
    <2>2. Publish(next) \/ UNCHANGED mem
      BY <1>5 DEF ApplyLifecycle
    <2> HIDE DEF next
    <2> QED
      BY <1>1, <1>2, <2>1, <2>2
  <1>6. ASSUME NEW c \in Caller, NEW a \in Attempt, NEW s \in SetId, NEW t \in Thread,
               NEW batch \in Batch, NEW expected \in ExpectedInput,
               BeginEvaluate(t, c, a, s, batch, expected)
        PROVE  FALSE
    <2>1. mem' = [mem EXCEPT !.last = @ + 1] \/ UNCHANGED mem
      BY <1>6 DEF BeginEvaluate
    <2> QED
      BY <1>1, <2>1 DEF State
  <1>7. ASSUME NEW c \in Caller, NEW a \in Attempt, NEW req \in Evidence,
               ApplyEvidenceRequirements(c, a, req)
        PROVE  Moves(req)
    <2> DEFINE targets == UNION {DependentsOfFamily(mem, f) : f \in AdvancedBy(req)}
               next == [mem EXCEPT !.evidence = req,
                                   !.families = Watermarked(req),
                                   !.results = Demoted(@, targets)]
               moved == [mem EXCEPT !.families = Watermarked(req)]
    <2>1. UNCHANGED mem \/ mem' = moved \/ mem' = next
      BY <1>7 DEF ApplyEvidenceRequirements
    <2>2. /\ moved.evidence = mem.evidence
          /\ next.evidence = req /\ next.results = Demoted(mem.results, targets)
      BY <1>1 DEF State
    <2> HIDE DEF next, moved
    <2> QED
      BY <1>1, <2>1, <2>2
  <1>8. ASSUME NEW c \in Caller, NEW a \in Attempt, NEW f \in AdvancedFamily,
               NEW g \in 1..MaxGeneration, AdvanceFamily(c, a, f, g)
        PROVE  \E req \in Evidence : Moves(req)
    <2>1. mem.evidence \in Evidence /\ f \in Family /\ g \in Nat
      BY OthersTyped, StateFields, CoordinatorInputs, CoordinatorLimits
    <2>2. [mem.evidence EXCEPT !.gen[f] = g] \in Evidence
      BY <2>1 DEF Evidence, Generations
    <2> HIDE DEF Moves
    <2> QED
      BY <1>7, <1>8, <2>2 DEF AdvanceFamily
  <1>9. ASSUME NEW c \in Caller, NEW a \in Attempt, NEW k \in KeyInput, InvalidateKey(c, a, k)
        PROVE  FALSE
    <2> DEFINE moved == [mem EXCEPT !.keys[k] = sequence + 1]
               next == [moved EXCEPT !.results = Demoted(@, DependentsOfKey(mem, k))]
    <2>1. UNCHANGED mem \/ mem' = moved \/ mem' = next
      BY <1>9 DEF InvalidateKey
    <2>2. moved.evidence = mem.evidence /\ next.evidence = mem.evidence
      BY <1>1 DEF State
    <2> HIDE DEF next, moved
    <2> QED
      BY <1>1, <2>1, <2>2
  <1>10. ASSUME NEW t \in Thread,
                \/ \E c \in Caller, s \in SetId : BeginRevalidate(t, c, s)
                \/ RefuseRevalidate(t)
                \/ CommitStale(t)
         PROVE  FALSE
    BY <1>1, <1>10 DEF BeginRevalidate, RefuseRevalidate, CommitStale
  <1>11. ASSUME NEW t \in Thread, CommitEvaluate(t)
         PROVE  FALSE
    <2>1. PICK late, victims : Publish(CommitOf(thread[t], late, victims))
      BY <1>11 DEF CommitEvaluate, AllResults, CommitOf
    <2>2. CommitOf(thread[t], late, victims).evidence = mem.evidence
      BY <1>1 DEF State, CommitOf
    <2> QED
      BY <1>2, <2>1, <2>2
  <1>12. CASE Flush \/ Crash \/ UNCHANGED vars
    BY <1>1, <1>12 DEF Flush, Crash, vars
  <1>13. CASE Open
    BY <1>13, OpenStep DEF Reopened
  <1> HIDE DEF Moves
  <1>14. ASSUME NEW c \in Caller, NEW a \in Attempt, NEW req \in RequirementInput,
                ApplyEvidenceRequirements(c, a, req)
         PROVE  \E x \in Evidence : Moves(x)
    BY <1>7, <1>14, CoordinatorInputs
  <1> QED
    BY <1>3, <1>4, <1>5, <1>6, <1>8, <1>9, <1>10, <1>11, <1>12, <1>13, <1>14 DEF Next

\* apply_evidence_requirements reduces only current results that consulted an
\* advanced family, or for topology one whose nodes and links they bind: the
\* results of other families stay as they are.
THEOREM InvalidationIsPrecise == Spec => PreciseInvalidation
  <1>1. IInv /\ [Next]_vars =>
           [\A r \in mem.results :
              /\ r.state = "Current"
              /\ mem'.evidence # mem.evidence
              /\ [r EXCEPT !.state = "RevalidationRequired"] \in mem'.results
              => \E f \in Family :
                    /\ mem'.evidence.gen[f] > mem.evidence.gen[f]
                    /\ \/ f \in r.consulted
                       \/ f = "Topology" /\ {"Capability", "FailureDomain"} \cap r.consulted # {}]_vars
    <2> SUFFICES ASSUME IInv, [Next]_vars, NEW r \in mem.results, r.state = "Current",
                        mem'.evidence # mem.evidence,
                        [r EXCEPT !.state = "RevalidationRequired"] \in mem'.results
                 PROVE  \E f \in Family :
                           /\ mem'.evidence.gen[f] > mem.evidence.gen[f]
                           /\ \/ f \in r.consulted
                              \/ /\ f = "Topology"
                                 /\ {"Capability", "FailureDomain"} \cap r.consulted # {}
      OBVIOUS
    <2> DEFINE low == [r EXCEPT !.state = "RevalidationRequired"]
    <2>1. PICK req \in Evidence :
             /\ mem'.evidence = req
             /\ mem'.results = Demoted(mem.results, UNION {DependentsOfFamily(mem, f) :
                                                             f \in AdvancedBy(req)})
      BY EvidenceMoves
    <2> DEFINE targets == UNION {DependentsOfFamily(mem, f) : f \in AdvancedBy(req)}
    <2>2. mem.results \in SUBSET Result /\ UniqueIds(mem)
      BY StateFields DEF IInv, TypeOK, StateInv
    <2>3. Id(low) = Id(r) /\ low # r /\ r.consulted \in SUBSET Family
      BY <2>2, ResultFields DEF ResultState
    <2>4. PICK q \in mem.results : Id(low) = Id(q) /\ (low = q \/ q \in targets)
      <3> HIDE DEF targets, low
      <3>1. low \in Demoted(mem.results, targets)
        BY <2>1 DEF targets, low
      <3>2. PICK q \in mem.results :
               low = IF q \in targets /\ q.state = "Current"
                     THEN [q EXCEPT !.state = "RevalidationRequired"] ELSE q
        BY <3>1 DEF Demoted
      <3>3. Id([q EXCEPT !.state = "RevalidationRequired"]) = Id(q)
        BY <2>2, ResultFields DEF ResultState
      <3> QED
        BY <3>2, <3>3
    <2>5. r \in targets
      BY <2>2, <2>3, <2>4 DEF UniqueIds
    <2>6. PICK f \in AdvancedBy(req) : r \in DependentsOfFamily(mem, f)
      BY <2>5
    <2>7. f \in Family /\ mem'.evidence.gen[f] > mem.evidence.gen[f]
      BY <2>1, <2>6 DEF AdvancedBy
    <2> QED
      BY <2>3, <2>6, <2>7, DependentConsulted
  <1> QED
    BY <1>1, Invariance, PTL DEF Spec, PreciseInvalidation

-----------------------------------------------------------------------------
(* Retries *)

\* MutationsUpTo of any numbers, and its bound.
Mutations(n, k, g) ==
    {<<"evaluate", i>> : i \in 1..n}
        \cup {<<"invalidate", i>> : i \in 1..k}
        \cup UNION {{<<"publish", s, i>> : i \in 1..g[s]} : s \in SetId}

Within(n, k, g, l) ==
    IsFiniteSet(Mutations(n, k, g)) /\ Cardinality(Mutations(n, k, g)) <= l

LEMMA OneMore ==
    ASSUME NEW S, IsFiniteSet(S), NEW x, NEW T, T \subseteq S \cup {x}
    PROVE  IsFiniteSet(T) /\ Cardinality(T) <= Cardinality(S) + 1
  <1>1. IsFiniteSet(S \cup {x})
    BY FS_AddElement
  <1>2. Cardinality(S \cup {x}) = Cardinality(S) \/ Cardinality(S \cup {x}) = Cardinality(S) + 1
    BY FS_AddElement
  <1>3. IsFiniteSet(T) /\ Cardinality(T) <= Cardinality(S \cup {x})
    BY <1>1, FS_Subset
  <1>4. Cardinality(T) \in Nat /\ Cardinality(S) \in Nat /\ Cardinality(S \cup {x}) \in Nat
    BY <1>1, <1>3, FS_CardinalityType
  <1> QED
    BY <1>2, <1>3, <1>4

\* Each mutation is one more.
LEMMA WithinOneMore ==
    ASSUME NEW n \in Nat, NEW k \in Nat, NEW g \in [SetId -> Nat], NEW l \in Nat,
           Within(n, k, g, l)
    PROVE  /\ Within(n + 1, k, g, l + 1)
           /\ Within(n, k + 1, g, l + 1)
           /\ \A s \in SetId : Within(n, k, [g EXCEPT ![s] = g[s] + 1], l + 1)
           /\ \A m \in Nat : l <= m => Within(n, k, g, m)
  <1> DEFINE S == Mutations(n, k, g)
  <1>1. IsFiniteSet(S) /\ Cardinality(S) \in Nat /\ Cardinality(S) <= l
    BY FS_CardinalityType DEF Within
  <1>2. ASSUME NEW T, NEW x, T \subseteq S \cup {x}
        PROVE  IsFiniteSet(T) /\ Cardinality(T) <= l + 1
    <2>1. IsFiniteSet(T) /\ Cardinality(T) <= Cardinality(S) + 1
      BY <1>1, <1>2, OneMore
    <2>2. Cardinality(T) \in Nat
      BY <2>1, FS_CardinalityType
    <2> QED
      BY <1>1, <2>1, <2>2
  <1>3. Mutations(n + 1, k, g) \subseteq S \cup {<<"evaluate", n + 1>>}
    <2>1. 1..(n + 1) = 1..n \cup {n + 1}
      OBVIOUS
    <2> QED
      BY <2>1 DEF Mutations
  <1>4. Mutations(n, k + 1, g) \subseteq S \cup {<<"invalidate", k + 1>>}
    <2>1. 1..(k + 1) = 1..k \cup {k + 1}
      OBVIOUS
    <2> QED
      BY <2>1 DEF Mutations
  <1>5. ASSUME NEW s \in SetId
        PROVE  Mutations(n, k, [g EXCEPT ![s] = g[s] + 1]) \subseteq S \cup {<<"publish", s, g[s] + 1>>}
    <2> DEFINE h == [g EXCEPT ![s] = g[s] + 1]
    <2>1. \A q \in SetId : 1..h[q] \subseteq 1..g[q] \cup (IF q = s THEN {g[s] + 1} ELSE {})
      OBVIOUS
    <2> HIDE DEF h
    <2>2. \A q \in SetId : {<<"publish", q, i>> : i \in 1..h[q]} \subseteq S \cup {<<"publish", s, g[s] + 1>>}
      BY <2>1 DEF Mutations
    <2>3. Mutations(n, k, h) \subseteq S \cup {<<"publish", s, g[s] + 1>>}
      BY <2>2 DEF Mutations
    <2> QED
      BY <2>3 DEF h
  <1> HIDE DEF S
  <1>6. Within(n + 1, k, g, l + 1) /\ Within(n, k + 1, g, l + 1)
    BY <1>2, <1>3, <1>4 DEF Within
  <1>7. \A s \in SetId : Within(n, k, [g EXCEPT ![s] = g[s] + 1], l + 1)
    BY <1>2, <1>5 DEF Within
  <1>8. \A m \in Nat : l <= m => Within(n, k, g, m)
    BY <1>1 DEF Within, S
  <1> QED
    BY <1>6, <1>7, <1>8

\* The window remembers every attempt identity: none is used outside it, and it
\* has room for all.
Remembering ==
    /\ ~Durable
    /\ Unique \notin Attempt
    /\ IsFiniteSet(Attempt) /\ Cardinality(Attempt) <= MaxAttempts

\* The window names an attempt once.
Distinct(window) == \A i, j \in DOMAIN window : window[i].attempt = window[j].attempt => i = j

\* A fresh attempt finds room in the window, and a known one changes nothing.
LEMMA Remembers ==
    ASSUME IInv, Remembering, Distinct(attempts), NEW a \in Attempt, NEW payload \in Payload,
           Remember(a, payload)
    PROVE  /\ Distinct(attempts')
           /\ Len(attempts) \in Nat /\ Len(attempts') \in Nat /\ Len(attempts') >= Len(attempts)
           /\ VerdictOf(a, payload) = "Fresh" => Len(attempts') = Len(attempts) + 1
  <1> DEFINE Seen == [attempt : Attempt, payload : Payload]
             entry == [attempt |-> a, payload |-> payload]
             n == Len(attempts)
  <1>1. attempts \in Seq(Seen) /\ n \in Nat /\ DOMAIN attempts = 1..n
    BY OthersTyped, LenProperties
  <1>2. a # Unique
    BY DEF Remembering
  <1>3. attempts' = Observe(attempts, a, payload, MaxAttempts)
        /\ VerdictOf(a, payload) = Verdict(attempts, a, payload)
    BY <1>2 DEF Remember, VerdictOf
  <1>4. CASE Verdict(attempts, a, payload) # "Fresh"
    <2>1. attempts' = attempts
      BY <1>3, <1>4 DEF Observe
    <2>2. VerdictOf(a, payload) # "Fresh"
      BY <1>3, <1>4
    <2>3. Distinct(attempts')
      BY <2>1
    <2>4. Len(attempts') = n /\ n \in Nat
      BY <1>1, <2>1
    <2> QED
      BY <2>2, <2>3, <2>4
  <1>5. CASE Verdict(attempts, a, payload) = "Fresh"
    <2>1. \A i \in 1..n : attempts[i].attempt # a
      BY <1>1, <1>5 DEF Verdict
    <2>2. n < MaxAttempts
      <3> DEFINE f == [i \in 1..n |-> attempts[i].attempt]
      <3>1. \A i \in 1..n : attempts[i].attempt \in Attempt \ {a}
        <4>1. \A i \in 1..n : attempts[i] \in Seen
          <5> HIDE DEF Seen, n
          <5> QED
            BY <1>1, ElementOfSeq DEF n
        <4> QED
          BY <2>1, <4>1
      <3>2. f \in Injection(1..n, Attempt \ {a})
        BY <1>1, <3>1 DEF Injection, IsInjective, Distinct
      <3>3. IsFiniteSet(Attempt \ {a}) /\ Cardinality(Attempt \ {a}) = Cardinality(Attempt) - 1
        BY FS_RemoveElement DEF Remembering
      <3>4. Cardinality(1..n) <= Cardinality(Attempt \ {a})
        BY <3>2, <3>3, FS_Injection
      <3>5. Cardinality(1..n) = n
        BY <1>1, FS_Interval, SMTT(60)
      <3>6. Cardinality(Attempt) \in Nat
        BY FS_CardinalityType DEF Remembering
      <3> QED
        BY <1>1, <3>3, <3>4, <3>5, <3>6, CoordinatorLimits DEF Remembering
    <2>3. attempts' = Append(attempts, entry)
      BY <1>1, <1>3, <1>5, <2>2, CoordinatorLimits DEF Observe
    <2>4. entry \in Seen /\ entry.attempt = a
      OBVIOUS
    <2> HIDE DEF entry, Seen
    <2>5. /\ attempts' \in Seq(Seen) /\ Len(attempts') = n + 1
          /\ \A i \in 1..n : attempts'[i] = attempts[i]
          /\ attempts'[n + 1] = entry
      BY <1>1, <2>3, <2>4, AppendProperties
    <2>6. DOMAIN attempts' = 1..(n + 1)
      BY <2>5, LenProperties
    <2>7. Distinct(attempts')
      <3> SUFFICES ASSUME NEW i \in 1..(n + 1), NEW j \in 1..(n + 1),
                          attempts'[i].attempt = attempts'[j].attempt
                   PROVE  i = j
        BY <2>6 DEF Distinct
      <3>1. CASE i \in 1..n /\ j \in 1..n
        BY <1>1, <2>5, <3>1 DEF Distinct
      <3>2. CASE i = n + 1 \/ j = n + 1
        BY <1>1, <2>1, <2>4, <2>5, <3>2
      <3> QED
        BY <1>1, <3>1, <3>2
    <2> QED
      BY <1>1, <2>5, <2>7
  <1> QED
    BY <1>4, <1>5


GenerationsOf(st) == [s \in SetId |-> st.sets[s].generation]

\* An evaluation that began before the last one commits its own number, so the
\* numbers of the calls in progress are bounded with the last one.
Numbers == {mem.last} \cup {thread[t].generation : t \in {q \in Thread : thread[q].phase = "evaluating"}}

RetryInv ==
    /\ up
    /\ Distinct(attempts)
    /\ \A n \in Numbers : Within(n, sequence, GenerationsOf(mem), Len(attempts))

LEMMA RetryFacts ==
    ASSUME IInv
    PROVE  /\ GenerationsOf(mem) \in [SetId -> Nat] /\ sequence \in Nat /\ Len(attempts) \in Nat
           /\ mem.last \in Nat /\ Numbers \subseteq Nat
  <1>1. GenerationsOf(mem) \in [SetId -> Nat] /\ mem.last \in Nat
    BY OthersTyped, StateFields DEF GenerationsOf
  <1>2. sequence \in Nat /\ Len(attempts) \in Nat
    BY OthersTyped, LenProperties
  <1>3. \A t \in Thread : thread[t].phase = "evaluating" => thread[t].generation \in Nat
    <2> SUFFICES ASSUME NEW t \in Thread, thread[t].phase = "evaluating"
                 PROVE  thread[t].generation \in Nat
      OBVIOUS
    <2>1. thread[t] \in {Idle} \cup PopulationPhase \cup EvaluatingPhase
      BY OthersTyped
    <2>2. thread[t] \in EvaluatingPhase
      BY <2>1 DEF Idle, PopulationPhase
    <2> QED
      BY <2>2 DEF EvaluatingPhase
  <1> QED
    BY <1>1, <1>2, <1>3 DEF Numbers

\* A step that numbers nothing new.
LEMMA NothingNumbered ==
    ASSUME IInv, RetryInv, up', Distinct(attempts'), Len(attempts') \in Nat,
           Len(attempts') >= Len(attempts), sequence' = sequence,
           GenerationsOf(mem') = GenerationsOf(mem), Numbers' \subseteq Numbers
    PROVE  RetryInv'
  <1>1. \A n \in Numbers' : Within(n, sequence, GenerationsOf(mem), Len(attempts'))
    BY RetryFacts, WithinOneMore DEF RetryInv
  <1> QED
    BY <1>1 DEF RetryInv

\* What writing does to the generations.
LEMMA PublishNumbers ==
    ASSUME NEW next, Publish(next)
    PROVE  mem' = next \/ mem' = mem
  BY DEF Publish

LEMMA DefinitionsNumber ==
    ASSUME IInv, RetryInv, Remembering, NEW c \in Caller, NEW a \in Attempt, NEW s \in SetId,
           \/ \E d \in Definition, g \in CarriedInput : PublishConstraintSet(c, a, s, d, g)
           \/ \E event \in EventInput : ApplyLifecycle(c, a, s, event)
    PROVE  RetryInv'
  <1>1. ASSUME NEW d \in Definition, NEW g \in CarriedInput, PublishConstraintSet(c, a, s, d, g)
        PROVE  RetryInv'
    <2> DEFINE payload == <<"publish", s, Content[d].constraints>>
               next == [mem EXCEPT !.sets[s] = Published(s, d, g),
                                   !.results = Demoted(@, ResultsOf(mem, s))]
    <2>1. /\ up' = up /\ sequence' = sequence /\ thread' = thread
          /\ Remember(a, payload) /\ VerdictOf(a, payload) = "Fresh"
          /\ mem' = mem \/ mem' = next
      BY <1>1, PublishNumbers DEF PublishConstraintSet
    <2>2. payload \in Payload
      BY CoordinatorInputs DEF Payload, ContentType
    <2>3. /\ mem.sets[s] \in SetRecord /\ mem.sets \in [SetId -> SetRecord] /\ mem \in State
          /\ mem.sets[s].generation \in Nat
      BY OthersTyped, StateFields
    <2>4. \/ Published(s, d, g).generation = mem.sets[s].generation
          \/ Published(s, d, g).generation = mem.sets[s].generation + 1
      BY <2>3 DEF Published, Known
    <2>5. next.last = mem.last /\ \A q \in SetId : next.sets[q] = IF q = s THEN Published(s, d, g) ELSE mem.sets[q]
      BY <2>3 DEF State
    <2> HIDE DEF next, payload
    <2>6. Distinct(attempts') /\ Len(attempts') = Len(attempts) + 1
      BY <2>1, <2>2, Remembers DEF RetryInv
    <2>7. Numbers' = Numbers
      BY <2>1, <2>5 DEF Numbers
    <2>8. CASE GenerationsOf(mem') = GenerationsOf(mem)
      BY <2>1, <2>6, <2>7, <2>8, RetryFacts, NothingNumbered DEF RetryInv
    <2>9. CASE GenerationsOf(mem') # GenerationsOf(mem)
      <3>1. mem' = next
        BY <2>1, <2>9
      <3>2. Published(s, d, g).generation = mem.sets[s].generation + 1
        BY <2>4, <2>5, <2>9, <3>1 DEF GenerationsOf
      <3>3. GenerationsOf(mem') = [GenerationsOf(mem) EXCEPT ![s] = GenerationsOf(mem)[s] + 1]
        BY <2>5, <3>1, <3>2 DEF GenerationsOf
      <3> DEFINE h == GenerationsOf(mem)
                 l == Len(attempts)
      <3>4. \A n \in Numbers : Within(n, sequence, GenerationsOf(mem'), l + 1)
        <4>1. /\ h \in [SetId -> Nat] /\ sequence \in Nat /\ l \in Nat /\ Numbers \subseteq Nat
              /\ \A n \in Numbers : Within(n, sequence, h, l)
          BY RetryFacts DEF RetryInv
        <4>2. GenerationsOf(mem') = [h EXCEPT ![s] = h[s] + 1]
          BY <3>3
        <4> HIDE DEF h, l
        <4>3. \A n \in Numbers : Within(n, sequence, [h EXCEPT ![s] = h[s] + 1], l + 1)
          BY <4>1, WithinOneMore
        <4> QED
          BY <4>2, <4>3
      <3> QED
        BY <2>1, <2>6, <2>7, <3>4 DEF RetryInv
    <2> QED
      BY <2>8, <2>9
  <1>2. ASSUME NEW event \in EventInput, ApplyLifecycle(c, a, s, event)
        PROVE  RetryInv'
    <2> DEFINE payload == <<"lifecycle", s, event>>
               state == NextState(mem.sets[s].state, event)
               next == [mem EXCEPT !.sets[s].state = state,
                                   !.results = IF state = "Active"
                                               THEN @ ELSE Demoted(@, ResultsOf(mem, s))]
    <2>1. /\ up' = up /\ sequence' = sequence /\ thread' = thread
          /\ Remember(a, payload)
          /\ mem' = mem \/ mem' = next
      BY <1>2, PublishNumbers DEF ApplyLifecycle
    <2>2. payload \in Payload
      BY CoordinatorInputs DEF Payload
    <2>3. mem \in State /\ mem.sets \in [SetId -> SetRecord] /\ mem.sets[s] \in SetRecord
      BY OthersTyped, StateFields
    <2> HIDE DEF state
    <2>4. next.last = mem.last /\ next.sets = [mem.sets EXCEPT ![s].state = state]
      BY <2>3 DEF State
    <2> HIDE DEF next, payload
    <2>5. \A q \in SetId : next.sets[q].generation = mem.sets[q].generation
      BY <2>3, <2>4 DEF SetRecord
    <2>6. GenerationsOf(mem') = GenerationsOf(mem) /\ Numbers' = Numbers
      BY <2>1, <2>4, <2>5 DEF GenerationsOf, Numbers
    <2>7. Distinct(attempts') /\ Len(attempts') \in Nat /\ Len(attempts') >= Len(attempts)
      BY <2>1, <2>2, Remembers DEF RetryInv
    <2> QED
      BY <2>1, <2>6, <2>7, NothingNumbered DEF RetryInv
  <1> QED
    BY <1>1, <1>2

LEMMA EvidenceNumbers ==
    ASSUME IInv, RetryInv, Remembering, NEW c \in Caller, NEW a \in Attempt, NEW req \in Evidence,
           ApplyEvidenceRequirements(c, a, req)
    PROVE  RetryInv'
  <1> DEFINE payload == <<"evidence", req>>
  <1>1. /\ up' = up /\ sequence' = sequence /\ thread' = thread
        /\ Remember(a, payload)
    BY DEF ApplyEvidenceRequirements
  <1>2. mem \in State
    BY OthersTyped
  <1>3. mem'.sets = mem.sets /\ mem'.last = mem.last
    BY <1>2 DEF ApplyEvidenceRequirements, State
  <1>4. payload \in Payload
    BY DEF Payload
  <1> HIDE DEF payload
  <1>5. GenerationsOf(mem') = GenerationsOf(mem) /\ Numbers' = Numbers
    BY <1>1, <1>3 DEF GenerationsOf, Numbers
  <1>6. Distinct(attempts') /\ Len(attempts') \in Nat /\ Len(attempts') >= Len(attempts)
    BY <1>1, <1>4, Remembers DEF RetryInv
  <1> QED
    BY <1>1, <1>5, <1>6, NothingNumbered DEF RetryInv

LEMMA InvalidationNumbers ==
    ASSUME IInv, RetryInv, Remembering, NEW c \in Caller, NEW a \in Attempt, NEW k \in KeyInput,
           InvalidateKey(c, a, k)
    PROVE  RetryInv'
  <1> DEFINE payload == <<"invalidate", k>>
  <1>1. /\ up' = up /\ sequence' = sequence + 1 /\ thread' = thread
        /\ Remember(a, payload) /\ VerdictOf(a, payload) = "Fresh"
    BY DEF InvalidateKey
  <1>2. mem \in State
    BY OthersTyped
  <1>3. mem'.sets = mem.sets /\ mem'.last = mem.last
    BY <1>2 DEF InvalidateKey, State
  <1>4. payload \in Payload
    BY DEF Payload
  <1> HIDE DEF payload
  <1>5. GenerationsOf(mem') = GenerationsOf(mem) /\ Numbers' = Numbers
    BY <1>1, <1>3 DEF GenerationsOf, Numbers
  <1>6. Distinct(attempts') /\ Len(attempts') = Len(attempts) + 1
    BY <1>1, <1>4, Remembers DEF RetryInv
  <1>7. \A n \in Numbers : Within(n, sequence + 1, GenerationsOf(mem), Len(attempts) + 1)
    BY RetryFacts, WithinOneMore DEF RetryInv
  <1> QED
    BY <1>1, <1>5, <1>6, <1>7 DEF RetryInv

LEMMA BeginNumbers ==
    ASSUME IInv, RetryInv, Remembering, NEW c \in Caller, NEW a \in Attempt, NEW s \in SetId,
           NEW t \in Thread, NEW batch \in Batch, NEW expected \in ExpectedInput,
           BeginEvaluate(t, c, a, s, batch, expected)
    PROVE  RetryInv'
  <1> DEFINE payload == <<"evaluate", s, batch, expected,
                          mem.evidence.gen["Topology"], mem.evidence.gen["Capability"]>>
             call == [phase |-> "evaluating", set |-> s, batch |-> batch, expected |-> expected,
                      snapshot |-> mem.sets[s], evidence |-> mem.evidence,
                      generation |-> mem.last + 1, boot |-> c, epoch |-> epoch,
                      keys |-> mem.keys]
  <1>1. /\ up' = up /\ sequence' = sequence /\ Remember(a, payload)
        /\ \/ /\ VerdictOf(a, payload) = "Fresh"
              /\ mem' = [mem EXCEPT !.last = @ + 1]
              /\ thread' = [thread EXCEPT ![t] = call]
           \/ thread' = [thread EXCEPT ![t] = Idle] /\ mem' = mem
    BY DEF BeginEvaluate
  <1>2. mem \in State /\ mem.last \in Nat /\ thread \in [Thread -> {Idle} \cup PopulationPhase \cup EvaluatingPhase]
    BY OthersTyped, StateFields
  <1>3. payload \in Payload
    <2>1. "Topology" \in Family /\ "Capability" \in Family
      BY DEF Family
    <2>2. mem.evidence.gen["Topology"] \in Nat /\ mem.evidence.gen["Capability"] \in Nat
      BY <1>2, <2>1, StateFields
    <2> QED
      BY <2>2, CoordinatorInputs DEF Payload
  <1>4. call.phase = "evaluating" /\ call.generation = mem.last + 1
    OBVIOUS
  <1> HIDE DEF payload, call
  <1>5. /\ Distinct(attempts') /\ Len(attempts') \in Nat /\ Len(attempts') >= Len(attempts)
        /\ VerdictOf(a, payload) = "Fresh" => Len(attempts') = Len(attempts) + 1
    BY <1>1, <1>3, Remembers DEF RetryInv
  <1>6. CASE thread' = [thread EXCEPT ![t] = Idle] /\ mem' = mem
    <2>1. Numbers' \subseteq Numbers
      BY <1>2, <1>6, IdleCall DEF Numbers
    <2>2. GenerationsOf(mem') = GenerationsOf(mem)
      BY <1>6
    <2> QED
      BY <1>1, <1>5, <2>1, <2>2, NothingNumbered DEF RetryInv
  <1>7. CASE /\ VerdictOf(a, payload) = "Fresh"
             /\ mem' = [mem EXCEPT !.last = @ + 1]
             /\ thread' = [thread EXCEPT ![t] = call]
    <2>1. mem'.last = mem.last + 1 /\ mem'.sets = mem.sets
      BY <1>2, <1>7 DEF State
    <2>2. GenerationsOf(mem') = GenerationsOf(mem)
      BY <2>1 DEF GenerationsOf
    <2>3. Numbers' \subseteq Numbers \cup {mem.last + 1}
      BY <1>2, <1>4, <1>7, <2>1 DEF Numbers
    <2>4. mem.last \in Numbers
      BY DEF Numbers
    <2>5. Within(mem.last + 1, sequence, GenerationsOf(mem), Len(attempts) + 1)
      BY <2>4, RetryFacts, WithinOneMore DEF RetryInv
    <2>6. Len(attempts') = Len(attempts) + 1
      BY <1>5, <1>7
    <2>7. \A n \in Numbers : Within(n, sequence, GenerationsOf(mem), Len(attempts'))
      BY <1>5, RetryFacts, WithinOneMore DEF RetryInv
    <2>8. \A n \in Numbers' : Within(n, sequence, GenerationsOf(mem), Len(attempts'))
      BY <2>3, <2>5, <2>6, <2>7
    <2> QED
      BY <1>1, <1>5, <2>2, <2>8 DEF RetryInv
  <1> QED
    BY <1>1, <1>6, <1>7

LEMMA CallsNumber ==
    ASSUME IInv, RetryInv, NEW t \in Thread,
           \/ \E c \in Caller, s \in SetId : BeginRevalidate(t, c, s)
           \/ RefuseRevalidate(t) \/ CommitStale(t) \/ CommitEvaluate(t)
    PROVE  RetryInv'
  <1>1. up' = up /\ sequence' = sequence /\ attempts' = attempts
    BY DEF BeginRevalidate, RefuseRevalidate, CommitStale, CommitEvaluate
  <1>2. mem \in State /\ thread \in [Thread -> {Idle} \cup PopulationPhase \cup EvaluatingPhase]
    BY OthersTyped
  <1>3. \E call : thread' = [thread EXCEPT ![t] = call] /\ call.phase # "evaluating"
    <2>1. ASSUME NEW c \in Caller, NEW s \in SetId, BeginRevalidate(t, c, s)
          PROVE  \E call : thread' = [thread EXCEPT ![t] = call] /\ call.phase # "evaluating"
      <3> DEFINE call == [phase |-> "population", set |-> s, batch |-> PopulationOf(mem, s), boot |-> c]
      <3>1. thread' = [thread EXCEPT ![t] = call] /\ call.phase # "evaluating"
        BY <2>1 DEF BeginRevalidate
      <3> QED
        BY <3>1
    <2>2. CASE RefuseRevalidate(t) \/ CommitStale(t) \/ CommitEvaluate(t)
      <3>1. thread' = [thread EXCEPT ![t] = Idle]
        BY <2>2 DEF RefuseRevalidate, CommitStale, CommitEvaluate
      <3>2. Idle.phase # "evaluating"
        BY DEF Idle
      <3> QED
        BY <3>1, <3>2
    <2> QED
      BY <2>1, <2>2
  <1>4. /\ mem'.sets = mem.sets
        /\ mem'.last = mem.last \/ (thread[t].phase = "evaluating" /\ mem'.last = thread[t].generation)
    <2>1. CASE CommitEvaluate(t)
      <3>1. PICK results, populations :
                Publish([mem EXCEPT !.results = results, !.populations = populations,
                                    !.last = thread[t].generation])
        BY <2>1 DEF CommitEvaluate
      <3>2. \/ mem' = mem
            \/ mem' = [mem EXCEPT !.results = results, !.populations = populations,
                                  !.last = thread[t].generation]
        BY <3>1 DEF Publish
      <3>3. thread[t].phase = "evaluating"
        BY <2>1 DEF CommitEvaluate
      <3> QED
        BY <1>2, <3>2, <3>3 DEF State
    <2>2. CASE \/ \E c \in Caller, s \in SetId : BeginRevalidate(t, c, s)
               \/ RefuseRevalidate(t) \/ CommitStale(t)
      BY <2>2 DEF BeginRevalidate, RefuseRevalidate, CommitStale
    <2> QED
      BY <2>1, <2>2
  <1>5. Numbers' \subseteq Numbers
    BY <1>2, <1>3, <1>4 DEF Numbers
  <1>6. GenerationsOf(mem') = GenerationsOf(mem)
    BY <1>4 DEF GenerationsOf
  <1>7. Distinct(attempts') /\ Len(attempts') \in Nat /\ Len(attempts') >= Len(attempts)
    BY <1>1, RetryFacts DEF RetryInv
  <1> QED
    BY <1>1, <1>5, <1>6, <1>7, NothingNumbered DEF RetryInv

LEMMA RetryHolds ==
    ASSUME IInv, RetryInv, Remembering, [Next]_vars
    PROVE  RetryInv'
  <1>1. CASE /\ up' = up /\ UNCHANGED <<mem, attempts, sequence, thread>>
    <2>1. Numbers' = Numbers
      BY <1>1 DEF Numbers
    <2>2. GenerationsOf(mem') = GenerationsOf(mem) /\ attempts' = attempts
      BY <1>1
    <2> QED
      BY <1>1, <2>1, <2>2, RetryFacts, NothingNumbered DEF RetryInv
  <1>2. ASSUME NEW c \in Caller, RegisterCaller(c) \/ FenceCaller(c) PROVE RetryInv'
    BY <1>1, <1>2 DEF RegisterCaller, FenceCaller
  <1>3. ASSUME NEW c \in Caller, NEW a \in Attempt, NEW f \in AdvancedFamily,
               NEW g \in 1..MaxGeneration, AdvanceFamily(c, a, f, g)
        PROVE  RetryInv'
    <2>1. mem.evidence \in Evidence /\ f \in Family /\ g \in Nat
      BY OthersTyped, StateFields, CoordinatorInputs, CoordinatorLimits
    <2>2. [mem.evidence EXCEPT !.gen[f] = g] \in Evidence
      BY <2>1 DEF Evidence, Generations
    <2> QED
      BY <1>3, <2>2, EvidenceNumbers DEF AdvanceFamily
  <1>4. ASSUME NEW c \in Caller, NEW a \in Attempt, NEW req \in RequirementInput,
               ApplyEvidenceRequirements(c, a, req)
        PROVE  RetryInv'
    BY <1>4, EvidenceNumbers, CoordinatorInputs
  <1>5. CASE Flush \/ UNCHANGED vars
    BY <1>1, <1>5 DEF Flush, vars
  <1>6. ~Crash /\ ~Open
    BY DEF Crash, Open, RetryInv, Remembering
  <1> QED
    BY <1>2, <1>3, <1>4, <1>5, <1>6, DefinitionsNumber, InvalidationNumbers, BeginNumbers, CallsNumber
       DEF Next

\* When the de-duplication window has room for every attempt identity in use, and
\* no restart clears it, no interleaving of retries, publications, key
\* invalidations and concurrent evaluations makes more mutations than there are
\* attempts: a retry is answered by the window (observe_attempt) and numbers
\* nothing.
THEOREM OneMutationEach ==
    ASSUME Remembering
    PROVE  Spec => []OneMutationPerAttempt
  <1>1. Init => RetryInv
    <2> SUFFICES ASSUME Init PROVE RetryInv
      OBVIOUS
    <2>1. mem.last = 0 /\ sequence = 0 /\ \A s \in SetId : mem.sets[s].generation = 0
      BY DEF Init, InitialState, NoSet
    <2>2. Numbers = {0}
      BY <2>1 DEF Numbers, Init, Idle
    <2>3. Mutations(0, 0, GenerationsOf(mem)) = {}
      <3>1. \A s \in SetId : GenerationsOf(mem)[s] = 0
        BY <2>1 DEF GenerationsOf
      <3>2. 1..0 = {}
        OBVIOUS
      <3> QED
        BY <3>1, <3>2 DEF Mutations
    <2>4. Len(attempts) = 0 /\ Distinct(attempts)
      BY EmptySeq DEF Init, Distinct
    <2>5. Within(0, 0, GenerationsOf(mem), 0)
      BY <2>3, FS_EmptySet DEF Within
    <2>6. up
      BY DEF Init
    <2> QED
      BY <2>1, <2>2, <2>4, <2>5, <2>6 DEF RetryInv
  <1>2. IInv /\ RetryInv /\ [Next]_vars => RetryInv'
    BY RetryHolds
  <1>3. RetryInv => OneMutationPerAttempt
    <2> SUFFICES ASSUME RetryInv PROVE OneMutationPerAttempt
      OBVIOUS
    <2>1. mem.last \in Numbers
      BY DEF Numbers
    <2>2. \A s \in SetId : GenerationsOf(mem)[s] = mem.sets[s].generation
      BY DEF GenerationsOf
    <2>3. MutationsUpTo(mem.last) = Mutations(mem.last, sequence, GenerationsOf(mem))
      BY <2>2 DEF MutationsUpTo, Mutations
    <2> QED
      BY <2>1, <2>3 DEF RetryInv, Within, OneMutationPerAttempt
  <1> QED
    BY <1>1, <1>2, <1>3, Invariance, PTL DEF Spec
=============================================================================

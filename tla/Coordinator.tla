----------------------------- MODULE Coordinator -----------------------------
(***************************************************************************)
(* The authoritative runtime (coordinator.cpp): constraint-set             *)
(* definitions and their lifecycle, evidence generations and watermarks,   *)
(* two-phase evaluation, the retained results and candidate populations,   *)
(* the durable store and recovery.                                         *)
(*                                                                         *)
(* Every entry point holds the coordinator mutex and is one action, except *)
(* evaluate: it takes a snapshot under the mutex (Begin...), evaluates     *)
(* without it, and takes it again to verify and commit (Commit...), and    *)
(* revalidate, which reads the retained population under the mutex before  *)
(* it calls evaluate.  Any other operation may run in between.             *)
(*                                                                         *)
(* Publisher authority is reduced to what these operations see of it: the  *)
(* set of callers that authorize() lets through and the set of fenced      *)
(* ones.  Module Authority has the registry itself.                        *)
(***************************************************************************)
EXTENDS Naturals, Sequences, FiniteSets, Lifecycle, Invalidation, MutationAttempts

CONSTANTS
    SetId,              \* constraint set identities
    Definition,         \* constraint set contents callers publish
    Content,            \* what each content is: see ContentType
    NoDefinition,       \* the content of a set that was never published
    Candidate,          \* candidate paths callers submit
    Fact,               \* what each candidate says: see FactType
    Batch,              \* the candidate populations callers submit
    Caller,             \* worker boots
    Thread,             \* concurrent evaluate / revalidate calls
    Attempt,            \* mutation attempt identities
    Unique,             \* an attempt identity that is never used twice
    CarriedInput,       \* set generations publications carry
    ExpectedInput,      \* set generations evaluations expect, 0 for any
    EventInput,         \* lifecycle events callers apply
    AdvancedFamily,     \* families callers advance with advance_family
    RequirementInput,   \* arguments of set_evidence_requirements
    KeyInput,           \* keys callers invalidate
    InitialEvidence,    \* CoordinatorConfig::evidence
    Durable,            \* is there a store?
    DiskMayFail,        \* may a durable write fail?
    MaxSets,            \* limits.max_constraint_sets
    MaxEvaluations,     \* limits.max_evaluations_retained
    MaxPopulations,     \* CoordinatorConfig::max_candidate_populations
    MaxAttempts,        \* limits.max_mutation_attempts
    MaxGeneration,      \* bound: evidence generations
    MaxSetGeneration,   \* bound: constraint set generations
    MaxEvaluation,      \* bound: evaluation generations
    MaxInvalidations,   \* bound: key invalidations per incarnation
    MaxEpoch            \* bound: coordinator incarnations

\* A constraint set's content: whether validation accepts it, the constraints
\* as the publication digest sees them, the evidence families its constraints
\* and ranking policy consult, the capabilities it names, and the paths that
\* satisfy its planner cost model and all of its mandatory constraints.
Path == {Fact[c].path : c \in Candidate}
ContentType == [valid : BOOLEAN, constraints : Definition, families : SUBSET Family,
                capabilities : SUBSET Nat, satisfied : SUBSET Path]

Generations == [Family -> Nat]
Evidence == [gen : Generations, age : Nat]

ASSUME CoordinatorLimits ==
    /\ MaxSets \in Nat \ {0} /\ MaxEvaluations \in Nat \ {0}
    /\ MaxPopulations \in Nat \ {0} /\ MaxAttempts \in Nat \ {0}
    /\ {MaxGeneration, MaxSetGeneration, MaxEvaluation, MaxInvalidations, MaxEpoch} \subseteq Nat

ASSUME CoordinatorInputs ==
    /\ NoDefinition \notin Definition
    /\ Content \in [Definition -> ContentType]
    /\ \A c \in Candidate : Fact[c].evidence \in Generations
    /\ Batch \subseteq SUBSET Candidate
    /\ CarriedInput \subseteq Nat \ {0} /\ ExpectedInput \subseteq Nat
    /\ EventInput \subseteq LifecycleEvent
    /\ AdvancedFamily \subseteq Family
    /\ RequirementInput \subseteq Evidence
    /\ InitialEvidence \in Evidence
    /\ Durable \in BOOLEAN /\ DiskMayFail \in BOOLEAN

\* A candidate is built from bounded lists of 64-bit identities (validate_limits).
ASSUME FiniteCandidates == IsFiniteSet(Candidate)

VARIABLES
    mem,        \* the state apply_state installs; while down, the last one
    disk,       \* the store
    epoch,      \* coordinator epoch
    up,         \* is a coordinator process open?
    live,       \* callers that authorize() accepts
    fenced,     \* callers whose boot is fenced
    attempts,   \* the de-duplication window
    sequence,   \* invalidation_sequence
    thread,     \* what each evaluate / revalidate call has read so far
    acked       \* history: evidence generations acknowledged as advanced

vars == <<mem, disk, epoch, up, live, fenced, attempts, sequence, thread, acked>>

-----------------------------------------------------------------------------
(* State *)

ResultState == {"Current", "RevalidationRequired", "Superseded", "RecoveredUnproven"}

Outcome == {"Admissible", "Malformed", "SetNotActive", "StaleSetGeneration",
            "StalePathAuthority", "PathNotLegal", "StaleEvidence",
            "EvidenceAgeExceeded", "Violated"}

\* ConstraintSet.  The digest covers the content and the generation the caller
\* carried when it was computed; generation 0 is "not published".
SetRecord == [generation : Nat, state : SetState,
              definition : Definition \cup {NoDefinition}, carried : Nat]
NoSet == [generation |-> 0, state |-> "Declared", definition |-> NoDefinition, carried |-> 0]

\* EvaluationRecord.
Result == [set : SetId, setGeneration : Nat, path : Path, evidence : Generations,
           generation : Nat, consulted : SUBSET Family, outcome : Outcome,
           state : ResultState, boot : Caller, epoch : Nat]

Population == [set : SetId, candidates : SUBSET Candidate]

\* PersistentState without its authority part.
State == [evidence : Evidence, families : Generations, keys : [KeyInput -> Nat],
          sets : [SetId -> SetRecord], results : SUBSET Result,
          populations : Seq(Population), last : Nat]

InitialState ==
    [evidence |-> InitialEvidence,
     families |-> [f \in Family |-> 0],
     keys |-> [k \in KeyInput |-> 0],
     sets |-> [s \in SetId |-> NoSet],
     results |-> {},
     populations |-> <<>>,
     last |-> 0]

Known(st, s) == st.sets[s].generation # 0

\* derived_evaluation_id: the semantic binding of a result.
Id(r) == <<r.set, r.setGeneration, r.path, r.evidence>>

\* verify_canonical_constraint_set: is the stored digest the digest of the set?
Canonical(set) == set.carried = set.generation

\* consulted_mask.
Consulted(d) == Content[d].families \cup {"PathAuthority"}

-----------------------------------------------------------------------------
(* The reverse index: derived from the state by rebuild_derived *)

\* find_candidate: is the candidate behind a result still retained?
RetainedIn(st, s, path) ==
    {c \in Candidate : /\ Fact[c].path = path
                       /\ \E i \in DOMAIN st.populations :
                             /\ st.populations[i].set = s
                             /\ c \in st.populations[i].candidates}
Retained(st, r) == RetainedIn(st, r.set, r.path) # {}

\* A current result whose candidate is no longer retained binds no key.
Binds(st, r, key) ==
    /\ r.state = "Current"
    /\ Known(st, r.set)
    /\ \E c \in RetainedIn(st, r.set, r.path) :
          key \in DependencyKeys(r.consulted, r.set, Content[st.sets[r.set].definition], Fact[c])

DependentsOfKey(st, key) == {r \in st.results : Binds(st, r, key)}

BoundKeys(st, r) ==
    IF r.state = "Current" /\ Known(st, r.set)
    THEN UNION {DependencyKeys(r.consulted, r.set, Content[st.sets[r.set].definition], Fact[c]) :
                    c \in RetainedIn(st, r.set, r.path)}
    ELSE {}

\* Mutant: the keys of named entities only, not the family-wide one.
DependentsOfEntities(st, family) ==
    {r \in st.results : \E k \in BoundKeys(st, r) : k.kind = family /\ k.value # 0}

DependentsOfFamily(st, family) ==
    {r \in st.results : \E k \in BoundKeys(st, r) : k.kind \in FamilyKinds(family)}

\* Reduces the current results among `targets`.
Demoted(results, targets) ==
    {IF r \in targets /\ r.state = "Current"
     THEN [r EXCEPT !.state = "RevalidationRequired"]
     ELSE r : r \in results}

ResultsOf(st, s) == {r \in st.results : r.set = s}

-----------------------------------------------------------------------------
(* Durability *)

\* validate_persistent_state.
Valid(st) ==
    /\ Cardinality({s \in SetId : Known(st, s)}) <= MaxSets
    /\ Cardinality(st.results) <= MaxEvaluations
    /\ \A s \in SetId : Known(st, s) => Canonical(st.sets[s])
    /\ \A i \in DOMAIN st.populations :
          /\ Known(st, st.populations[i].set)
          /\ \A c \in st.populations[i].candidates : Fact[c].valid
    /\ \A i, j \in DOMAIN st.populations :
          st.populations[i].set = st.populations[j].set => i = j
    /\ \A r \in st.results :
          /\ Known(st, r.set)
          /\ r.generation <= st.last
          /\ \A f \in r.consulted : r.evidence[f] # 0
    /\ \A q, r \in st.results :
          /\ Id(q) = Id(r) => q = r
          /\ q.state = "Current" /\ r.state = "Current"
                /\ q.set = r.set /\ q.path = r.path => q = r

Image(st) == [epoch |-> epoch, state |-> st, live |-> live, fenced |-> fenced]

\* persist: without a store it always succeeds and writes nothing.
Saved(st) ==
    \/ ~Durable /\ UNCHANGED disk
    \/ Durable /\ Valid(st) /\ disk' = Image(st)

SaveFailed(st) ==
    /\ Durable
    /\ DiskMayFail \/ ~Valid(st)
    /\ UNCHANGED disk

\* Mutant: the state is applied whether or not the write succeeded.
ApplyAnyway(next) == (Saved(next) \/ SaveFailed(next)) /\ mem' = next

\* Persist the next state, then apply it; a failed write applies nothing.
Publish(next) ==
    \/ Saved(next) /\ mem' = next
    \/ SaveFailed(next) /\ UNCHANGED mem

-----------------------------------------------------------------------------
(* Callers *)

Authorized(c) == up /\ c \in live

\* Mutant: a known attempt identity with another payload is fresh.
ConflictIsFresh(a, payload) ==
    IF a = Unique \/ Verdict(attempts, a, payload) = "Conflict"
    THEN "Fresh" ELSE Verdict(attempts, a, payload)

\* An attempt identity that is never reused is always fresh and need not be
\* remembered.
VerdictOf(a, payload) == IF a = Unique THEN "Fresh" ELSE Verdict(attempts, a, payload)
Remember(a, payload) ==
    attempts' = IF a = Unique THEN attempts ELSE Observe(attempts, a, payload, MaxAttempts)

\* Coordinator::register_publisher as these operations see it: the whole state
\* is written with the new projection, and a failed write leaves the caller
\* registered in memory.
RegisterCaller(c) ==
    /\ up
    /\ c \notin live \cup fenced
    /\ live' = live \cup {c}
    /\ \/ ~Durable /\ UNCHANGED disk
       \/ Durable /\ Valid(mem) /\ disk' = [Image(mem) EXCEPT !.live = live']
       \/ SaveFailed(mem)
    /\ UNCHANGED <<mem, epoch, up, fenced, attempts, sequence, thread, acked>>

\* fence_boot, fence_on_session_loss and the fencing of a superseded boot.
FenceCaller(c) ==
    /\ up
    /\ c \in live
    /\ live' = live \ {c}
    /\ fenced' = fenced \cup {c}
    /\ \/ ~Durable /\ UNCHANGED disk
       \/ Durable /\ Valid(mem) /\ disk' = [Image(mem) EXCEPT !.live = live', !.fenced = fenced']
       \/ SaveFailed(mem)
    /\ UNCHANGED <<mem, epoch, up, attempts, sequence, thread, acked>>

-----------------------------------------------------------------------------
(* Definitions *)

\* The set a valid publication leaves: new, unchanged, or one generation on.
Published(s, d, carried) ==
    LET old == mem.sets[s]
    IN IF ~Known(mem, s)
       THEN [generation |-> 1, state |-> "Declared", definition |-> d, carried |-> carried]
       ELSE IF old.definition = d /\ old.carried = carried
       THEN old
       ELSE [generation |-> old.generation + 1,
             state |-> IF old.state = "Active" THEN "Active" ELSE "RevalidationRequired",
             definition |-> d, carried |-> carried]

\* Coordinator::publish_constraint_set.  The attempt is remembered before the
\* content is validated.
PublishConstraintSet(c, a, s, d, carried) ==
    LET payload == <<"publish", s, Content[d].constraints>>
        room == Known(mem, s) \/ Cardinality({t \in SetId : Known(mem, t)}) < MaxSets
        next == [mem EXCEPT !.sets[s] = Published(s, d, carried),
                            !.results = Demoted(@, ResultsOf(mem, s))]
    IN /\ Authorized(c)
       /\ VerdictOf(a, payload) = "Fresh"
       /\ Remember(a, payload)
       /\ Published(s, d, carried).generation <= MaxSetGeneration
       /\ IF Content[d].valid /\ room THEN Publish(next) ELSE UNCHANGED <<mem, disk>>
       /\ UNCHANGED <<epoch, up, live, fenced, sequence, thread, acked>>

\* Coordinator::apply_lifecycle.
ApplyLifecycle(c, a, s, event) ==
    LET payload == <<"lifecycle", s, event>>
        state == NextState(mem.sets[s].state, event)
        next == [mem EXCEPT !.sets[s].state = state,
                            !.results = IF state = "Active"
                                        THEN @ ELSE Demoted(@, ResultsOf(mem, s))]
    IN /\ Authorized(c)
       /\ VerdictOf(a, payload) = "Fresh"
       /\ Remember(a, payload)
       /\ IF Known(mem, s) /\ Accepted(mem.sets[s].state, event)
          THEN Publish(next)
          ELSE UNCHANGED <<mem, disk>>
       /\ UNCHANGED <<epoch, up, live, fenced, sequence, thread, acked>>

-----------------------------------------------------------------------------
(* Evidence *)

FamilyOrder == <<"Topology", "LinkState", "Capability", "FailureDomain",
                 "Policy", "Planner", "PathAuthority">>

Regresses(req) == \E f \in Family : req.gen[f] < mem.evidence.gen[f]

AdvancedBy(req) == {f \in Family : req.gen[f] > mem.evidence.gen[f]}

\* Watermarks::advance_family refuses a generation it has already reached.
BlockedBy(req) == {f \in AdvancedBy(req) : req.gen[f] <= mem.families[f]}

\* The families whose watermark the loop moved before it stopped.
MovedBy(req) ==
    {FamilyOrder[i] : i \in {i \in DOMAIN FamilyOrder :
        /\ FamilyOrder[i] \in AdvancedBy(req)
        /\ \A j \in 1..i : FamilyOrder[j] \notin BlockedBy(req)}}

\* Mutant: the watermarks are not moved.
KeepsWatermarks(req) == mem.families

Watermarked(req) ==
    [f \in Family |-> IF f \in MovedBy(req) THEN req.gen[f] ELSE mem.families[f]]

Acknowledge(req) ==
    acked' = [f \in Family |-> IF req.gen[f] > acked[f] THEN req.gen[f] ELSE acked[f]]

\* Coordinator::Impl::apply_evidence_requirements.  The watermarks move in
\* memory before the durable write, and stay moved when it fails.  An exact
\* replay is acknowledged without looking at the state.
ApplyEvidenceRequirements(c, a, req) ==
    LET payload == <<"evidence", req>>
        targets == UNION {DependentsOfFamily(mem, f) : f \in AdvancedBy(req)}
        next == [mem EXCEPT !.evidence = req,
                            !.families = Watermarked(req),
                            !.results = Demoted(@, targets)]
        moved == [mem EXCEPT !.families = Watermarked(req)]
    IN /\ Authorized(c)
       /\ Remember(a, payload)
       /\ \/ /\ VerdictOf(a, payload) = "ExactReplay"
             /\ Acknowledge(req)
             /\ UNCHANGED <<mem, disk>>
          \/ /\ VerdictOf(a, payload) = "Fresh"
             /\ Regresses(req)
             /\ UNCHANGED <<mem, disk, acked>>
          \/ /\ VerdictOf(a, payload) = "Fresh"
             /\ ~Regresses(req)
             /\ BlockedBy(req) # {}
             /\ mem' = moved
             /\ UNCHANGED <<disk, acked>>
          \/ /\ VerdictOf(a, payload) = "Fresh"
             /\ ~Regresses(req)
             /\ BlockedBy(req) = {}
             /\ \/ Saved(next) /\ mem' = next /\ Acknowledge(req)
                \/ SaveFailed(next) /\ mem' = moved /\ UNCHANGED acked
       /\ UNCHANGED <<epoch, up, live, fenced, sequence, thread>>

\* Coordinator::advance_family: one family of the requirements in force.
AdvanceFamily(c, a, f, g) ==
    ApplyEvidenceRequirements(c, a, [mem.evidence EXCEPT !.gen[f] = g])

\* Mutant: the key watermark is overwritten.
InvalidatesUnchecked(c, a, k) ==
    LET payload == <<"invalidate", k>>
        moved == [mem EXCEPT !.keys[k] = sequence + 1]
        next == [moved EXCEPT !.results = Demoted(@, DependentsOfKey(mem, k))]
    IN /\ Authorized(c)
       /\ sequence < MaxInvalidations
       /\ VerdictOf(a, payload) = "Fresh"
       /\ Remember(a, payload)
       /\ sequence' = sequence + 1
       /\ \/ Saved(next) /\ mem' = next
          \/ SaveFailed(next) /\ mem' = moved
       /\ UNCHANGED <<epoch, up, live, fenced, thread, acked>>

\* Coordinator::invalidate_key.  The sequence is not part of the durable state.
InvalidateKey(c, a, k) ==
    LET payload == <<"invalidate", k>>
        moved == [mem EXCEPT !.keys[k] = sequence + 1]
        next == [moved EXCEPT !.results = Demoted(@, DependentsOfKey(mem, k))]
    IN /\ Authorized(c)
       /\ sequence < MaxInvalidations
       /\ VerdictOf(a, payload) = "Fresh"
       /\ Remember(a, payload)
       /\ sequence' = sequence + 1
       /\ IF sequence + 1 <= mem.keys[k]
          THEN UNCHANGED <<mem, disk>>
          ELSE \/ Saved(next) /\ mem' = next
               \/ SaveFailed(next) /\ mem' = moved
       /\ UNCHANGED <<epoch, up, live, fenced, thread, acked>>

-----------------------------------------------------------------------------
(* Two-phase evaluation *)

Idle == [phase |-> "idle"]

\* The retained population of a set, {} if there is none.
PopulationOf(st, s) ==
    UNION {st.populations[i].candidates : i \in {i \in DOMAIN st.populations : st.populations[i].set = s}}

\* Coordinator::revalidate reads the population and releases the mutex; it
\* checks no authority before evaluate does.
BeginRevalidate(t, c, s) ==
    /\ up
    /\ thread[t].phase = "idle"
    /\ PopulationOf(mem, s) # {}
    /\ thread' = [thread EXCEPT ![t] =
                    [phase |-> "population", set |-> s, batch |-> PopulationOf(mem, s), boot |-> c]]
    /\ UNCHANGED <<mem, disk, epoch, up, live, fenced, attempts, sequence, acked>>

\* evaluate refuses the revalidation of a caller without authority.
RefuseRevalidate(t) ==
    /\ up
    /\ thread[t].phase = "population"
    /\ thread[t].boot \notin live
    /\ thread' = [thread EXCEPT ![t] = Idle]
    /\ UNCHANGED <<mem, disk, epoch, up, live, fenced, attempts, sequence, acked>>

\* Phase one of Coordinator::evaluate: authorize, de-duplicate, take the next
\* evaluation generation and snapshot the set and the evidence.  `keys` is
\* history: the key watermarks at the snapshot.
BeginEvaluate(t, c, a, s, batch, expected) ==
    LET payload == <<"evaluate", s, batch, expected,
                     mem.evidence.gen["Topology"], mem.evidence.gen["Capability"]>>
    IN /\ Authorized(c)
       /\ \/ thread[t].phase = "idle"
          \/ /\ thread[t].phase = "population"
             /\ thread[t].boot = c
             /\ <<thread[t].set, thread[t].batch, 0>> = <<s, batch, expected>>
       /\ Remember(a, payload)
       /\ \/ /\ VerdictOf(a, payload) = "Fresh"
             /\ Known(mem, s)
             /\ mem.last < MaxEvaluation
             /\ mem' = [mem EXCEPT !.last = @ + 1]
             /\ thread' = [thread EXCEPT ![t] =
                    [phase |-> "evaluating", set |-> s, batch |-> batch, expected |-> expected,
                     snapshot |-> mem.sets[s], evidence |-> mem.evidence,
                     generation |-> mem.last + 1, boot |-> c, epoch |-> epoch,
                     keys |-> mem.keys]]
          \/ /\ VerdictOf(a, payload) # "Fresh" \/ ~Known(mem, s)
             /\ thread' = [thread EXCEPT ![t] = Idle]
             /\ UNCHANGED mem
       /\ UNCHANGED <<disk, epoch, up, live, fenced, sequence, acked>>

\* evaluate_candidate against the snapshot: the first stage that has a reason
\* decides.  `late` is what the clock says of the candidate's evidence when an
\* age limit is in force.
OutcomeOf(e, c, late) ==
    LET fact == Fact[c]
        required == e.evidence.gen
        unmet(f) == required[f] = 0 \/ fact.evidence[f] # required[f]
    IN CASE ~Canonical(e.snapshot) \/ ~fact.valid -> "Malformed"
         [] e.snapshot.state # "Active" -> "SetNotActive"
         [] e.expected # 0 /\ e.expected # e.snapshot.generation -> "StaleSetGeneration"
         [] unmet("PathAuthority") -> "StalePathAuthority"
         [] fact.verdict # "Legal" -> "PathNotLegal"
         [] \E f \in Consulted(e.snapshot.definition) : unmet(f) -> "StaleEvidence"
         [] e.evidence.age # 0 /\ late -> "EvidenceAgeExceeded"
         [] fact.path \notin Content[e.snapshot.definition].satisfied -> "Violated"
         [] OTHER -> "Admissible"

\* evaluate_batch: a population with two contents for one path has no results.
Rejected(batch) == \E b, c \in batch : b # c /\ Fact[b].path = Fact[c].path

\* Mutant: the record is stored as a stale completion leaves it.
StaleResultOf(e, c, late) ==
    [set |-> e.set, setGeneration |-> e.snapshot.generation, path |-> Fact[c].path,
     evidence |-> Fact[c].evidence, generation |-> e.generation,
     consulted |-> Consulted(e.snapshot.definition), outcome |-> OutcomeOf(e, c, late),
     state |-> "StaleAtCommit", boot |-> e.boot, epoch |-> e.epoch]

ResultOf(e, c, late) ==
    [set |-> e.set, setGeneration |-> e.snapshot.generation, path |-> Fact[c].path,
     evidence |-> Fact[c].evidence, generation |-> e.generation,
     consulted |-> Consulted(e.snapshot.definition), outcome |-> OutcomeOf(e, c, late),
     state |-> "Current", boot |-> e.boot, epoch |-> e.epoch]

ResultsOfBatch(e, late) ==
    IF Rejected(e.batch) THEN {} ELSE {ResultOf(e, c, c \in late) : c \in e.batch}

\* Mutants: only the evidence, or only the set, is compared.
EvidenceStillCurrent(e) ==
    /\ mem.evidence = e.evidence
    /\ \A f \in Consulted(e.snapshot.definition) : mem.families[f] <= e.evidence.gen[f]
SetStillCurrent(e) == mem.sets[e.set] = e.snapshot

\* Phase three: is everything the evaluation used still what it was?
StillCurrent(e) ==
    /\ mem.sets[e.set] = e.snapshot
    /\ mem.evidence = e.evidence
    /\ \A f \in Consulted(e.snapshot.definition) : mem.families[f] <= e.evidence.gen[f]

\* A stale completion changes nothing but the caller's answer.
CommitStale(t) ==
    /\ up
    /\ thread[t].phase = "evaluating"
    /\ ~StillCurrent(thread[t])
    /\ thread' = [thread EXCEPT ![t] = Idle]
    /\ UNCHANGED <<mem, disk, epoch, up, live, fenced, attempts, sequence, acked>>

\* Mutant: earlier results keep their state.
ReplacingOnly(results, new, s) ==
    {q \in results : \A n \in new : Id(n) # Id(q)} \cup new

\* The new results replace those with the same identity and supersede the
\* set's other ones.
Superseding(results, new, s) ==
    {IF r.set = s THEN [r EXCEPT !.state = "Superseded"] ELSE r :
        r \in {q \in results : \A n \in new : Id(n) # Id(q)}} \cup new

\* Mutant: one result too many is kept.
TrimOneShort(results) ==
    LET old == {r \in results : r.state # "Current"}
        excess == IF Cardinality(results) > MaxEvaluations + 1
                  THEN Cardinality(results) - MaxEvaluations - 1 ELSE 0
        count == IF Cardinality(old) < excess THEN Cardinality(old) ELSE excess
    IN {v \in SUBSET old :
            /\ Cardinality(v) = count
            /\ \A r \in v, q \in old \ v : r.generation <= q.generation}

\* The bounded history: the oldest results that are not current go first.
TrimVictims(results) ==
    LET old == {r \in results : r.state # "Current"}
        excess == IF Cardinality(results) > MaxEvaluations
                  THEN Cardinality(results) - MaxEvaluations ELSE 0
        count == IF Cardinality(old) < excess THEN Cardinality(old) ELSE excess
    IN {v \in SUBSET old :
            /\ Cardinality(v) = count
            /\ \A r \in v, q \in old \ v : r.generation <= q.generation}

\* The population of the set is replaced where it is, or appended, and then
\* the oldest population makes room.
WithPopulation(populations, s, batch) ==
    LET entry == [set |-> s, candidates |-> batch]
    IN IF \E i \in DOMAIN populations : populations[i].set = s
       THEN [i \in DOMAIN populations |->
                IF populations[i].set = s THEN entry ELSE populations[i]]
       ELSE Append(IF Len(populations) >= MaxPopulations THEN Tail(populations)
                                                         ELSE populations, entry)

CommitEvaluate(t) ==
    LET e == thread[t]
    IN /\ up
       /\ e.phase = "evaluating"
       /\ StillCurrent(e)
       /\ \E late \in IF e.evidence.age = 0 THEN {{}} ELSE SUBSET e.batch :
             LET results == Superseding(mem.results, ResultsOfBatch(e, late), e.set)
             IN \E victims \in TrimVictims(results) :
                   Publish([mem EXCEPT !.results = results \ victims,
                                       !.populations = WithPopulation(@, e.set, e.batch),
                                       !.last = e.generation])
       /\ thread' = [thread EXCEPT ![t] = Idle]
       /\ UNCHANGED <<epoch, up, live, fenced, attempts, sequence, acked>>

-----------------------------------------------------------------------------
(* Crash and recovery *)

\* Coordinator::flush.
Flush ==
    /\ up
    /\ Saved(mem)
    /\ UNCHANGED <<mem, epoch, up, live, fenced, attempts, sequence, thread, acked>>

Crash ==
    /\ Durable
    /\ up
    /\ epoch < MaxEpoch
    /\ up' = FALSE
    /\ live' = {} /\ fenced' = {}
    /\ attempts' = <<>>
    /\ sequence' = 0
    /\ thread' = [t \in Thread |-> Idle]
    /\ UNCHANGED <<mem, disk, epoch, acked>>

\* Mutant: results come back as they were.
RecoveredAsIs(results) == results

Recovered(results) == {[r EXCEPT !.state = "RecoveredUnproven"] : r \in results}

\* Coordinator::open on the store the last incarnation left: definitions,
\* populations, evidence and watermarks come back, no result comes back as
\* current, every boot the store names is fenced, and the recovered state must
\* be saved before the coordinator exists.
Open ==
    LET restored == [disk.state EXCEPT !.results = Recovered(@)]
    IN /\ ~up
       /\ Valid(restored)
       /\ up' = TRUE
       /\ epoch' = disk.epoch + 1
       /\ fenced' = disk.fenced \cup disk.live
       /\ mem' = restored
       /\ disk' = [epoch |-> disk.epoch + 1, state |-> restored,
                   live |-> {}, fenced |-> disk.fenced \cup disk.live]
       /\ UNCHANGED <<live, attempts, sequence, thread, acked>>

-----------------------------------------------------------------------------
\* The coordinator has just been opened on an empty store.
Init ==
    /\ mem = InitialState
    /\ disk = [epoch |-> 1, state |-> InitialState, live |-> {}, fenced |-> {}]
    /\ epoch = 1
    /\ up = TRUE
    /\ live = {} /\ fenced = {}
    /\ attempts = <<>>
    /\ sequence = 0
    /\ thread = [t \in Thread |-> Idle]
    /\ acked = InitialEvidence.gen

Next ==
    \/ \E c \in Caller : RegisterCaller(c) \/ FenceCaller(c)
    \/ \E c \in Caller, a \in Attempt :
          \/ \E s \in SetId :
                \/ \E d \in Definition, g \in CarriedInput :
                      PublishConstraintSet(c, a, s, d, g)
                \/ \E event \in EventInput : ApplyLifecycle(c, a, s, event)
                \/ \E t \in Thread, batch \in Batch, expected \in ExpectedInput :
                      BeginEvaluate(t, c, a, s, batch, expected)
          \/ \E req \in RequirementInput : ApplyEvidenceRequirements(c, a, req)
          \/ \E f \in AdvancedFamily, g \in 1..MaxGeneration : AdvanceFamily(c, a, f, g)
          \/ \E k \in KeyInput : InvalidateKey(c, a, k)
    \/ \E t \in Thread :
          \/ \E c \in Caller, s \in SetId : BeginRevalidate(t, c, s)
          \/ RefuseRevalidate(t)
          \/ CommitStale(t)
          \/ CommitEvaluate(t)
    \/ Flush
    \/ Crash
    \/ Open

Spec == Init /\ [][Next]_vars

-----------------------------------------------------------------------------
(* Properties *)

PopulationPhase == [phase : {"population"}, set : SetId, batch : SUBSET Candidate, boot : Caller]
EvaluatingPhase ==
    [phase : {"evaluating"}, set : SetId, batch : SUBSET Candidate, expected : Nat,
     snapshot : SetRecord, evidence : Evidence, generation : Nat, boot : Caller,
     epoch : Nat, keys : [KeyInput -> Nat]]

\* What the window remembers of a mutation: its attempt identity and what its
\* digest tells apart.
Payload ==
    ({"publish"} \X SetId \X Definition)
        \cup ({"lifecycle"} \X SetId \X LifecycleEvent)
        \cup ({"evidence"} \X Evidence)
        \cup ({"invalidate"} \X KeyInput)
        \cup ({"evaluate"} \X SetId \X (SUBSET Candidate) \X Nat \X Nat \X Nat)

\* The types of the coordinator state, the store and the calls in progress; the
\* de-duplication window never exceeds its limit (observe_attempt).
TypeOK ==
    /\ mem \in State
    /\ disk \in [epoch : Nat, state : State, live : SUBSET Caller, fenced : SUBSET Caller]
    /\ epoch \in Nat
    /\ up \in BOOLEAN
    /\ live \in SUBSET Caller
    /\ fenced \in SUBSET Caller
    /\ attempts \in Seq([attempt : Attempt, payload : Payload])
    /\ Len(attempts) <= MaxAttempts
    /\ sequence \in Nat
    /\ thread \in [Thread -> {Idle} \cup PopulationPhase \cup EvaluatingPhase]
    /\ acked \in Generations

\* What a current result that says "admissible" promises a route fabric that
\* takes it through handoffs: its set is active and is the generation it was
\* proven against, and each evidence generation it used is the one in force.
Sound(st, r) ==
    LET set == st.sets[r.set]
    IN /\ set.generation = r.setGeneration
       /\ set.state = "Active"
       /\ Canonical(set)
       /\ r.consulted = Consulted(set.definition)
       /\ \A f \in r.consulted : r.evidence[f] = st.evidence.gen[f]

CurrentAdmissible(st) ==
    {r \in st.results : r.state = "Current" /\ r.outcome = "Admissible"}

\* Every current admissible result is sound, whatever publications, lifecycle
\* events and evidence advances ran between the two phases of the evaluation
\* that produced it, or after it (README, "Mandatory races are closed").
CurrentIsSound == \A r \in CurrentAdmissible(mem) : Sound(mem, r)

\* The same for the results whose candidate is still retained.
RetainedCurrentIsSound ==
    \A r \in CurrentAdmissible(mem) : Retained(mem, r) => Sound(mem, r)

\* At most one result of a set is current for a path, so the current-result
\* map (rebuild_derived) and handoffs agree on which one it is.
OneCurrentPerPath ==
    \A q, r \in mem.results :
        /\ q.state = "Current" /\ r.state = "Current"
        /\ q.set = r.set /\ q.path = r.path
        => q = r

\* An evidence advance reduces only results that consulted an advanced family.
\* A topology advance also reduces results that consulted capabilities or
\* failure domains, because dependency_keys binds their nodes and links.
PreciseInvalidation ==
    [][\A r \in mem.results :
          /\ r.state = "Current"
          /\ mem'.evidence # mem.evidence
          /\ [r EXCEPT !.state = "RevalidationRequired"] \in mem'.results
          => \E f \in Family :
                /\ mem'.evidence.gen[f] > mem.evidence.gen[f]
                /\ \/ f \in r.consulted
                   \/ f = "Topology" /\ {"Capability", "FailureDomain"} \cap r.consulted # {}]_vars

\* An evaluation that passed verification and was written.
Committed(t) ==
    /\ thread[t].phase = "evaluating" /\ thread'[t].phase = "idle"
    /\ up' /\ mem' # mem

\* A commit leaves a bounded history, which makes room neither at the cost of a
\* current result nor of another set's: only current results may exceed the
\* limit (commit, the trim of Phase three).
CommitBoundsHistory ==
    [][\A t \in Thread : Committed(t) =>
          /\ \/ Cardinality(mem'.results) <= MaxEvaluations
             \/ \A r \in mem'.results : r.state = "Current"
          /\ \A r \in mem.results :
                r.set # thread[t].set /\ r.state = "Current" => r \in mem'.results]_vars

\* A generation of a set that was retired is never served again: the set leaves
\* the state only with a new generation, and no evaluation that began before it
\* was retired makes a path admissible after it (publish_constraint_set, evaluate).
RetiredStaysRetired ==
    [][\A s \in SetId : mem.sets[s].state = "Retired" =>
          /\ \/ mem'.sets[s].state = "Retired"
             \/ mem'.sets[s].generation > mem.sets[s].generation
          /\ \A r \in CurrentAdmissible(mem') :
                r.set = s => r.setGeneration > mem.sets[s].generation]_vars

\* The watermark of a family that was ever advanced is never behind the evidence
\* in force, through failed writes and restarts: it may only be ahead of it
\* (apply_evidence_requirements).
WatermarkCoversEvidence ==
    \A f \in Family :
        mem.evidence.gen[f] > InitialEvidence.gen[f] => mem.families[f] >= mem.evidence.gen[f]

\* The mutations that numbered something, when n is the last evaluation:
\* evaluations, key invalidations and publications.
MutationsUpTo(n) ==
    {<<"evaluate", i>> : i \in 1..n}
        \cup {<<"invalidate", i>> : i \in 1..sequence}
        \cup UNION {{<<"publish", s, i>> : i \in 1..mem.sets[s].generation} : s \in SetId}

\* While the de-duplication window remembers every attempt, no retry makes a
\* second mutation: publications, evaluations and key invalidations together
\* never outnumber the attempts (README, "Exact replay is idempotent and
\* advances nothing").
OneMutationPerAttempt == Cardinality(MutationsUpTo(mem.last)) <= Len(attempts)

\* A write that fails advances no definition, result, population or evidence
\* in memory: what the coordinator answers from is what a restart would find.
MemoryMatchesStore ==
    Durable /\ up =>
        /\ mem.sets = disk.state.sets
        /\ mem.results = disk.state.results
        /\ mem.populations = disk.state.populations
        /\ mem.evidence = disk.state.evidence

\* No current result survives a restart: it was proven by an evaluation that
\* began in this incarnation.
CurrentProvenInThisEpoch ==
    up => \A r \in mem.results : r.state = "Current" => r.epoch = epoch

\* Evidence and constraint-set generations never decrease, across crashes and
\* failed writes too, and neither do the stored watermarks of families and keys,
\* although a new incarnation counts its invalidations from zero (README,
\* "Generations never decrease").
GenerationsNeverDecrease ==
    [][/\ \A f \in Family : mem'.evidence.gen[f] >= mem.evidence.gen[f]
       /\ \A s \in SetId : mem'.sets[s].generation >= mem.sets[s].generation
       /\ \A f \in Family : disk'.state.families[f] >= disk.state.families[f]
       /\ \A k \in KeyInput : disk'.state.keys[k] >= disk.state.keys[k]]_vars

\* README, two-phase evaluation: "verify every consulted generation and
\* watermark", for the watermarks of the keys the new result binds.
KeyInvalidationHolds ==
    [][\A t \in Thread : Committed(t) =>
          \A r \in mem'.results : \A k \in BoundKeys(mem', r) \cap KeyInput :
             r.set = thread[t].set => mem.keys[k] = thread[t].keys[k]]_vars

\* README: a request is never acknowledged before its durable write succeeded.
AckedEvidenceDurable ==
    Durable => \A f \in Family : acked[f] <= disk.state.evidence.gen[f]

=============================================================================

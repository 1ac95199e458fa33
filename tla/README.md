# Verification of Constraint Routing Fabric

TLA+ models of the coordinator, the evaluator, the durable store and the server
with its clients of Constraint Routing Fabric (CRF), the TLC configurations that
check them on small instances, and TLAPS proofs of what matters most for every
instance.  Paths below are relative to the repository
root (`src/`, `include/constraint_routing_fabric/`); `PROJECT.json` maps every
definition that models code to its lines.

CRF takes candidate paths that a planner found and a path authority judged,
evaluates declared constraints over them against exact evidence generations,
and hands results to a route fabric.  Evaluating one candidate has to be exact
and deterministic; the hard part is keeping the answer "this path is admissible, *now*" true
while publishers, evidence, definitions and processes change underneath it,
writes fail, requests are retried and the coordinator restarts.

## 1. Inventory

| Component | State | Operations | Hard behaviour | Modelled in |
| --- | --- | --- | --- | --- |
| Authority registry (`authority.cpp`) | registrations (live or dead), fenced boots, attempt window, grants | register, fence, drop session, authorize, observe attempt | order of registrations, fencing and restarts; limits; retries | `Authority`, `MutationAttempts` |
| Coordinator (`coordinator.cpp`) | definitions, evidence requirements, watermarks, retained results and candidate populations, epoch, counters | publish, lifecycle, set/advance evidence, invalidate key, evaluate, revalidate, flush, open | two-phase evaluation with the mutex released in between; failed writes; eviction; recovery | `Coordinator` |
| Lifecycle table (`lifecycle.cpp`) | none | `apply_lifecycle_event` | terminal and re-entrant states | `Lifecycle` |
| Invalidation (`invalidation.cpp`) | watermarks, reverse index | `dependency_keys`, advance, bind, unbind | reaching every dependent result, and no other | `Invalidation`, `Coordinator` |
| Durable store (`persistence.cpp`) | the store file, a temporary file, a lock file, quarantined files | open, load, quarantine, save | death of the process or loss of power between two file operations, two owners, damage, failing operations | `DurableStore`, against `AtomicStore` |
| Evaluator (`evaluator.cpp`, `evaluation.cpp`) | none | `evaluate_candidate`, `evaluate_batch`, `outcome_of` | precedence of stages; duplicates | `Evaluator`; outcome and batch rules in `Coordinator` |
| Ordering (`ordering.cpp`) | none | `compare_candidates`, ranking | must not depend on arrival order | `Ordering` |
| Constraints and sets (`constraint.cpp`, `constraint_set.cpp`) | none | canonicalise, detect contradictions, digest | canonical form, off-by-one bounds | `ConstraintSet` |
| Candidates (`candidate.cpp`) | none | validate, canonicalise | internal agreement of evidence | validation in `Evaluator` |
| Server (`server.cpp`) | connection threads, the session of each, a session counter | accept, serve, handle each message, stop | threads against one coordinator, session loss, stop against connected clients | `Sessions`, driving `Authority` |
| Worker (`worker.cpp`) | connection, identity, request counter | connect, round trips, close | lost answers | `Sessions` |
| Framing (`protocol.cpp`) | assembler buffer | encode, push, pop | fragmentation, limits, damaged frames | `FrameAssembler` |
| Sockets (`net.cpp`) | | send, receive, accept, close | the end of a connection | as `Sessions` sees them |
| Snapshots (`snapshot.cpp`) | none | snapshot, decode, diff | several retained results per path | `Reports` |
| Message and state codecs, digests, identities, limits, time | none | | serialisation | not modelled |
| Facade (`fabric.cpp`), host program, examples, benchmarks | none | | wiring | not modelled |

How they interact: a worker connects to the server, which opens a session and
registers the worker's boot with the coordinator; each request becomes one
coordinator call with that session's authority context.  The coordinator asks
the authority registry to authorize the caller and to recognise a repeated
attempt, changes its state, writes the whole state to the durable store, and
only then answers.  Evaluation is the exception to "one call, one critical
section": it takes a snapshot under the mutex, evaluates without it, and takes
it again to verify and commit.  When a connection ends the server calls
`fence_on_session_loss`.

What makes each part correct:

- **Authority**: one live registration per publisher; a fenced boot never live
  and never unfenced; after a restart every earlier boot fenced; epochs grow;
  the coordinator can be opened again.
- **Coordinator**: a current admissible result is sound (its set active and
  unchanged, its evidence the evidence in force); at most one current result
  per set and path; an evidence advance reduces only what it affects; history
  and populations stay bounded without losing another set's current results;
  a retry mutates nothing; what memory answers from is what the store holds;
  no result current across a restart; generations never decrease.
- **Durable store**: an atomic register with one owner, whatever dies, fails or
  loses power; never rolled back; unreadable bytes kept.
- **Server and worker**: frames handled once and in order however the stream is
  cut; a call reports what happened; a lost session is fenced; calls return,
  and `stop` returns once the clients have left.
- **Snapshots**: applying the diff of two snapshots to the first gives the
  second; a snapshot can be decoded.
- **Constraint sets**: one canonical form whatever the order of submission;
  accepted sets lose no requirement; refused sets could not be satisfied.
- **Evaluator and ordering**: admissible exactly when legal, current in what is
  consulted and satisfying every mandatory constraint; independent of evidence
  that is not consulted and of the order of submission; explanations bounded
  without losing the primary reason; preferences agree with the hard checks.

The hazards behind these properties are listed, at their lines, in
`PROJECT.json`.

## 2. Modules

| Module | Role |
| --- | --- |
| `MutationAttempts` | the bounded de-duplication window: verdict and observation |
| `Authority` | the registry, the coordinator operations that drive it, its durable projection, crash, damage, `open` |
| `AuthorityProofs` | theorems about `Authority` |
| `Lifecycle` | the (state, event, next state) table |
| `Invalidation` | evidence families, keys, the keys an evaluation binds |
| `Coordinator` | definitions, evidence, two-phase evaluation, retention, durability, recovery |
| `CoordinatorProofs` | theorems about `Coordinator` |
| `Reports` | results snapshots, their decoder, diffs (extends `Coordinator`) |
| `ReportsProofs` | theorems about `Reports`, on top of `CoordinatorProofs` |
| `AtomicStore` | abstract: what the durable store promises |
| `DurableStore` | lock, load, quarantine and save, file operation by file operation; implements `AtomicStore` |
| `DurableStoreProofs` | theorems about `DurableStore`, the refinement among them |
| `FrameAssembler` | frames on a byte stream and how they are found again |
| `Sessions` | server threads, workers and other clients; extends `FrameAssembler` and drives an instance of `Authority` |
| `SessionsProofs` | theorems about `Sessions`, `AuthorityProofs` among their lemmas |
| `Ordering` | the comparisons that rank candidates and order constraints, and the stable sorts |
| `OrderingProofs` | the ranking is a strict total order; what the sorts return |
| `ConstraintSet` | validation, canonical form, contradictions (extends `Ordering`) |
| `ConstraintSetProofs` | lemmas about `ConstraintSet`: the canonical order and the canonical form |
| `Evaluator` | candidates, checks, reasons, stages, preferences, populations (extends `ConstraintSet`, `Invalidation`, `Lifecycle`) |
| `EvaluatorProofs` | theorems about `Evaluator`: every property its run checks, for all inputs |
| `MCAuthority`, `MCCoordinator`, `MCEvaluator`, `MCSessions` | the values of the constants for TLC |

An operator whose comment begins "Mutant" is a deliberately wrong variant of
the definition that follows it (a dropped guard, a missing reset).  No
specification uses it; replacing the definition by it must make TLC violate the
property that `PROJECT.json` pairs it with, which shows that the property
notices that mistake.

### Authority

Every entry point holds the coordinator's mutex, so each is one action.
Calls that are refused before anything changed are stuttering steps.

| Variable | Code |
| --- | --- |
| `regs` | `registrations_`; dead registrations stay with `live = FALSE` |
| `fenced` | `fenced_`, the boots |
| `attempts` | `attempts_` |
| `epoch`, `up` | `epoch_`; whether a coordinator process exists |
| `disk` | the authority part of the stored `PersistentState`; `epoch = 0` is "no store" |
| `answered`, `barred` | history: boots that are live or fenced because of a call answered with success; those among them that an incarnation ended with |

`Register` is `register_publisher` including the fencing of the publisher's
previous boot and the durable write (`RegisterStored`, or `RegisterUnstored`
when the write failed and the caller is refused although the boot is live);
`RegisterRefused` is the same call refused
by a limit *after* the previous boot was fenced, which the code does not write.
A durable write either replaces the store (`Saved`) or fails (`SaveFailed`),
because the disk failed or `validate_persistent_state` refused the image; the
code never undoes the change in memory.  `Open` reads the store: with a state
it continues the epoch and fences every boot the state names as fenced or live;
with none, or with an unreadable store that `allow_initialize` lets it
quarantine, it starts at epoch 1.

### Coordinator

| Variable | Code |
| --- | --- |
| `mem` | what `apply_state` installs: evidence requirements, family and key watermarks, sets, results, populations, last evaluation generation |
| `disk` | the store |
| `live`, `fenced` | the authority registry as `authorize` shows it |
| `attempts`, `sequence` | the de-duplication window, `invalidation_sequence` |
| `thread` | per concurrent `evaluate`/`revalidate` call, what it has read so far |
| `acked` | history: evidence generations answered as advanced |

The definitions' content is a record of what the coordinator can tell apart:
validity, the constraints as the publication digest sees them, the families it
consults, the capabilities it names, and the paths that satisfy it.  A
candidate is a model value with its path, evidence generations, validity,
verdict and the entities that dependency keys name.  A stored set remembers the
generation the caller carried, because the digest was computed over it and
`verify_canonical_constraint_set` recomputes it: a set whose carried generation
differs from the assigned one can never be persisted or evaluated.

`evaluate` is `BeginEvaluate` followed by `CommitEvaluate` or `CommitStale`;
`revalidate` puts `BeginRevalidate` before it.  Any other action may run
between.  The reverse index is a function of the state (`BoundKeys`), as
`rebuild_derived` makes it.

`Reports` adds the read-only side: a results snapshot holds a view of every
retained result of a set, the decoder demands strictly increasing paths, and
`diff_results` compares the newest result per path.  Entries are a set, which says
as much as the sorted vector as long as no two results of a path have one
generation; an outcome stands for outcome and primary reason,
so a changed reason is a changed outcome.

Left out: the currentness report, handoffs, explanations, definitions snapshots,
ticks, provenance, reason vectors, the rejection of a batch that is too large
(the inputs are smaller than the limit), and `Context::scopes`.

### Constraint sets and the evaluator

These are pure functions; the operators carry the code's names.  The state
machine of `Evaluator` only supplies their calls: `Submit` finalizes a definition
as `publish_constraint_set` does (the generation it assigns may differ from the
one the digest was computed over), `Evaluate` is one `evaluate_batch`.

| Variable | Code |
| --- | --- |
| `definition` | the submitted set, whether it was accepted, and the stored set with its assigned generation and lifecycle state |
| `call` | the context, the population and the `EvaluationBatch` of the last call |

A candidate's evidence vectors are sets of (key, value) pairs, because
`validate_candidate` accepts sorted unique vectors only; a lookup takes the first
pair of a key, the smallest.  A reason keeps its code, ordinal, constraint,
family and subject, which decide its position and the outcome.  The gate stages
(`gate_reasons`) each run only when the earlier ones found nothing.  Digests are
the content they cover, so `candidate_digest` is everything but
`captured_tick`.  The definitions `Satisfies` and `Lawful` say independently,
without stages, reasons or bounds, what the verdict should be.

The sorts are described by where they put each element: `Ascending` gives the
elements of a set their places under a strict total order, `stable_order` and
`stable_sort` use it with "position" as the last criterion (`Stably`), which is what
`std::stable_sort` promises, and `Subsequence` keeps chosen positions.  Lists of
identities go through `std::sort`, where equal elements are equal.  The types
`Constraint`, `CandidatePath` and those they are made of are the structures of
`constraint.hpp` and `candidate.hpp`.

Left out: expected and actual values of reasons, the observations recorded by
canonicalisation, `canonicalize_candidate`, codecs, names and ticks of sets.

### Durable store

| Variable | Code |
| --- | --- |
| `config` | platform of the build, `allow_initialize`, and whether opening or renaming a file may fail for the moment; fixed |
| `lock` | the owner of `path.lock` |
| `dir`, `stable` | the file at `path` and the quarantine files, as processes see them and as a loss of power would leave them |
| `tmp`, `synced` | `path.tmp`, and whether its bytes were flushed |
| `pc`, `base`, `up` | per process: the file operation it is at, the version in its memory, whether `Coordinator::open` returned |
| `damages` | damage so far, which also names the unreadable contents |

A `PersistentState` is a version, and a coordinator saves successors of what it
found, so a rolled-back state shows as a smaller version.  `Create`, `Write`,
`Flush`, `Rename` and `Return` are the steps of `save`; `Fail` is any of them
failing.  Between any two of them the process may end (`Exit`) or the power may
fail (`PowerLoss`).  Windows writes the rename through; POSIX does not sync the
directory, so `stable` lags until `WriteBack`.  Renames reach stable storage in
their order.  `Load` is the load in `DurableStore::open`, `Quarantine` the loop over
the quarantine names, `Reload` the second load in `Coordinator::open`.  On POSIX
the `fcntl` lock excludes other processes only, which is what `Instance` ranges
over; the second owner inside one process that `tests/test_persistence.cpp` tries
is outside the model, as is an error of `exists` in the quarantine loop.

`AtomicStore` is what the coordinator relies on: one owner, a save that is
applied in one step between its call and its answer or not at all, and that
survives a loss of power where the platform writes through.  The refinement
mapping (`Atomic` in `DurableStore`) turns the file operations of a save into one
call that takes effect at the rename.

### Server, workers and framing

| Variable | Code |
| --- | --- |
| `thread`, `buffer`, `session`, `taken` | per connection: where its `serve` thread is, its `FrameAssembler`, its `SessionState`, the value its `fetch_add` left |
| `next_session`, `stopping`, `stopped` | of `CoordinatorServer::Impl`; whether `stop` returned |
| `client`, `sent`, `outcome` | per connection: where the client is, the frames it sent, what a worker's last call returned |
| `toServer`, `toClient` | bytes and answers under way |
| `up` ... `barred` | the variables of `Authority` |
| `handled`, `applied`, `muted`, `accepted`, `collided` | history |

A connection is named by the boot of its client.  A `serve` thread is a loop of
`ServerReceive` (any part of the pending bytes), `HandleFrame` or `NeedsMore` or
`Unframed`, and `Leave`.  A Hello takes two steps, `HandleHello` and
`RegisterHello`, because the session identity is incremented and read in two
atomic operations.  Of a coordinator call only authorization and success are
modelled.  `Registry` is an instance of `Authority` on the same variables, so the
property `DrivesAuthority` (`Registry!Spec`) says that the server makes no
registry step that module `Authority`, and hence its theorems, did not foresee.

A worker waits for each answer; another client sends the frames of a script one
by one when it likes and ignores the answers.  `MaxHellos` bounds the Hellos the
server takes.  Answers travel whole: the worker's assembler is the same code as the
server's.  Left out: a failing `accept`, which ends `run`; payload codecs;
several boots on one connection.

## 3. Runs

Passing runs.  Deadlock is checked in all of them but `sessions`, where the system
may really stop (every client gone, the server stopped): an open coordinator can
always be flushed and a closed one opened, a store can always lose power, and an
evaluation can always be followed by another.

| Run | Properties | Instance and why it is enough | States |
| --- | --- | --- | --- |
| `authority` | `TypeOK`, `OneLiveRegistration`, `FencedNeverLive`, `PreviousBootsStayFenced`, `StoreCoversAnswers`, `EpochAdvances`, `FencingIsPermanent`, `RecoversWithinLimit` | 2 publishers, 3 boots, 2 sessions of which one may be live, 2 registrations per incarnation, 3 incarnations, 2 fenced boots at most, failing writes and damage: a re-registration, a refusal by a limit after a fencing, a full registry, and two restarts all occur | 116,144 |
| `coordinator_races` | `TypeOK`, `CurrentIsSound`, `OneCurrentPerPath`, `PreciseInvalidation`, `RetiredStaysRetired` | 2 overlapping calls, 2 contents, 2 candidates for one path with different evidence and the rejected batch that holds both, a capability advance, activation, retirement and revalidation, no store | 534,273 |
| `coordinator_recovery` | `MemoryMatchesStore`, `CurrentProvenInThisEpoch`, `GenerationsNeverDecrease`, `WatermarkCoversEvidence` | failing writes, two key invalidations, one crash and recovery at every point | 134,028 |
| `coordinator_limits` | `RetainedCurrentIsSound`, `CommitBoundsHistory`, `DiffReconstructs` | 2 sets and 2 paths that share room for one population and two results, three evaluations | 100,313 |
| `coordinator_retries` | `OneMutationPerAttempt` | 4 attempt identities, each reusable with any request | 32,775 |
| `evaluation` | `CanonicalFormIsUnique`, `AcceptedIsCanonical`, `ContradictionsAreReal`, `AdmissibleIffLawful`, `UnconsultedIsIrrelevant`, `ExplanationIsSound`, `PreferencesAgree`, `ForemostPreferenceDecides`, `ContainerOrderUnobservable` | sets of up to 3 constraints in every permutation: duplicates under two identities, one identity for two constraints, invalid ones, unsorted lists, every contradiction but those of links, sites and isolation classes, which share their code with the others; every kind of constraint, mandatory and (seven of them) preferred, every lifecycle state, 9 contexts, 43 candidates that differ in one fact each, populations up to one past each limit; `max_explanation_reasons = 4` is the least `validate_limits` allows and the bound of 8 reasons per constraint is the code's own, both exceeded. Of the accepted sets only those in `Consultable` are evaluated | 23,478 |
| `durable_store` | `AckedIsDurable`, `UnreadableBytesSurvive`, `ImplementsAtomicStore`, `VersionsNeverDecrease` | 2 processes, 3 versions, 2 damages and 2 quarantine names, all 8 configurations: a second save after a first, an interrupted one over a complete one, a second quarantine | 239,751 |
| `sessions` | `FramesHandledInOrder`, `OutcomesAreTrue`, `LostSessionsAreFenced`, `DrivesAuthority`, `CallsReturn`, `StopReturns` | 2 connections, 4 Hellos, failing writes, an assembler with room for three units; the scenarios of `MCSessions`: two workers of one publisher that mutate while the coordinator may crash, or close while the server may stop; a worker beside a client that pipelines refused, repeated, damaged, malformed and oversized frames; a worker that queries a server that stops | 79,922 |

`coordinator_*` use symmetry over identities that only compare for equality and
check no liveness property.

Fairness.  `RecoversWithinLimit` assumes weak fairness of `Open`: an operator or
supervisor restarts a coordinator that is down.  `CallsReturn` and `StopReturns`
assume that *some* thread of the server or some waiting worker runs as long as one
can (`WF_vars(Threads)`), which is what a preemptive scheduler and TCP give;
nothing makes a client connect, send, read on or leave, and nobody has to call
`stop`.  Nothing else is assumed fair.

Three properties name the cases the code does not cover, which keeps them honest
about it: `LostSessionsAreFenced` leaves out connections that got one session
identity through the race in `handle_frame`, and a full registry of fenced boots;
`CallsReturn` leaves out answers too large for a frame, which the server drops;
`VersionsNeverDecrease` leaves out a loss of power without write-through, and an
opening that may initialise the store when its second load fails for the moment.

Runs that refute what the repository says of itself (each is a finding in
`PROJECT.json` with the quotation):

| Run | What happens |
| --- | --- |
| `coordinator_eviction` | evicting a candidate population unbinds its results; they stay current when their evidence advances |
| `coordinator_key_race` | commit compares family watermarks but not key watermarks: an evaluation begun before `invalidate_key` commits as current |
| `coordinator_replayed_ack` | the retry of an advance whose write failed is acknowledged as an exact replay |
| `coordinator_snapshots` | after two evaluations of a path under different evidence the snapshot holds two entries for it, which `decode_results_snapshot` refuses; the worker reports the set as not found |

The models reproduce more such disagreements that have no run of their own:

- `fence_boot` observes every attempt with the same empty digest
  (`coordinator.cpp:613`): reusing an attempt identity for another boot is answered
  as a successful replay and fences nothing, where `README.md:408` says that such a
  reuse is rejected;
- a registration whose durable write failed is live in memory and unknown to the
  store, so the next incarnation does not fence it (`RegisterUnstored`), although
  `README.md` says that a restart fences every boot that held live authority;
  `PreviousBootsStayFenced` speaks of boots a caller was told about;
- when the boots to fence after a restart exceed `max_fenced_boots` the image is
  refused (`persistence.cpp:460`) and the coordinator never opens again, where
  `README.md:412` promises that they are fenced; `RecoversWithinLimit` is about the
  other case;
- two Hellos at once may be given one session identity (`server.cpp:158`), and the
  loss of one connection then drops the other's authority without fencing its
  boot, although `README.md:453` has each session fenced for itself;
- `stop` aborts nobody, because no session is ever put into `sessions`, and the
  `max_sessions` check of `run` counts the same empty map (`server.cpp:412`);
- `max_frame_assembly_bytes` may equal `max_frame_bytes` (`limits.cpp:66`), and then
  the largest legal frame, which has a header and a trailer too, can never be
  assembled;
- `WorkerClient::evaluate` reports `committed = true` also for a batch the
  coordinator found stale at commit (`worker.cpp:267`, `coordinator.cpp:1105`);
- a commit sets the counter of evaluation generations back to the one its
  evaluation took at the snapshot (`coordinator.cpp:1154`, `CommitEvaluate`): let one
  call take generation 1 and another 2, the first commit and begin again; it takes 2
  too, both commit, and two retained results of one path have one generation, where
  `identity.hpp:41` says that generations "increase strictly".  Which of the two
  `diff_results` takes for the newest is then not determined; a store prevents
  nothing of this;
- `candidate_digest` omits `captured_tick`: of two candidates of one path that
  differ in it only, `evaluate_batch` keeps the first submitted, so with an age
  bound the order of submission decides the answer, although `evaluator.hpp`
  says "the caller's container order is never observable".  In the population
  <<tick 1, tick 3>> at tick 3 with an age bound of 1, `ContainerOrderUnobservable`
  fails; the run uses one tick per path;
- `detect_contradictions` refuses sets that can be satisfied: a required distinct
  count of two or more with a forbidden shared relation (they say the same);
  required tiers or sites {1, 2} with 2 forbidden (tier 1 satisfies both); two
  isolation classes (an entity may attest both); and it counts preferences,
  which nothing must satisfy.  `ContradictionsAreReal` speaks of the others;
- a failure-domain relation counts one domain of the kind per entity
  (`scan_domains`), where `README.md` speaks of the union of the domain sets;
- `open` of an unreadable store that it may quarantine starts at epoch 1
  (`Open`), so epochs are monotonic only while the store is readable; this is
  why `EpochAdvances` speaks of openings that find a readable store;
- `drop_session` leaves a boot neither live nor fenced (`DropSession`), so a
  restart does not fence every boot it once knew;
- watermarks move in memory before the write and stay when it fails
  (`ApplyEvidenceRequirements`, `InvalidateKey`), and a later write stores them,
  although `README.md:426` says that memory does not advance when the write fails;
  this is why `MemoryMatchesStore` does not speak of them, and
  `WatermarkCoversEvidence` shows that they only run ahead;
- publishing another content takes a set out of `RETIRED` (`Published`);
- a boot fenced between the two phases of its evaluation still commits
  (`CommitEvaluate` does not authorize again);
- a population that `evaluate_batch` rejected is committed: it supersedes the
  set's results and is retained (`CommitEvaluate`).

Unknown evidence for a numeric preference has margin 0 and so ranks ahead of a
known figure that misses its bound; the cap of eight reasons per constraint is
applied in the order of emission, so which reason of one constraint is primary
may depend on it; and `consume_planner_rank` does not make the planner family
consulted.  No document says otherwise.

Two more things that no document contradicts: publishing an
identical content demotes the set's current results although no generation
moves; and a topology advance reduces results that only consulted capabilities
or failure domains, because `dependency_keys` binds their nodes and links
(`PreciseInvalidation` allows exactly that).

## 4. Proofs

`AuthorityProofs` proves, for every set of publishers, boots, sessions and
attempts, every limit, failing writes and damaged stores:

| Theorem | Statement |
| --- | --- |
| `TypeCorrect` | `Spec => []TypeOK` |
| `AtMostOneLive` | `Spec => []OneLiveRegistration` |
| `NoFencedLive` | `Spec => []FencedNeverLive` |
| `FencingPermanent` | `Spec => FencingIsPermanent` |
| `AnswersAreStored` | `Spec => []StoreCoversAnswers` |
| `RestartFences` | `Spec => []PreviousBootsStayFenced` |
| `EpochsAdvance` | `Spec => EpochAdvances` |

The assumptions on constants are `AuthorityLimits` (limits are positive,
`validate_limits`) and `AuthorityConfig` (in particular finitely many boots: a
boot identity is 64 bits).  No theorem has another hypothesis.

The first four rest on `RegistryInv`: the type invariant, the two properties
and "a process that is down holds nothing", which `Open` needs because it does
not touch the registrations.  Fencing, dropping a session and superseding a
boot only take live flags away (`Dims`), so each action reduces to that fact
plus, for a registration, one appended live registration (`AppendLive`).

The other three rest on `StoreInv`, that is `StoreCoversAnswers` with
`PreviousBootsStayFenced`.  Neither is inductive alone: `Open` fences what the
store names, so what earlier incarnations answered for has to be named by the
store (`StoreCoversAnswers`), and a later write replaces the store by what is in
memory, so what is barred has to be fenced in memory.  Operations that change
memory without writing (`RegisterRefused`, `DropSession`, a failed write) only
move live boots to fenced, or take boots out of `answered`; a write names all
that is live or fenced (`WriteCovers`).

`DurableStoreProofs` proves, for any number of processes and versions:

| Theorem | Statement | Hypothesis |
| --- | --- | --- |
| `Invariance` | `Spec => []IInv` | |
| `AnswersFromTheStore` | `Spec => []AckedIsDurable` | |
| `NeverRolledBack` | `Spec => VersionsNeverDecrease` | |
| `UnreadableBytesKept` | `Spec => []UnreadableBytesSurvive` | `MaxDamages <= MaxQuarantine` |
| `RefinesAtomicStore` | `Spec => ImplementsAtomicStore` | |

`IInv` is the type invariant with: a process that is not closed holds the lock
(`LockExcludes`); what `path.tmp` holds at each point of a save (`TemporaryFile`); an
unusable store exists (`UnusableExists`); a coordinator that is open saves
successors of what the store holds (`SavesSuccessors`); after the rename the
store holds the new version (`RenamedHolds`).  The refinement needs
`TemporaryFile` (what is renamed is complete and flushed) and `LockExcludes` (only the
owner renames).  `NeverRolledBack` adds `FoundVersion`, that a process about to save
has the stored version in memory, and `WrittenThrough`.  `UnreadableBytesKept`
adds `SaversRead` (nobody who found unreadable bytes gets as far as saving) and
`AsideAccounted` (each quarantined file is one damage), which is where the
hypothesis comes from: with more damage than quarantine names the loop gives up
and the next save replaces the bytes.  TLC confirms each of these invariants on
the instance of `durable_store`.

`CoordinatorProofs` proves, for any sets, definitions, candidates, callers and
concurrent calls, any limits, with and without a store, with failing writes,
crashes and restarts:

| Theorem | Statement | Hypothesis |
| --- | --- | --- |
| `Invariance` | `Spec => []IInv` | |
| `TypeCorrect` | `Spec => []TypeOK` | |
| `CurrentIsUnique` | `Spec => []OneCurrentPerPath` | |
| `RetainedIsSound` | `Spec => []RetainedCurrentIsSound` | |
| `EveryCurrentIsSound` | `Spec => []CurrentIsSound` | `MaxSets <= MaxPopulations` |
| `AnswersFromStore` | `Spec => []MemoryMatchesStore` | |
| `CurrentIsOfThisEpoch` | `Spec => []CurrentProvenInThisEpoch` | |
| `WatermarksCoverEvidence` | `Spec => []WatermarkCoversEvidence` | |
| `GenerationsGrow` | `Spec => GenerationsNeverDecrease` | |
| `RetiredForGood` | `Spec => RetiredStaysRetired` | |
| `HistoryIsBounded` | `Spec => CommitBoundsHistory` | |
| `InvalidationIsPrecise` | `Spec => PreciseInvalidation` | |
| `OneMutationEach` | `Spec => []OneMutationPerAttempt` | `Remembering` |

The assumptions are `CoordinatorLimits`, `CoordinatorInputs` (the inputs have
their types) and `FiniteCandidates` (a candidate is built from bounded lists of
64-bit identities; needed because retention counts results).

`IInv` has three parts.  `StateInv` speaks of one state that memory or the store
can hold: results have distinct identities and belong to published sets, one
current result per set and path, a current admissible one agrees with its set
and, while its candidate is retained, with the evidence in force
(`AdmissibleMatches`); watermarks cover the evidence; populations are of
different sets.  Soundness is not inductive without the rest: an advance finds
the results it must reduce through the keys their retained candidates bind, a
commit compares the family watermarks it read at the snapshot, and that this
catches every advance in between is `WatermarksCover`.  `StoreInv` compares memory
with the store, also while the coordinator is down (the next one opens on it),
and says that stored watermarks are never ahead of memory's.  `CallsInv` says that
a call between its phases was begun by this incarnation on a published set.

`EveryCurrentIsSound` is the exact complement of the `coordinator_eviction`
finding: with room for a population of each set nothing is evicted while current
(`NothingEvicted`), and then no current result outlives its evidence.  The code's
defaults are 64 sets (`limits.hpp:16`) and 16 populations (`coordinator.hpp:45`), so
the hypothesis is one that a deployment can meet and the defaults do not.

`OneMutationEach` has the hypothesis that the window remembers every attempt: each
call carries an attempt identity, there are no more of them than `MaxAttempts`, and
no restart clears the window, which is not stored.  Without it the statement is
false by design (`observe_attempt` forgets the oldest attempt, a restart all of
them).  The mutations are counted as a set (`MutationsUpTo`).  `RetryInv` is the
inductive part: an attempt stands in the window once, so that a fresh one finds
room by the pigeonhole principle (`Remembers`), and the bound holds of the last
evaluation number *and* of the number of each evaluation in progress, because a
commit sets the counter to its own number (`coordinator.cpp:1154`).

`ReportsProofs` proves, under the same assumptions:

| Theorem | Statement |
| --- | --- |
| `SerialResultsToldApart` | `Spec /\ []OneEvaluation => []ToldApart(mem.results)`: no two retained results of a path have one generation |
| `SerialDiffsReconstruct` | `Spec /\ []OneEvaluation => DiffReconstructs` |

`OneEvaluation` says that at most one evaluation is between its two phases.  The
hypothesis is needed: section 3 gives two overlapping evaluations after which
results of one path cannot be told apart, and then "the newest" that a diff
compares is not determined.  `coordinator_limits`, which checks `DiffReconstructs`,
has one thread for that reason.  The lemma `SnapshotDiffApplies` has no such
hypothesis and speaks of any two states whose results can be told apart.
`GenerationInv` is the inductive part: no result is ahead of the counter of
memory or store, and an evaluation in progress has the last generation given out.

`SessionsProofs` proves, for any clients, scripts, grants and limits, with failing
writes, crashes and stops:

| Theorem | Statement |
| --- | --- |
| `ServerDrivesAuthority` | `Spec => DrivesAuthority` |
| `HandledInOrder` | `Spec => []FramesHandledInOrder` |
| `CallsReportTheTruth` | `Spec => []OutcomesAreTrue` |
| `LostSessionsFenced` | `Spec => []LostSessionsAreFenced` |

The assumptions are `FramingLimits`, `SessionLimits` (`validate_limits`) and
`SessionConstants`.

- `ServerDrivesAuthority` is the refinement, step by step, under `Typed`; the only
  fact beyond types is `HelloPending` (a Hello in its second step took an identity).
  It carries every theorem of `AuthorityProofs` to the registry behind the server.
- `HandledInOrder` rests on `FrameInv`: buffer and wire together carry the frames
  sent and not yet handled.  `Carries` says so with a function from frames to
  offsets, so that appending a frame and taking one off change the function at one
  end and no induction over the stream is needed.
- `CallsReportTheTruth` rests on `CallInv`, which follows a worker's call through
  its stages: the request under way, applied at most once and not before it was
  handled; the answer under way and true; or the connection ended, when nothing
  more will be handled.
- `LostSessionsFenced` rests on `FenceInv`: the boot of an accepted session is fenced
  or holds a live registration that nobody else's session loss drops and that its
  own finds (`Keeps`).  It uses `StoreInv` of `AuthorityProofs` for restarts, through the
  refinement.

`EvaluatorProofs` proves, for definitions, contexts and populations of any size
and number and for any limits:

| Theorem | Statement |
| --- | --- |
| `OneCanonicalForm` | `Spec => []CanonicalFormIsUnique` |
| `AcceptedVerifies` | `Spec => []AcceptedIsCanonical` |
| `ContradictionsExclude` | of any sequence of constraints, context and well-formed candidate: the constraints that an irreconcilable contradiction of `detect_contradictions` names are not all satisfied |
| `RefusalsAreReal` | `Spec => []ContradictionsAreReal` |
| `OnlyConsultedMatters` | `Spec => []UnconsultedIsIrrelevant` |
| `LawfulAreAdmitted` | `Spec => []AdmissibleIffLawful` |
| `PreferencesAreConstraints` | `Spec => []PreferencesAgree` |
| `ForemostPreferenceRanks` | `Spec => []ForemostPreferenceDecides` |
| `ExplanationsAreSound` | `Spec => []ExplanationIsSound` |
| `ContainerOrderHidden` | `Spec => [](call # None /\ TicksAgree(ToSet(call.candidates)) => ContainerOrderUnobservable)` |

The assumptions are the types of the inputs (`ContextAssumption`,
`SubmissionAssumption`, `CandidateAssumption`: what the C++ structures can hold), positive
limits (`EvaluatorLimitsAssumption`) and the floors of `validate_limits`
(`LimitFloorsAssumption`).  Two invariants make every theorem one about functions: the
definition is the outcome of a submission (`DefinitionInv`) and the answer is
`evaluate_batch` of the call's inputs (`CallInv`).  The arguments:

- **Canonical form.**  `canonical_less` is a strict weak order whose ties are
  `equivalent_payload` (`CanonicalOrders`, from `PayloadsOrder`: the payload is
  compared as one list of numbers).  Sorting with it and keeping the first of each
  run gives the one increasing sequence of the payloads, each with its least
  identity (`CanonicalConstraintsAre`), and a set has only one increasing sequence
  (`AscendingIsUnique`); entity lists likewise (`CanonicalLists`).  So the order of submission
  leaves no trace (`ShufflesAgree`), and canonicalizing again changes nothing.
- **Contradictions.**  `ContradictionsExclude` treats entities both required and
  forbidden, two localities, the counts of distinct domains, and the pigeonhole of a
  hop budget against the required nodes; `RefusalsAreReal` adds that canonical
  constraints mean what the submitted ones meant (`RelistedSatisfies`).
- **Consulted families.**  Each check reads the current generation of one family
  (`ChecksReadOneFamily`), which is among those its kind reports (`KindFamilies`); the
  gate has refused unknown kinds before a constraint is evaluated (`VerifiedKinds`).
- **Admission.**  For each of the kinds the check returns no reason exactly when
  `Satisfies` holds (`MandatoryIff`, one lemma per check), given what validation left
  of the constraint (`ValidShape`, `ValidBound`).  The gate returns none exactly when its
  six stages have nothing to object (`GateIs`).  A refusal cannot be lost on the
  way: every reason code of a stage or a check gives an outcome that is not
  admissible (`ReasonsRefuse`), and cutting reasons at the per-constraint cap
  (`PushIs`) and at the two bounds (`BoundedReasons`) never empties a list.  `RecordIs`
  puts these together.
- **Preferences.**  `SlotIs` compares the margins `evaluate_preference` computes with the
  checks, kind by kind.  That the foremost one decides follows from the
  lexicographic comparison of vectors of equal length and from `RankingIs`: the
  order of an answer is a stable arrangement under a strict total order.
- **Explanations.**  `reason_less` is a strict weak order (`ReasonsOrder`), so the
  sort puts a foremost reason first; the bounds keep the first (`BoundedReasons`),
  and the foremost reason determines the primary code (`PrimaryIs`).  Reasons carry
  the ordinal of their constraint, so the first one is about the first failing
  constraint (`EarlierConstraintFirst`).  When nothing was cut the lengths agree, and then
  the reasons kept are all that were pushed (`FlattenShortens`).
- **Container order.**  A conflict exists between neighbours of the sorted population
  exactly when any two candidates conflict (`ConflictsAre`), and what is kept is the
  increasing sequence of the paths (`KeptIsAscending`), which does not depend on the
  order.  The hypothesis `TicksAgree` is the exception of section 3: candidates of
  one digest may differ in `captured_tick`.  The run meets it.

`OrderingProofs` proves `RankingIsTotalOrder`: for any records, candidates and policy
the predicate handed to `std::stable_sort` is irreflexive, transitive and total on
candidates of different paths.  A comparison of three things is the triple of its
values (`Triple`), and one of a pair with its reverse is `Turned`; both are kept by
falling back to another comparison (`OrElseKeeps`), by figures that may be missing
(`OptionalOrders`), and by the lexicographic comparison of sequences of any lengths
(`LexicalOrders`), whose first difference exists by well-foundedness.  For the
sorts it shows that `Ascending` is a bijection in increasing order
(`AscendingSorts`) and the only one (`AscendingIsUnique`), that "position last" makes a
strict weak order total (`StablyOrders`), and hence what a stable sort returns
(`ArrangedSorts`).  Places are cardinalities, so no induction over sequences is
needed.

TLC confirmed each inductive invariant (`IInv`, `GenerationInv`, `RetryInv`, `FrameInv`, `CallInv`,
`FenceInv`) on the instances of the runs before it was proved.

Only model-checked: the liveness properties (`RecoversWithinLimit`, `CallsReturn`,
`StopReturns`), which are out of the prover's reach, and the parts of properties that
a hypothesis above leaves out.  Every invariant and every other action property of a
passing run has a theorem.  Two choices of form make that possible: sorts are
written with places instead of the library's `SortSeq`, and counts as cardinalities
instead of folds, because the prover knows neither `SortSeq` nor induction with an
operator as parameter; where an induction over a recursive function is unavoidable
(`FlattenSeq`, `bound_reasons`) the proofs take the least counterexample.

## 5. Not modelled

- The codecs of messages, definitions, candidates, results and the stored state:
  field-by-field serialisation, whose result is the value itself here.  Digests
  and checksums are injective: equal digests are equal contents.
- The currentness report, route-fabric handoffs, explanations and definitions
  snapshots: read-only projections of state that is modelled.
- `canonicalize_candidate`, `diff_constraint_sets`, `diff_evidence_requirements`.
- Socket set-up, the facade (`fabric.cpp`), the host program, examples and
  benchmarks: wiring.
- Undefined behaviour of `run` and `stop` touching `threads` at the same time
  (`server.cpp:418` and `435`): `Joined` waits for the threads `run` had started.

## 6. Status

Modelled, checked and proved: authority, mutation attempts, lifecycle,
invalidation, coordinator, constraint sets, ordering, evaluator, durable store and
its abstract specification, framing, sessions, results reports.  What could be
added next: `canonicalize_candidate` (evidence vectors as sequences),
`diff_constraint_sets` and definitions snapshots beside the results diff, and the
currentness report against the definition of soundness.

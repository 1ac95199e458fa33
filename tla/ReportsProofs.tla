---------------------------- MODULE ReportsProofs ----------------------------
(***************************************************************************)
(* Proofs about Reports: a diff of two results snapshots tells a reader    *)
(* what the second one says wherever generations tell the results of a     *)
(* path apart, which they do as long as evaluations do not overlap.        *)
(***************************************************************************)
EXTENDS Reports, CoordinatorProofs

-----------------------------------------------------------------------------
(* Diffs *)

\* What a reader holds of a view.
Shown(v) == [path |-> v.path, outcome |-> v.outcome, state |-> v.state]

OnePerPath(views) == \A a, b \in views : a.path = b.path => a = b

\* What diff_results compares of two views of a path.
Compared(v) == <<v.outcome, v.state, v.authority, v.digest>>

\* The changes between the views that participate.
Diff(left, right) ==
    Changes(left, right)
        \cup {[kind |-> "Disappeared", path |-> a.path,
               from |-> Carried("Disappeared", a)] : a \in Missing(left, right)}
        \cup {[kind |-> "Appeared", path |-> b.path,
               to |-> Carried("Appeared", b)] : b \in Missing(right, left)}

\* The change of a path that both sides have.
Change(a, b) ==
    [kind |-> ChangeKind(a, b), path |-> a.path,
     from |-> Carried(ChangeKind(a, b), a), to |-> Carried(ChangeKind(a, b), b)]

\* A change carries the new state, and the new outcome when it is another one.
LEMMA ChangeCarries ==
    ASSUME NEW a, NEW b
    PROVE  /\ Change(a, b).path = a.path
           /\ Change(a, b).kind # "Disappeared"
           /\ Change(a, b).to.state = b.state
           /\ \/ Change(a, b).kind \in OutcomeKind /\ Change(a, b).to.outcome = b.outcome
              \/ Change(a, b).kind \notin OutcomeKind /\ a.outcome = b.outcome
  <1>1. \/ ChangeKind(a, b) = "OutcomeChanged"
        \/ /\ ChangeKind(a, b) \in {"CurrentnessChanged", "AuthorityGenerationChanged",
                                    "EvidenceDigestChanged"}
           /\ a.outcome = b.outcome
    <2>1. CASE a.outcome # b.outcome
      BY <2>1 DEF ChangeKind
    <2>2. CASE a.outcome = b.outcome /\ a.state # b.state
      BY <2>2 DEF ChangeKind
    <2>3. CASE a.outcome = b.outcome /\ a.state = b.state /\ a.authority # b.authority
      BY <2>3 DEF ChangeKind
    <2>4. CASE a.outcome = b.outcome /\ a.state = b.state /\ a.authority = b.authority
      BY <2>4 DEF ChangeKind
    <2> QED
      BY <2>1, <2>2, <2>3, <2>4
  <1> QED
    BY <1>1 DEF Change, Carried, OutcomeKind

\* The changes of paths that both sides have are of views that differ.
LEMMA ChangesAre ==
    ASSUME NEW left, NEW right
    PROVE  /\ \A d \in Changes(left, right) : \E a \in left, b \in right :
                 d = Change(a, b) /\ a.path = b.path /\ Compared(a) # Compared(b)
           /\ \A a \in left, b \in right :
                 a.path = b.path /\ Compared(a) # Compared(b) => Change(a, b) \in Changes(left, right)
  <1> DEFINE pairs == {q \in left \X right : q[1].path = q[2].path
                         /\ Compared(q[1]) # Compared(q[2])}
  <1>1. Changes(left, right) = {Change(p[1], p[2]) : p \in pairs}
    BY DEF Changes, Change, Compared
  <1>2. ASSUME NEW d \in Changes(left, right)
        PROVE  \E a \in left, b \in right :
                  d = Change(a, b) /\ a.path = b.path /\ Compared(a) # Compared(b)
    <2>1. PICK p \in pairs : d = Change(p[1], p[2])
      BY <1>1
    <2>2. p[1] \in left /\ p[2] \in right
      OBVIOUS
    <2> QED
      BY <2>1, <2>2
  <1>3. ASSUME NEW a \in left, NEW b \in right, a.path = b.path, Compared(a) # Compared(b)
        PROVE  Change(a, b) \in Changes(left, right)
    <2>1. <<a, b>> \in pairs
      BY <1>3
    <2>2. Change(<<a, b>>[1], <<a, b>>[2]) \in Changes(left, right)
      BY <1>1, <2>1
    <2> QED
      BY <2>2
  <1> QED
    BY <1>2, <1>3

\* The entry a change leaves with a reader.
Entry(held, d) ==
    [path |-> d.path,
     outcome |-> IF d.kind \in OutcomeKind THEN d.to.outcome
                 ELSE (CHOOSE h \in held : h.path = d.path).outcome,
     state |-> d.to.state]

LEMMA PatchedIs ==
    ASSUME NEW held, NEW diff
    PROVE  Patched(held, diff)
              = {h \in held : \A d \in diff : h.path # d.path}
                  \cup {Entry(held, d) : d \in {x \in diff : x.kind # "Disappeared"}}
  BY DEF Patched, Entry

\* Applied to what a reader holds of one side, the changes give the other side,
\* when each has one view of a path.
LEMMA DiffApplies ==
    ASSUME NEW left, OnePerPath(left), NEW right, OnePerPath(right)
    PROVE  Patched({Shown(a) : a \in left}, Diff(left, right)) = {Shown(b) : b \in right}
  <1> DEFINE held == {Shown(a) : a \in left}
             diff == Diff(left, right)
             Gone(a) == [kind |-> "Disappeared", path |-> a.path,
                         from |-> Carried("Disappeared", a)]
             New(b) == [kind |-> "Appeared", path |-> b.path,
                        to |-> Carried("Appeared", b)]
  <1>1. \A d \in diff :
           \/ \E a \in left, b \in right :
                 d = Change(a, b) /\ a.path = b.path /\ Compared(a) # Compared(b)
           \/ \E a \in Missing(left, right) : d = Gone(a)
           \/ \E b \in Missing(right, left) : d = New(b)
    BY ChangesAre DEF Diff
  <1>2. /\ \A a \in left, b \in right :
              a.path = b.path /\ Compared(a) # Compared(b) => Change(a, b) \in diff
        /\ \A a \in Missing(left, right) : Gone(a) \in diff
        /\ \A b \in Missing(right, left) : New(b) \in diff
    BY ChangesAre DEF Diff
  <1>3. /\ \A a : Gone(a).kind = "Disappeared" /\ Gone(a).path = a.path
        /\ \A b : /\ New(b).kind = "Appeared" /\ New(b).path = b.path
                  /\ New(b).to.outcome = b.outcome /\ New(b).to.state = b.state
    BY DEF Carried, OutcomeKind
  <1>4. \A a : Shown(a).path = a.path /\ Shown(a).outcome = a.outcome
    BY DEF Shown
  <1>5. \A a \in left : (CHOOSE h \in held : h.path = a.path) = Shown(a)
    <2> SUFFICES ASSUME NEW a \in left
                 PROVE  (CHOOSE h \in held : h.path = a.path) = Shown(a)
      OBVIOUS
    <2>1. Shown(a) \in held /\ Shown(a).path = a.path
      BY <1>4
    <2>2. \A h \in held : h.path = a.path => h = Shown(a)
      BY <1>4 DEF OnePerPath
    <2> HIDE DEF held
    <2> QED
      BY <2>1, <2>2
  <1>6. ASSUME NEW a \in left, NEW b \in right, a.path = b.path
        PROVE  Entry(held, Change(a, b)) = Shown(b)
    <2> DEFINE d == Change(a, b)
               h == CHOOSE x \in held : x.path = a.path
    <2>1. h.outcome = a.outcome
      BY <1>4, <1>5
    <2>2. Entry(held, d) = [path |-> d.path,
                            outcome |-> IF d.kind \in OutcomeKind THEN d.to.outcome
                                        ELSE (CHOOSE x \in held : x.path = d.path).outcome,
                            state |-> d.to.state]
      BY DEF Entry
    <2>3. /\ d.path = a.path /\ d.to.state = b.state
          /\ \/ d.kind \in OutcomeKind /\ d.to.outcome = b.outcome
             \/ d.kind \notin OutcomeKind /\ a.outcome = b.outcome
      BY ChangeCarries
    <2> HIDE DEF d, held
    <2>4. Entry(held, d) = [path |-> b.path, outcome |-> b.outcome, state |-> b.state]
      BY <1>6, <2>1, <2>2, <2>3
    <2> QED
      BY <2>4 DEF Shown, d
  <1>7. \A b : Entry(held, New(b)) = Shown(b)
    BY <1>3 DEF Entry, Shown, OutcomeKind
  <1>8. \A a, b : Compared(a) = Compared(b) /\ a.path = b.path => Shown(a) = Shown(b)
    BY DEF Compared, Shown
  <1>9. /\ \A a \in left : a \in Missing(left, right) \/ \E b \in right : b.path = a.path
        /\ \A b \in right : b \in Missing(right, left) \/ \E a \in left : a.path = b.path
        /\ \A a \in Missing(left, right) : a \in left /\ \A b \in right : b.path # a.path
        /\ \A b \in Missing(right, left) : b \in right /\ \A a \in left : a.path # b.path
    BY DEF Missing
  <1>10. \A a, b : Change(a, b).path = a.path /\ Change(a, b).kind # "Disappeared"
    BY ChangeCarries
  <1> DEFINE kept == {h \in held : \A d \in diff : h.path # d.path}
             said == {Entry(held, d) : d \in {x \in diff : x.kind # "Disappeared"}}
  <1>11. Patched(held, diff) = kept \cup said
    BY PatchedIs
  <1>12. kept \subseteq {Shown(b) : b \in right}
    <2> SUFFICES ASSUME NEW a \in left, \A d \in diff : a.path # d.path
                 PROVE  \E b \in right : Shown(a) = Shown(b)
      BY <1>4
    <2> HIDE DEF diff, Gone
    <2>1. PICK b \in right : b.path = a.path
      BY <1>2, <1>3, <1>9
    <2>2. Compared(a) = Compared(b)
      BY <1>2, <1>10, <2>1
    <2> QED
      BY <1>8, <2>1, <2>2
  <1>13. said \subseteq {Shown(b) : b \in right}
    <2> SUFFICES ASSUME NEW d \in diff, d.kind # "Disappeared"
                 PROVE  \E b \in right : Entry(held, d) = Shown(b)
      OBVIOUS
    <2> HIDE DEF diff, held, Gone, New
    <2> QED
      BY <1>1, <1>3, <1>6, <1>7, <1>9
  <1>14. ASSUME NEW b \in right
         PROVE  Shown(b) \in kept \cup said
    <2> HIDE DEF diff, Gone, New
    <2>1. CASE b \in Missing(right, left)
      BY <1>2, <1>3, <1>7, <2>1
    <2>2. CASE b \notin Missing(right, left)
      <3>1. PICK a \in left : a.path = b.path
        BY <1>9, <2>2
      <3>2. CASE Compared(a) # Compared(b)
        BY <1>2, <1>6, <1>10, <3>1, <3>2
      <3>3. CASE Compared(a) = Compared(b)
        <4>1. Shown(b) = Shown(a) /\ Shown(a) \in held
          BY <1>8, <3>1, <3>3
        <4>2. \A d \in diff : d.path # a.path
          BY <1>1, <1>3, <1>9, <1>10, <3>1, <3>3 DEF OnePerPath
        <4> QED
          BY <1>4, <4>1, <4>2
      <3> QED
        BY <3>2, <3>3
    <2> QED
      BY <2>1, <2>2
  <1> HIDE DEF kept, said, held, diff
  <1>15. Patched(held, diff) = {Shown(b) : b \in right}
    BY <1>11, <1>12, <1>13, <1>14
  <1> QED
    BY <1>15 DEF held, diff

-----------------------------------------------------------------------------
(* Snapshots *)

\* Path and generation, which diff_results compares to find the newest result of
\* a path, tell the results of a set apart.
ToldApart(results) ==
    \A q, r \in results :
        q.set = r.set /\ q.path = r.path /\ q.generation = r.generation => q = r

\* The results of a set that participate in a diff.
NewestOf(st, s) ==
    {q \in ResultsOf(st, s) :
        \A p \in ResultsOf(st, s) : p.path = q.path => p.generation <= q.generation}

\* The newest views of a snapshot are those of the newest results, one for each
\* path, and show what the state says of them.
LEMMA NewestViews ==
    ASSUME NEW st \in State, ToldApart(st.results), NEW s
    PROVE  LET views == Newest(snapshot_results(st, s).entries)
           IN OnePerPath(views) /\ LatestOf(st, s) = {Shown(v) : v \in views}
  <1> DEFINE views == Newest(snapshot_results(st, s).entries)
             own == ResultsOf(st, s)
             top == NewestOf(st, s)
  <1>1. /\ st.results \in SUBSET Result
        /\ \A r \in st.results : r.generation \in Nat
    BY StateFields DEF Result
  <1>2. /\ \A r \in own : r \in st.results /\ r.set = s
        /\ \A r \in top : r \in own
        /\ \A r \in own : r \in top <=> \A p \in own : p.path = r.path => p.generation <= r.generation
    BY DEF ResultsOf, NewestOf
  <1>3. \A r : /\ View(r).path = r.path /\ View(r).generation = r.generation
               /\ Shown(View(r)) = [path |-> r.path, outcome |-> r.outcome, state |-> r.state]
    BY DEF View, Shown
  <1>4. snapshot_results(st, s).entries = {View(r) : r \in own}
    BY DEF snapshot_results
  <1> DEFINE entries == {View(r) : r \in own}
  <1>5. views = {a \in entries : \A b \in entries : b.path = a.path => b.generation <= a.generation}
    BY <1>4 DEF Newest
  <1>6. LatestOf(st, s) = {[path |-> r.path, outcome |-> r.outcome, state |-> r.state] : r \in top}
    BY DEF LatestOf, NewestOf
  <1> HIDE DEF own, top, views
  <1>7. ASSUME NEW v \in views PROVE \E r \in top : v = View(r)
    <2>1. PICK r \in own : v = View(r)
      BY <1>5
    <2>2. \A p \in own : View(p).path = v.path => View(p).generation <= v.generation
      BY <1>5
    <2>3. r \in top
      BY <1>2, <1>3, <2>1, <2>2
    <2> QED
      BY <2>1, <2>3
  <1>8. ASSUME NEW r \in top PROVE View(r) \in views
    <2>1. \A p \in own : View(p).path = View(r).path => View(p).generation <= View(r).generation
      BY <1>2, <1>3
    <2>2. View(r) \in entries
      BY <1>2
    <2> QED
      BY <1>5, <2>1, <2>2
  <1>9. \A q, r \in top : q.path = r.path => q = r
    <2> SUFFICES ASSUME NEW q \in top, NEW r \in top, q.path = r.path
                 PROVE  q = r
      OBVIOUS
    <2>1. /\ q.generation \in Nat /\ r.generation \in Nat
          /\ q.generation <= r.generation /\ r.generation <= q.generation
      BY <1>1, <1>2
    <2>2. q.generation = r.generation
      BY <2>1
    <2> QED
      BY <1>2, <2>2 DEF ToldApart
  <1>10. OnePerPath(views)
    <2> SUFFICES ASSUME NEW a \in views, NEW b \in views, a.path = b.path
                 PROVE  a = b
      BY DEF OnePerPath
    <2> QED
      BY <1>3, <1>7, <1>9
  <1>11. LatestOf(st, s) = {Shown(v) : v \in views}
    <2>1. LatestOf(st, s) = {Shown(View(r)) : r \in top}
      BY <1>3, <1>6
    <2> QED
      BY <1>7, <1>8, <2>1
  <1> QED
    BY <1>10, <1>11 DEF views

\* A reader that applies the diff of the snapshots of two states whose results
\* are told apart holds what the second one says, whatever lies between them.
LEMMA SnapshotDiffApplies ==
    ASSUME NEW st \in State, ToldApart(st.results),
           NEW tt \in State, ToldApart(tt.results), NEW s
    PROVE  LatestOf(tt, s)
              = Patched(LatestOf(st, s), diff_results(snapshot_results(st, s), snapshot_results(tt, s)))
  <1> DEFINE left == Newest(snapshot_results(st, s).entries)
             right == Newest(snapshot_results(tt, s).entries)
  <1>1. OnePerPath(left) /\ LatestOf(st, s) = {Shown(v) : v \in left}
    BY NewestViews
  <1>2. OnePerPath(right) /\ LatestOf(tt, s) = {Shown(v) : v \in right}
    BY NewestViews
  <1>3. diff_results(snapshot_results(st, s), snapshot_results(tt, s)) = Diff(left, right)
    BY DEF diff_results, Diff
  <1> HIDE DEF left, right
  <1> QED
    BY <1>1, <1>2, <1>3, DiffApplies

-----------------------------------------------------------------------------
(* Generations *)

\* At most one evaluation is between its two phases.
OneEvaluation ==
    \A t, u \in Thread :
        thread[t].phase = "evaluating" /\ thread[u].phase = "evaluating" => t = u

Reached(st) == \A r \in st.results : r.generation <= st.last

\* Memory and store count no generation that a result is ahead of, and an
\* evaluation has the last generation given out, which no result has yet.
GenerationInv ==
    /\ ToldApart(mem.results)
    /\ Reached(mem)
    /\ Durable => Reached(disk.state)
    /\ \A t \in Thread : thread[t].phase = "evaluating" =>
          /\ thread[t].generation = mem.last
          /\ \A r \in mem.results : r.generation < mem.last

\* Some of `results`, with other states.
Relabelled(results, new) ==
    \A q \in new : \E r \in results : Id(q) = Id(r) /\ q.generation = r.generation

\* Changing states does not bring results together.
LEMMA RelabelledApart ==
    ASSUME NEW results, ToldApart(results), NEW new, Relabelled(results, new),
           \A q, r \in new : Id(q) = Id(r) => q = r
    PROVE  ToldApart(new)
  <1> SUFFICES ASSUME NEW q \in new, NEW r \in new,
                      q.set = r.set, q.path = r.path, q.generation = r.generation
               PROVE  q = r
    BY DEF ToldApart
  <1>1. PICK x \in results : Id(q) = Id(x) /\ q.generation = x.generation
    BY DEF Relabelled
  <1>2. PICK y \in results : Id(r) = Id(y) /\ r.generation = y.generation
    BY DEF Relabelled
  <1>3. x = y
    BY <1>1, <1>2 DEF ToldApart, Id
  <1> QED
    BY <1>1, <1>2, <1>3

\* A result keeps its generation and identity whatever its state becomes.
LEMMA StateChangeKeeps ==
    ASSUME NEW r \in Result, NEW x \in ResultState
    PROVE  /\ Id([r EXCEPT !.state = x]) = Id(r)
           /\ [r EXCEPT !.state = x].generation = r.generation
  BY DEF Result, Id

LEMMA DemotedRelabels ==
    ASSUME NEW results \in SUBSET Result, NEW targets
    PROVE  Relabelled(results, Demoted(results, targets))
  <1> SUFFICES ASSUME NEW q \in Demoted(results, targets)
               PROVE  \E r \in results : Id(q) = Id(r) /\ q.generation = r.generation
    BY DEF Relabelled
  <1>1. PICK r \in results : q = r \/ q = [r EXCEPT !.state = "RevalidationRequired"]
    BY DEF Demoted
  <1>2. r \in Result /\ "RevalidationRequired" \in ResultState
    BY DEF ResultState
  <1>3. /\ Id([r EXCEPT !.state = "RevalidationRequired"]) = Id(r)
        /\ [r EXCEPT !.state = "RevalidationRequired"].generation = r.generation
    BY <1>2, StateChangeKeeps
  <1> QED
    BY <1>1, <1>3

LEMMA RecoveredRelabels ==
    ASSUME NEW results \in SUBSET Result
    PROVE  Relabelled(results, Recovered(results))
  <1> SUFFICES ASSUME NEW q \in Recovered(results)
               PROVE  \E r \in results : Id(q) = Id(r) /\ q.generation = r.generation
    BY DEF Relabelled
  <1>1. PICK r \in results : q = [r EXCEPT !.state = "RecoveredUnproven"]
    BY DEF Recovered
  <1>2. r \in Result /\ "RecoveredUnproven" \in ResultState
    BY DEF ResultState
  <1> QED
    BY <1>1, <1>2, StateChangeKeeps

\* The results after a commit are new or earlier ones.
LEMMA SupersedingRelabels ==
    ASSUME NEW results \in SUBSET Result, NEW new, NEW s
    PROVE  Relabelled(results, Superseding(results, new, s) \ new)
  <1> SUFFICES ASSUME NEW q \in Superseding(results, new, s), q \notin new
               PROVE  \E r \in results : Id(q) = Id(r) /\ q.generation = r.generation
    BY DEF Relabelled
  <1>1. PICK r \in results : q = r \/ q = [r EXCEPT !.state = "Superseded"]
    BY DEF Superseding
  <1>2. r \in Result /\ "Superseded" \in ResultState
    BY DEF ResultState
  <1>3. /\ Id([r EXCEPT !.state = "Superseded"]) = Id(r)
        /\ [r EXCEPT !.state = "Superseded"].generation = r.generation
    BY <1>2, StateChangeKeeps
  <1> QED
    BY <1>1, <1>3

\* The results of a batch have the generation of their evaluation.
LEMMA BatchGeneration ==
    ASSUME NEW e, NEW late, NEW n \in ResultsOfBatch(e, late)
    PROVE  n.generation = e.generation
  BY DEF ResultsOfBatch, ResultOf

\* The ways a step can move results, the counter and the calls.
Kept ==
    /\ Relabelled(mem.results, mem'.results)
    /\ mem'.last = mem.last
    /\ \A t \in Thread : thread'[t].phase = "evaluating" => thread'[t] = thread[t]

Begun(t) ==
    /\ mem'.results = mem.results
    /\ mem'.last = mem.last + 1
    /\ thread'[t].phase = "evaluating" /\ thread'[t].generation = mem'.last
    /\ \A u \in Thread : u # t => thread'[u] = thread[u]

Ended(t) ==
    /\ thread[t].phase = "evaluating" /\ thread'[t].phase # "evaluating"
    /\ \A u \in Thread : u # t => thread'[u] = thread[u]
    /\ mem'.last = thread[t].generation
    /\ \E new : /\ Relabelled(mem.results, mem'.results \ new)
                /\ \A n \in new : n.generation = thread[t].generation
                /\ \A q, r \in new : q.path = r.path => q = r

Restored ==
    /\ Relabelled(disk.state.results, mem'.results)
    /\ mem'.last = disk.state.last
    /\ Durable
    /\ \A t \in Thread : thread'[t].phase # "evaluating"

\* A next state that is published or not.
LEMMA PublishKeeps ==
    ASSUME IInv, NEW next, Publish(next), UNCHANGED thread,
           Relabelled(mem.results, next.results), next.last = mem.last
    PROVE  Kept
  BY DEF Publish, Kept, Relabelled

\* A step that leaves the memory and starts no evaluation.
LEMMA UnchangedKeeps ==
    ASSUME UNCHANGED mem,
           \A t \in Thread : thread'[t].phase = "evaluating" => thread'[t] = thread[t]
    PROVE  Kept
  BY DEF Kept, Relabelled

\* Every step of the coordinator is of one of those ways.
LEMMA ResultsMove ==
    ASSUME IInv, [Next]_vars
    PROVE  \/ Kept \/ Restored
           \/ \E t \in Thread : Begun(t) \/ Ended(t)
  <1>1. /\ mem \in State /\ mem.results \in SUBSET Result
        /\ DOMAIN thread = Thread
    BY StateFields DEF IInv, TypeOK
  <1>2. Relabelled(mem.results, mem.results)
    BY DEF Relabelled
  <1>3. \A targets : Relabelled(mem.results, Demoted(mem.results, targets))
    BY <1>1, DemotedRelabels
  <1>4. ASSUME NEW c \in Caller, RegisterCaller(c) \/ FenceCaller(c)
        PROVE  Kept
    <2>1. UNCHANGED <<mem, thread>>
      BY <1>4 DEF RegisterCaller, FenceCaller
    <2> QED
      BY <2>1, UnchangedKeeps
  <1>5. ASSUME NEW c \in Caller, NEW a \in Attempt, NEW s \in SetId,
               NEW d \in Definition, NEW g \in CarriedInput, PublishConstraintSet(c, a, s, d, g)
        PROVE  Kept
    <2> DEFINE next == [mem EXCEPT !.sets[s] = Published(s, d, g),
                                   !.results = Demoted(@, ResultsOf(mem, s))]
    <2>1. next.results = Demoted(mem.results, ResultsOf(mem, s)) /\ next.last = mem.last
      BY <1>1 DEF State
    <2>2. (Publish(next) \/ UNCHANGED mem) /\ UNCHANGED thread
      BY <1>5 DEF PublishConstraintSet
    <2> HIDE DEF next
    <2> QED
      BY <1>3, <2>1, <2>2, PublishKeeps, UnchangedKeeps
  <1>6. ASSUME NEW c \in Caller, NEW a \in Attempt, NEW s \in SetId,
               NEW event \in EventInput, ApplyLifecycle(c, a, s, event)
        PROVE  Kept
    <2> DEFINE state == NextState(mem.sets[s].state, event)
               next == [mem EXCEPT !.sets[s].state = state,
                                   !.results = IF state = "Active"
                                               THEN @ ELSE Demoted(@, ResultsOf(mem, s))]
    <2>1. /\ next.results = mem.results \/ next.results = Demoted(mem.results, ResultsOf(mem, s))
          /\ next.last = mem.last
      BY <1>1 DEF State
    <2>2. (Publish(next) \/ UNCHANGED mem) /\ UNCHANGED thread
      BY <1>6 DEF ApplyLifecycle
    <2> HIDE DEF next
    <2> QED
      BY <1>2, <1>3, <2>1, <2>2, PublishKeeps, UnchangedKeeps
  <1>7. ASSUME NEW c \in Caller, NEW a \in Attempt, NEW s \in SetId, NEW t \in Thread,
               NEW batch \in Batch, NEW expected \in ExpectedInput,
               BeginEvaluate(t, c, a, s, batch, expected)
        PROVE  Kept \/ Begun(t)
    <2> DEFINE call == [phase |-> "evaluating", set |-> s, batch |-> batch, expected |-> expected,
                        snapshot |-> mem.sets[s], evidence |-> mem.evidence,
                        generation |-> mem.last + 1, boot |-> c, epoch |-> epoch,
                        keys |-> mem.keys]
    <2>1. \/ /\ mem' = [mem EXCEPT !.last = @ + 1]
             /\ thread' = [thread EXCEPT ![t] = call]
          \/ /\ UNCHANGED mem
             /\ thread' = [thread EXCEPT ![t] = Idle]
      BY <1>7 DEF BeginEvaluate
    <2>2. CASE mem' = [mem EXCEPT !.last = @ + 1] /\ thread' = [thread EXCEPT ![t] = call]
      <3>1. mem'.results = mem.results /\ mem'.last = mem.last + 1
        BY <1>1, <2>2 DEF State
      <3>2. call.phase = "evaluating" /\ call.generation = mem.last + 1
        OBVIOUS
      <3> HIDE DEF call
      <3> QED
        BY <1>1, <2>2, <3>1, <3>2 DEF Begun
    <2>3. CASE UNCHANGED mem /\ thread' = [thread EXCEPT ![t] = Idle]
      BY <1>1, <2>3, IdleCall, UnchangedKeeps
    <2> QED
      BY <2>1, <2>2, <2>3
  <1>8. ASSUME NEW c \in Caller, NEW a \in Attempt, NEW req,
               ApplyEvidenceRequirements(c, a, req)
        PROVE  Kept
    <2> DEFINE targets == UNION {DependentsOfFamily(mem, f) : f \in AdvancedBy(req)}
               next == [mem EXCEPT !.evidence = req,
                                   !.families = Watermarked(req),
                                   !.results = Demoted(@, targets)]
               moved == [mem EXCEPT !.families = Watermarked(req)]
    <2>1. (UNCHANGED mem \/ mem' = moved \/ mem' = next) /\ UNCHANGED thread
      BY <1>8 DEF ApplyEvidenceRequirements
    <2>2. /\ moved.results = mem.results /\ moved.last = mem.last
          /\ next.results = Demoted(mem.results, targets) /\ next.last = mem.last
      BY <1>1 DEF State
    <2> HIDE DEF next, moved, targets
    <2> QED
      BY <1>2, <1>3, <2>1, <2>2 DEF Kept
  <1>9. ASSUME NEW c \in Caller, NEW a \in Attempt, NEW k \in KeyInput, InvalidateKey(c, a, k)
        PROVE  Kept
    <2> DEFINE targets == DependentsOfKey(mem, k)
               moved == [mem EXCEPT !.keys[k] = sequence + 1]
               next == [moved EXCEPT !.results = Demoted(@, targets)]
    <2>1. (UNCHANGED mem \/ mem' = moved \/ mem' = next) /\ UNCHANGED thread
      BY <1>9 DEF InvalidateKey
    <2>2. /\ moved.results = mem.results /\ moved.last = mem.last
          /\ next.results = Demoted(mem.results, targets) /\ next.last = mem.last
      BY <1>1 DEF State
    <2> HIDE DEF next, moved, targets
    <2> QED
      BY <1>2, <1>3, <2>1, <2>2 DEF Kept
  <1>10. ASSUME NEW t \in Thread,
                \/ \E c \in Caller, s \in SetId : BeginRevalidate(t, c, s)
                \/ RefuseRevalidate(t)
                \/ CommitStale(t)
         PROVE  Kept
    <2>1. /\ UNCHANGED mem
          /\ \E x : thread' = [thread EXCEPT ![t] = x] /\ x.phase # "evaluating"
      BY <1>10, IdleCall DEF BeginRevalidate, RefuseRevalidate, CommitStale
    <2> QED
      BY <1>1, <2>1, UnchangedKeeps
  <1>11. ASSUME NEW t \in Thread, CommitEvaluate(t)
         PROVE  Kept \/ Ended(t)
    <2> DEFINE e == thread[t]
    <2>1. /\ e.phase = "evaluating"
          /\ thread' = [thread EXCEPT ![t] = Idle]
      BY <1>11 DEF CommitEvaluate
    <2>2. PICK late, victims : Publish(CommitOf(e, late, victims))
      BY <1>11 DEF CommitEvaluate, AllResults, CommitOf
    <2>3. e \in EvaluatingPhase /\ e.snapshot.definition \in Definition
      BY <2>1, CallFacts
    <2> DEFINE new == ResultsOfBatch(e, late)
               next == CommitOf(e, late, victims)
    <2>4. /\ \A n \in new : n.generation = e.generation
          /\ \A q, r \in new : q.path = r.path => q = r
      BY <2>3, BatchGeneration, BatchProperties
    <2>5. next.last = e.generation /\ next.results = AllResults(e, late) \ victims
      BY <1>1 DEF State, CommitOf
    <2>6. Relabelled(mem.results, AllResults(e, late) \ new)
      BY <1>1, SupersedingRelabels DEF AllResults
    <2>7. \A u \in Thread : u # t => thread'[u] = thread[u]
      BY <1>1, <2>1
    <2>8. thread'[t].phase # "evaluating"
      BY <1>1, <2>1, IdleCall
    <2> HIDE DEF next, new
    <2>9. CASE mem' = next
      <3>1. Relabelled(mem.results, mem'.results \ new)
        BY <2>5, <2>6, <2>9 DEF Relabelled
      <3> QED
        BY <2>1, <2>4, <2>5, <2>7, <2>8, <2>9, <3>1 DEF Ended
    <2>10. CASE UNCHANGED mem
      BY <2>7, <2>8, <2>10, UnchangedKeeps
    <2> QED
      BY <2>2, <2>9, <2>10 DEF Publish, next
  <1>12. CASE Flush \/ Crash \/ UNCHANGED vars
    <2>1. UNCHANGED mem /\ (UNCHANGED thread \/ thread' = [t \in Thread |-> Idle])
      BY <1>12 DEF Flush, Crash, vars
    <2> QED
      BY <2>1, IdleCall, UnchangedKeeps
  <1>13. CASE Open
    <2>1. /\ ~up /\ UNCHANGED thread
          /\ mem' = [disk.state EXCEPT !.results = Recovered(@)]
      BY <1>13 DEF Open
    <2>2. disk.state \in State /\ disk.state.results \in SUBSET Result
      BY StateFields DEF IInv, TypeOK
    <2>3. mem'.results = Recovered(disk.state.results) /\ mem'.last = disk.state.last
      BY <2>1, <2>2 DEF State
    <2>4. Durable /\ \A t \in Thread : thread'[t].phase # "evaluating"
      BY <2>1 DEF IInv, StoreInv, CallsInv
    <2> QED
      BY <2>2, <2>3, <2>4, RecoveredRelabels DEF Restored
  <1>14. ASSUME NEW c \in Caller, NEW a \in Attempt, NEW f \in AdvancedFamily,
                NEW g \in 1..MaxGeneration, AdvanceFamily(c, a, f, g)
         PROVE  Kept
    BY <1>8, <1>14 DEF AdvanceFamily
  <1> QED
    BY <1>4, <1>5, <1>6, <1>7, <1>8, <1>9, <1>10, <1>11, <1>12, <1>13, <1>14 DEF Next

\* A generation that no result is ahead of stays one.
LEMMA RelabelledBelow ==
    ASSUME NEW results, NEW new, Relabelled(results, new), NEW n,
           \A r \in results : r.generation <= n
    PROVE  \A q \in new : q.generation <= n
  BY DEF Relabelled

\* A write leaves in the store what is in memory, or leaves the store.
LEMMA StoreReached ==
    ASSUME IInv, [Next]_vars, GenerationInv, Reached(mem')
    PROVE  Durable => Reached(disk'.state)
  <1>1. Stepped \/ Reopened \/ UNCHANGED <<mem, disk>>
    BY NextHolds
  <1>2. UNCHANGED disk \/ disk'.state = mem'
    BY <1>1 DEF Stepped, Wrote, Reopened
  <1> QED
    BY <1>2 DEF GenerationInv

\* Evaluations that do not overlap give each result a generation of its own.
LEMMA GenerationsHold ==
    ASSUME IInv, [Next]_vars, GenerationInv, OneEvaluation, OneEvaluation'
    PROVE  GenerationInv'
  <1>1. /\ IInv'
        /\ mem \in State /\ mem' \in State /\ disk.state \in State
        /\ \A q, r \in mem'.results : Id(q) = Id(r) => q = r
    BY NextHolds DEF IInv, TypeOK, StateInv, UniqueIds
  <1>2. /\ mem.last \in Nat /\ mem'.last \in Nat
        /\ \A r \in mem.results : r.generation \in Nat
        /\ \A r \in mem'.results : r.generation \in Nat
    BY <1>1, StateFields DEF Result
  <1>3. ToldApart(mem.results) /\ Reached(mem)
    BY DEF GenerationInv
  <1> SUFFICES /\ ToldApart(mem'.results)
               /\ Reached(mem')
               /\ \A t \in Thread : thread'[t].phase = "evaluating" =>
                     /\ thread'[t].generation = mem'.last
                     /\ \A r \in mem'.results : r.generation < mem'.last
    BY StoreReached DEF GenerationInv
  <1>4. CASE Kept
    <2>1. ToldApart(mem'.results)
      BY <1>1, <1>3, <1>4, RelabelledApart DEF Kept
    <2>2. Reached(mem')
      BY <1>3, <1>4, RelabelledBelow DEF Kept, Reached
    <2>3. ASSUME NEW t \in Thread, thread'[t].phase = "evaluating"
          PROVE  /\ thread'[t].generation = mem'.last
                 /\ \A r \in mem'.results : r.generation < mem'.last
      <3>1. thread[t].generation = mem.last /\ \A r \in mem.results : r.generation < mem.last
        BY <1>4, <2>3 DEF Kept, GenerationInv
      <3> QED
        BY <1>4, <2>3, <3>1 DEF Kept, Relabelled
    <2> QED
      BY <2>1, <2>2, <2>3
  <1>5. CASE Restored
    <2>1. SameAnswers(disk.state, mem) /\ Reached(disk.state)
      BY <1>5 DEF Restored, IInv, StoreInv, GenerationInv
    <2>2. ToldApart(mem'.results)
      BY <1>1, <1>3, <1>5, <2>1, RelabelledApart DEF Restored, SameAnswers
    <2>3. Reached(mem')
      BY <1>5, <2>1, RelabelledBelow DEF Restored, Reached
    <2> QED
      BY <1>5, <2>2, <2>3 DEF Restored
  <1>6. ASSUME NEW t \in Thread, Begun(t)
        PROVE  /\ ToldApart(mem'.results)
               /\ Reached(mem')
               /\ \A u \in Thread : thread'[u].phase = "evaluating" =>
                     /\ thread'[u].generation = mem'.last
                     /\ \A r \in mem'.results : r.generation < mem'.last
    <2>1. \A r \in mem'.results : r.generation <= mem.last
      BY <1>3, <1>6 DEF Begun, Reached
    <2>2. mem'.last = mem.last + 1
      BY <1>6 DEF Begun
    <2>3. \A r \in mem'.results : r.generation < mem'.last /\ r.generation <= mem'.last
      BY <1>2, <2>1, <2>2
    <2>4. \A u \in Thread : thread'[u].phase = "evaluating" => u = t
      BY <1>6 DEF Begun, OneEvaluation
    <2> QED
      BY <1>3, <1>6, <2>3, <2>4 DEF Begun, Reached
  <1>7. ASSUME NEW t \in Thread, Ended(t)
        PROVE  /\ ToldApart(mem'.results)
               /\ Reached(mem')
               /\ \A u \in Thread : thread'[u].phase # "evaluating"
    <2> DEFINE g == thread[t].generation
    <2>1. g = mem.last /\ \A r \in mem.results : r.generation < g
      BY <1>7 DEF Ended, GenerationInv
    <2>2. PICK new : /\ Relabelled(mem.results, mem'.results \ new)
                     /\ \A n \in new : n.generation = g
                     /\ \A q, r \in new : q.path = r.path => q = r
      BY <1>7 DEF Ended
    <2>3. mem'.last = g
      BY <1>7 DEF Ended
    <2> HIDE DEF g
    <2>4. \A q \in mem'.results : q \notin new => q.generation < g
      BY <2>1, <2>2 DEF Relabelled
    <2>5. Reached(mem')
      BY <1>2, <2>2, <2>3, <2>4 DEF Reached
    <2>6. ToldApart(mem'.results \ new)
      BY <1>1, <1>3, <2>2, RelabelledApart
    <2>7. ToldApart(mem'.results)
      <3> SUFFICES ASSUME NEW q \in mem'.results, NEW r \in mem'.results, q.set = r.set,
                          q.path = r.path, q.generation = r.generation
                   PROVE  q = r
        BY DEF ToldApart
      <3>1. q \in new <=> r \in new
        BY <1>2, <2>2, <2>3, <2>4
      <3> QED
        BY <2>2, <2>6, <3>1 DEF ToldApart
    <2>8. \A u \in Thread : thread'[u].phase # "evaluating"
      BY <1>7 DEF Ended, OneEvaluation
    <2> QED
      BY <2>5, <2>7, <2>8
  <1> QED
    BY <1>4, <1>5, <1>6, <1>7, ResultsMove

\* While evaluations do not overlap no evaluation generation is given out
\* twice, through failed writes and restarts too: memory may be ahead of the
\* counter in the store, never of a result in it.
THEOREM GenerationsInvariant == Spec /\ []OneEvaluation => []GenerationInv
  <1>1. Init => GenerationInv
    <2> SUFFICES ASSUME Init PROVE GenerationInv
      OBVIOUS
    <2>1. mem.results = {} /\ disk.state.results = {}
      BY DEF Init, InitialState
    <2>2. \A t \in Thread : thread[t].phase # "evaluating"
      BY IdleCall DEF Init
    <2> QED
      BY <2>1, <2>2 DEF GenerationInv, ToldApart, Reached
  <1>2. IInv /\ [Next]_vars /\ GenerationInv /\ OneEvaluation /\ OneEvaluation' => GenerationInv'
    BY GenerationsHold
  <1> QED
    BY <1>1, <1>2, Invariance, PTL DEF Spec

\* While evaluations do not overlap, no two retained results of a path carry one
\* evaluation generation, through trims, crashes and openings.  When they do,
\* the commit of one sets the counter back (coordinator.cpp, the assignment of
\* last_evaluation_generation) and the next takes a generation given out before.
THEOREM SerialResultsToldApart == Spec /\ []OneEvaluation => []ToldApart(mem.results)
  <1>1. GenerationInv => ToldApart(mem.results)
    BY DEF GenerationInv
  <1> QED
    BY <1>1, GenerationsInvariant, PTL

\* Whatever evaluations that do not overlap, invalidations, trims of the
\* history, crashes and openings do, a reader that applies the diff of two
\* results snapshots misses no path's latest verdict (diff_results).
THEOREM SerialDiffsReconstruct == Spec /\ []OneEvaluation => DiffReconstructs
  <1>1. IInv /\ IInv' /\ GenerationInv /\ GenerationInv' =>
           [\A s \in SetId :
              LatestOf(mem', s)
                = Patched(LatestOf(mem, s),
                          diff_results(snapshot_results(mem, s), snapshot_results(mem', s)))]_vars
    <2> SUFFICES ASSUME IInv, IInv', GenerationInv, GenerationInv', NEW s \in SetId
                 PROVE  LatestOf(mem', s)
                          = Patched(LatestOf(mem, s), diff_results(snapshot_results(mem, s),
                                                                   snapshot_results(mem', s)))
      OBVIOUS
    <2>1. mem \in State /\ ToldApart(mem.results) /\ mem' \in State /\ ToldApart(mem'.results)
      BY DEF IInv, TypeOK, GenerationInv
    <2> QED
      BY <2>1, SnapshotDiffApplies
  <1> QED
    BY <1>1, Invariance, GenerationsInvariant, PTL DEF DiffReconstructs
=============================================================================

------------------------------- MODULE Reports -------------------------------
(***************************************************************************)
(* What the coordinator reports of its results: snapshots of a set's       *)
(* results, their wire form, and the diff between two snapshots            *)
(* (Coordinator::snapshot_results, snapshot.cpp).                          *)
(*                                                                         *)
(* The entries of a snapshot are sorted by path and evaluation generation. *)
(* They are a set here, which says as much as the vector as long as no two *)
(* have both in common.                                                    *)
(* The outcomes of module Coordinator stand for outcome and primary reason *)
(* together, so that ReasonChanged is an OutcomeChanged here.              *)
(***************************************************************************)
EXTENDS Coordinator

\* Who produced a result and in which epoch is left out of its digest.  The
\* state is the one at the evaluation, which is the same for all.
evaluation_digest(r) == <<Id(r), r.generation, r.outcome, r.consulted>>

\* CandidateResultView.
View(r) ==
    [path |-> r.path, authority |-> r.evidence["PathAuthority"], outcome |-> r.outcome,
     state |-> r.state, generation |-> r.generation, digest |-> evaluation_digest(r)]

\* Coordinator::snapshot_results: every retained result of the set.
snapshot_results(st, s) ==
    [set |-> s, generation |-> st.sets[s].generation, last |-> st.last,
     entries |-> {View(r) : r \in ResultsOf(st, s)}]

\* decode_results_snapshot: a bounded number of entries whose paths strictly
\* increase.
decode_results_snapshot(snapshot) ==
    /\ Cardinality(snapshot.entries) <= MaxEvaluations
    /\ \A a, b \in snapshot.entries : a.path = b.path => a = b

-----------------------------------------------------------------------------
(* diff_results *)

\* Mutant: the oldest result per path participates.
Oldest(entries) ==
    {a \in entries : \A b \in entries : b.path = a.path => a.generation <= b.generation}

\* Only the newest result per path participates in a diff.
Newest(entries) ==
    {a \in entries : \A b \in entries : b.path = a.path => b.generation <= a.generation}

\* The first difference between two results of a path decides the kind; only
\* the kinds in OutcomeKind carry outcomes, the others the default.
ChangeKind(a, b) ==
    CASE a.outcome # b.outcome -> "OutcomeChanged"
      [] a.outcome = b.outcome /\ a.state # b.state -> "CurrentnessChanged"
      [] a.outcome = b.outcome /\ a.state = b.state /\ a.authority # b.authority ->
            "AuthorityGenerationChanged"
      [] a.outcome = b.outcome /\ a.state = b.state /\ a.authority = b.authority ->
            "EvidenceDigestChanged"

OutcomeKind == {"Appeared", "Disappeared", "OutcomeChanged"}
Carried(kind, view) ==
    [outcome |-> IF kind \in OutcomeKind THEN view.outcome ELSE "Malformed",
     state |-> view.state]

Changes(left, right) ==
    {[kind |-> ChangeKind(p[1], p[2]), path |-> p[1].path,
      from |-> Carried(ChangeKind(p[1], p[2]), p[1]),
      to |-> Carried(ChangeKind(p[1], p[2]), p[2])] :
        p \in {q \in left \X right : q[1].path = q[2].path
                 /\ <<q[1].outcome, q[1].state, q[1].authority, q[1].digest>>
                       # <<q[2].outcome, q[2].state, q[2].authority, q[2].digest>>}}

Missing(left, right) == {a \in left : \A b \in right : b.path # a.path}

diff_results(from, to) ==
    LET left == Newest(from.entries)
        right == Newest(to.entries)
    IN Changes(left, right)
        \cup {[kind |-> "Disappeared", path |-> a.path,
               from |-> Carried("Disappeared", a)] : a \in Missing(left, right)}
        \cup {[kind |-> "Appeared", path |-> b.path,
               to |-> Carried("Appeared", b)] : b \in Missing(right, left)}

-----------------------------------------------------------------------------
(* Properties *)

\* What a reader that followed the diffs holds of a set: for each path the
\* outcome and the state of the latest result, and nothing for other paths.
LatestOf(st, s) ==
    {[path |-> r.path, outcome |-> r.outcome, state |-> r.state] :
        r \in {q \in ResultsOf(st, s) :
                  \A p \in ResultsOf(st, s) : p.path = q.path => p.generation <= q.generation}}

\* The reader applies the changes.
Patched(held, diff) ==
    LET changed == {d.path : d \in diff}
        outcome(d) == IF d.kind \in OutcomeKind THEN d.to.outcome
                      ELSE (CHOOSE h \in held : h.path = d.path).outcome
    IN {h \in held : h.path \notin changed}
        \cup {[path |-> d.path, outcome |-> outcome(d), state |-> d.to.state] :
                 d \in {x \in diff : x.kind # "Disappeared"}}

\* A reader that applies the diff of two snapshots to what it held of the first
\* holds what the second says: whatever evaluations, invalidations and trims of
\* the history happened, no path's latest verdict is missed (diff_results).
DiffReconstructs ==
    [][\A s \in SetId :
          LatestOf(mem', s)
              = Patched(LatestOf(mem, s),
                        diff_results(snapshot_results(mem, s), snapshot_results(mem', s)))]_vars

\* tests/test_snapshot_protocol.cpp, "auto results =
\* client.value()->query_results(setid(40)); CRF_CHECK_RESULT(results);": a
\* worker gets the results of a set that has some.
SnapshotsDecode ==
    \A s \in SetId : Known(mem, s) => decode_results_snapshot(snapshot_results(mem, s))
=============================================================================

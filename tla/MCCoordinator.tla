---------------------------- MODULE MCCoordinator ----------------------------
(* Instances of Coordinator for TLC. *)
EXTENDS Reports, TLC

CONSTANTS topo, cap, bad, cold, twin, far, torn

Generation(t, c) == [f \in Family |-> CASE f = "Topology" -> t
                                        [] f = "Capability" -> c
                                        [] OTHER -> 1]

\* One definition consults topology, one consults capabilities, one fails
\* validation.
MCContent ==
    [d \in Definition |->
        CASE d = topo -> [valid |-> TRUE, constraints |-> topo, families |-> {"Topology"},
                          capabilities |-> {}, satisfied |-> Path]
          [] d = cap -> [valid |-> TRUE, constraints |-> cap, families |-> {"Capability"},
                         capabilities |-> {7}, satisfied |-> Path \ {2}]
          [] d = bad -> [valid |-> FALSE, constraints |-> bad, families |-> {},
                         capabilities |-> {}, satisfied |-> {}]]

Node(n) == [node |-> n, localities |-> {}, capabilities |-> {}, domains |-> {}, isolation |-> {}]

CandidateFact(path, gen, valid) ==
    [path |-> path, valid |-> valid, verdict |-> "Legal", evidence |-> gen,
     nodes |-> {Node(path)}, links |-> {}, policies |-> {}]

\* Two candidates for path 1 that differ in the evidence they carry, one for
\* path 2, and one that fails validation.
MCFact ==
    cold :> CandidateFact(1, Generation(1, 1), TRUE)
 @@ twin :> CandidateFact(1, Generation(1, 2), TRUE)
 @@ far :> CandidateFact(2, Generation(1, 1), TRUE)
 @@ torn :> CandidateFact(2, Generation(1, 1), FALSE)

ColdBatch == {{cold}}
MCBatch == {{cold}, {twin}}
PathBatch == {{cold}, {twin, far}}
TornBatch == {{cold}, {torn}}
TwinBatch == {{cold}, {twin}, {cold, twin}}
MCEvidence == [gen |-> Generation(1, 1), age |-> 0]
MCRequirement == {[gen |-> Generation(2, 1), age |-> 0], [gen |-> Generation(1, 2), age |-> 0]}
MCKeys == {Key("Node", 1)}

Symmetry == Permutations(Thread) \cup Permutations(Caller)
AttemptSymmetry == Permutations(Attempt)
==============================================================================

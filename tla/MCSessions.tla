----------------------------- MODULE MCSessions -----------------------------
(* Two workers of one publisher, or a worker and a client that pipelines. *)
EXTENDS Sessions, TLC

CONSTANTS c1, c2, p1, p2

MCGrant == p1 :> {"Mutate"} @@ p2 :> {"Mutate"}
MCPublisherOf == [c \in Conn |-> p1]
MCPayloadOf == [m \in Message |-> 0]

Raw(message, publisher, payload, wire, n) ==
    [message |-> message, publisher |-> publisher, payload |-> payload,
     body |-> "ok", wire |-> wire, request |-> n]

\* A frame that is refused, and whose successors wait for more bytes; two
\* registrations and a damaged frame; a malformed payload and an oversized frame.
MCScript ==
    {<<Raw("Heartbeat", p2, 0, "ok", 1), Raw("Hello", p2, 1, "ok", 2),
       Raw("Heartbeat", p2, 0, "ok", 3)>>,
     <<Raw("Hello", p1, 0, "ok", 1), Raw("Hello", p2, 0, "ok", 2),
       Raw("Query", p2, 0, "trailer", 3)>>,
     <<[Raw("Hello", p1, 0, "ok", 1) EXCEPT !.body = "malformed"], Raw("Query", p1, 2, "ok", 2)>>}

MCScenario ==
    {[workers |-> {c1, c2}, messages |-> {"Mutation"}, scripts |-> {}, faults |-> {"crash"}],
     [workers |-> {c1, c2}, messages |-> {"Shutdown"}, scripts |-> {}, faults |-> {"stop"}],
     [workers |-> {c1}, messages |-> {}, scripts |-> MCScript, faults |-> {}],
     [workers |-> {c1}, messages |-> {"Query"}, scripts |-> {}, faults |-> {"stop"}]}
=============================================================================

------------------------------- MODULE Sessions -------------------------------
(***************************************************************************)
(* The coordinator server and its clients: CoordinatorServer (server.cpp)  *)
(* with one thread per connection, WorkerClient (worker.cpp), the framing  *)
(* of module FrameAssembler on loopback TCP, and the authority registry of *)
(* module Authority, which Hello frames and lost connections drive.        *)
(*                                                                         *)
(* A connection is named by the worker boot its client uses: every process *)
(* has a boot of its own.  A worker sends one request at a time and waits  *)
(* for the answer; any other client sends frames as it likes and ignores   *)
(* what comes back.  TCP neither loses nor reorders bytes, but recv_some   *)
(* returns them in arbitrary pieces.  Answers are taken frame by frame.    *)
(*                                                                         *)
(* Of a coordinator call only its authorization and its success are        *)
(* modelled; what it does is the subject of module Coordinator.            *)
(***************************************************************************)
EXTENDS Naturals, Sequences, FiniteSets, SequencesExt, FrameAssembler

CONSTANTS
    Conn,           \* connections, and the boots of their clients
    Scenario,       \* bounds: the combinations explored, see ScenarioType
    Publisher,      \* publisher identities
    PublisherOf,    \* [Conn -> Publisher]: WorkerConfig::publisher
    PayloadOf,      \* [Message -> Nat]: the size of a worker's payloads
    Scope,          \* authority scopes
    Grant,          \* [Publisher -> SUBSET Scope]
    MutationScope,  \* the scope a mutating request needs
    MaxPublishers,  \* limits.max_publishers
    MaxSessions,    \* limits.max_sessions
    MaxFencedBoots, \* limits.max_fenced_boots
    DiskMayFail,    \* may a durable write fail?
    MaxEpoch,       \* bound: coordinator incarnations
    MaxFrames,      \* bound: frames a worker sends
    MaxHellos       \* bound: Hello frames the server gets

VARIABLES
    up, epoch, regs, fenced, attempts, disk, answered, barred,  \* of Authority
    scenario,       \* the combination explored, fixed
    client,         \* where each client is
    sent,           \* the frames each client has sent
    toServer,       \* bytes on their way to the server, in units
    toClient,       \* answers on their way to a worker
    thread,         \* where the thread of each connection is
    buffer,         \* its FrameAssembler
    taken,          \* the value its fetch_add of next_session left
    session,        \* its SessionState
    next_session,   \* Impl::next_session
    stopping,       \* Impl::stopping
    stopped,        \* has stop returned?
    handled,        \* history: the frames each thread has handled
    applied,        \* history: the mutations the coordinator applied
    outcome,        \* history: what each worker's last call returned
    muted,          \* history: threads that dropped an answer too large to send
    accepted,       \* history: connections whose Hello was accepted
    collided        \* history: connections that shared a session identity

registry == <<up, epoch, regs, fenced, attempts, disk, answered, barred>>
clients == <<scenario, client, sent, outcome>>
wires == <<toServer, toClient>>
threads == <<thread, buffer, taken, session, next_session>>
control == <<stopping, stopped>>
history == <<handled, applied, muted, accepted, collided>>
vars == <<registry, clients, wires, threads, control, history>>

Registry == INSTANCE Authority
    WITH Boot <- Conn, Session <- 1..MaxHellos,
         Attempt <- {}, Payload <- {"empty"}, MaxAttempts <- 1,
         AllowInitialize <- TRUE, StoreMayCorrupt <- FALSE,
         MaxRegistrations <- MaxHellos

Message == {"Hello", "Mutation", "Query", "Heartbeat", "Shutdown", "Unexpected"}

\* publisher is the one of the header, and of the payload of a Hello; body says
\* whether the payload decodes.
Frame == [message : Message, publisher : Publisher, payload : Nat,
          body : {"ok", "malformed"}, wire : {"ok", "header", "trailer"}, request : Nat]

\* The connections of WorkerClient objects, what they send after Hello, what
\* another client sends, and whether the server is stopped or dies.
ScenarioType ==
    [workers : SUBSET Conn, messages : SUBSET (Message \ {"Hello"}),
     scripts : SUBSET Seq(Frame), faults : SUBSET {"stop", "crash"}]

ASSUME SessionConstants ==
    /\ Scenario \subseteq ScenarioType
    /\ PublisherOf \in [Conn -> Publisher]
    /\ PayloadOf \in [Message -> Nat]
    /\ Grant \in [Publisher -> SUBSET Scope]
    /\ DiskMayFail \in BOOLEAN
    /\ IsFiniteSet(Conn)    \* a WorkerBootId is a 64-bit value

ASSUME SessionLimits ==    \* validate_limits, and the bounds
    /\ MaxPublishers \in Nat \ {0}
    /\ MaxSessions \in Nat \ {0}
    /\ MaxFencedBoots \in Nat \ {0}
    /\ MaxEpoch \in Nat /\ MaxHellos \in Nat

NoSession == [id |-> 0]

Connected(c) == client[c] \notin {"new", "gone"}
Waiting(c) == client[c] \in {"connecting", "waiting", "closing"}

\* What a connection did is forgotten once both ends are gone.
Forget(c, over) ==
    /\ sent' = IF over THEN [sent EXCEPT ![c] = <<>>] ELSE sent
    /\ handled' = IF over THEN [handled EXCEPT ![c] = <<>>] ELSE handled
    /\ applied' = IF over THEN [applied EXCEPT ![c] = <<>>] ELSE applied
    /\ muted' = IF over THEN muted \ {c} ELSE muted

-----------------------------------------------------------------------------
(* Clients *)

\* encode_frame and send_all.
Send(c, frame) ==
    /\ sent' = [sent EXCEPT ![c] = Append(@, frame)]
    /\ toServer' = [toServer EXCEPT ![c] = @ \o Units(frame)]

Returns(c, result) == outcome' = [outcome EXCEPT ![c] = result]

\* Hello is request 1, and so is the first call after it.
NextRequest(c) == IF sent[c] = <<>> THEN 1 ELSE Len(sent[c])

WorkerFrame(c, message) ==
    [message |-> message, publisher |-> PublisherOf[c],
     payload |-> PayloadOf[message],
     body |-> "ok", wire |-> "ok", request |-> NextRequest(c)]

\* WorkerClient::connect: a connection and a Hello on it.
Connect(c) ==
    /\ client[c] = "new" /\ c \in scenario.workers
    /\ up /\ ~stopping
    /\ Send(c, WorkerFrame(c, "Hello"))
    /\ client' = [client EXCEPT ![c] = "connecting"]
    /\ UNCHANGED <<registry, scenario, outcome, toClient, threads, control, history>>

\* Another client connects, and sends the frames of a script when it likes.
ConnectRaw(c) ==
    /\ client[c] = "new" /\ c \notin scenario.workers
    /\ scenario.scripts # {}
    /\ up /\ ~stopping
    /\ client' = [client EXCEPT ![c] = "ready"]
    /\ UNCHANGED <<registry, scenario, sent, outcome, wires, threads, control, history>>

SendRaw(c, script) ==
    /\ client[c] = "ready" /\ c \notin scenario.workers
    /\ Len(sent[c]) < Len(script) /\ IsPrefix(sent[c], script)
    /\ Send(c, script[Len(sent[c]) + 1])
    /\ UNCHANGED <<registry, scenario, client, outcome, toClient, threads, control, history>>

\* round_trip, the request: of publish_constraint_set, apply_lifecycle,
\* evaluate, the queries, heartbeat and close.
Request(c, message) ==
    /\ client[c] = "ready" /\ c \in scenario.workers
    /\ Len(sent[c]) < MaxFrames
    /\ Send(c, WorkerFrame(c, message))
    /\ client' = [client EXCEPT ![c] = IF message = "Shutdown" THEN "closing" ELSE "waiting"]
    /\ Returns(c, "none")
    /\ UNCHANGED <<registry, scenario, toClient, threads, control, history>>

\* Mutant: an ErrorReport is taken for the acknowledgement.
AnyAnswer(c, answer) == "ok"

\* round_trip, the answer: what the call returns.
Result(c, answer) ==
    IF answer.request = Last(sent[c]).request /\ answer.message \in {"HelloAck", "Ack"}
    THEN "ok" ELSE "error"

\* A worker whose handshake is refused, or that is closing, gives up.
Receive(c) ==
    /\ Waiting(c) /\ toClient[c] # <<>>
    /\ LET result == Result(c, Head(toClient[c]))
           stays == client[c] = "waiting" \/ (client[c] = "connecting" /\ result = "ok")
       IN /\ client' = [client EXCEPT ![c] = IF stays THEN "ready" ELSE "gone"]
          /\ Returns(c, IF stays THEN result ELSE "none")
    /\ toClient' = [toClient EXCEPT ![c] = Tail(@)]
    /\ UNCHANGED <<registry, scenario, sent, toServer, threads, control, history>>

\* The server closed the connection, or never accepted it and closed the
\* listener: recv_some returns nothing, or fails.
Disconnected(c) ==
    /\ Connected(c) /\ toClient[c] = <<>>
    /\ thread[c] = "done" \/ (thread[c] = "none" /\ stopping)
    /\ client' = [client EXCEPT ![c] = "gone"]
    /\ Returns(c, "none")
    /\ Forget(c, TRUE)
    /\ UNCHANGED <<registry, scenario, wires, threads, control, accepted, collided>>

\* The client process ends, whatever it was doing.
Vanish(c) ==
    /\ Connected(c)
    /\ client' = [client EXCEPT ![c] = "gone"]
    /\ toClient' = [toClient EXCEPT ![c] = <<>>]
    /\ Returns(c, "none")
    /\ Forget(c, thread[c] = "done")
    /\ UNCHANGED <<registry, scenario, toServer, threads, control, accepted, collided>>

-----------------------------------------------------------------------------
(* CoordinatorServer::run and serve *)

Goto(c, phase) == thread' = [thread EXCEPT ![c] = phase]

\* The head of serve's loop: stop is noticed here, not in recv_some.
NextTurn == IF stopping THEN "leaving" ELSE "receiving"

\* send_frame and send_error: nobody reads what other clients are sent.
Deliver(c, answers) ==
    toClient' = [toClient EXCEPT ![c] =
                    IF c \in scenario.workers /\ Connected(c) THEN @ \o answers ELSE @]
Says(message, frame) == [message |-> message, request |-> frame.request]
Reply(c, message, frame) == Deliver(c, <<Says(message, frame)>>)

\* An error about no frame in particular: FrameHeader{}.
ReplyToNothing(c) == Deliver(c, <<[message |-> "ErrorReport", request |-> 0]>>)

\* run: accept returns a connection.  The max_sessions check counts the entries
\* of a map that is never filled, so it refuses nobody.
Accept(c) ==
    /\ up /\ ~stopping
    /\ thread[c] = "none" /\ client[c] # "new"
    /\ \A d \in Conn : thread[d] # "accepted"
    /\ Goto(c, "accepted")
    /\ UNCHANGED <<registry, clients, wires, buffer, taken, session, next_session,
                   control, history>>

\* run: the thread is started, stop or no stop.
Spawn(c) ==
    /\ thread[c] = "accepted"
    /\ Goto(c, NextTurn)
    /\ UNCHANGED <<registry, clients, wires, buffer, taken, session, next_session,
                   control, history>>

\* recv_some returns some of the bytes, and push takes them or fails.
ServerReceive(c) ==
    /\ thread[c] = "receiving"
    /\ \E n \in 1..Len(toServer[c]) :
          LET chunk == SubSeq(toServer[c], 1, n)
          IN /\ toServer' = [toServer EXCEPT ![c] = SubSeq(@, n + 1, Len(@))]
             /\ \/ /\ CanPush(buffer[c], chunk)
                   /\ buffer' = [buffer EXCEPT ![c] = @ \o chunk]
                   /\ Goto(c, "handling")
                   /\ UNCHANGED toClient
                \/ /\ ~CanPush(buffer[c], chunk)
                   /\ buffer' = [buffer EXCEPT ![c] = <<>>]
                   /\ Goto(c, "leaving")
                   /\ ReplyToNothing(c)
    /\ UNCHANGED <<registry, clients, taken, session, next_session, control, history>>

\* Mutant: the end of the connection is taken for a lack of bytes.
IgnoresEnd(c) ==
    /\ thread[c] = "receiving"
    /\ client[c] = "gone"
    /\ Goto(c, "receiving")
    /\ UNCHANGED <<registry, clients, wires, buffer, taken, session, next_session,
                   control, history>>

\* recv_some reports the end of the connection, or an error when the client
\* died with bytes still unread.
ServerLosesClient(c) ==
    /\ thread[c] = "receiving"
    /\ client[c] = "gone"
    /\ Goto(c, "leaving")
    /\ UNCHANGED <<registry, clients, wires, buffer, taken, session, next_session,
                   control, history>>

-----------------------------------------------------------------------------
(* pop and handle_frame *)

\* pop needs more bytes.
NeedsMore(c) ==
    /\ thread[c] = "handling"
    /\ PopStatus(buffer[c]) = "Waits"
    /\ Goto(c, NextTurn)
    /\ UNCHANGED <<registry, clients, wires, buffer, taken, session, next_session,
                   control, history>>

\* pop fails: the assembler is not used again.
Unframed(c) ==
    /\ thread[c] = "handling"
    /\ PopStatus(buffer[c]) = "Fails"
    /\ buffer' = [buffer EXCEPT ![c] = <<>>]
    /\ ReplyToNothing(c)
    /\ Goto(c, "leaving")
    /\ UNCHANGED <<registry, clients, toServer, taken, session, next_session, control, history>>

\* Hello, first part: fetch_add.  The load that reads the identity is a second
\* operation.
HandleHello(c, frame) ==
    /\ frame.message = "Hello" /\ frame.body = "ok"
    /\ next_session < MaxHellos
    /\ next_session' = next_session + 1
    /\ taken' = [taken EXCEPT ![c] = next_session + 1]
    /\ Goto(c, "hello")
    /\ UNCHANGED <<registry, session, toClient, applied, muted>>

\* The frames a registered session may send, with its own identity.
Admitted(c, frame) ==
    /\ frame.message \notin {"Hello", "Unexpected"}
    /\ session[c] # NoSession
    /\ frame.publisher = session[c].publisher

\* handle_frame returns false: serve leaves the frames that are already in the
\* buffer there until more bytes arrive.
RefuseFrame(c, frame) ==
    /\ IF frame.message = "Hello" THEN frame.body = "malformed" ELSE ~Admitted(c, frame)
    /\ Reply(c, "ErrorReport", frame)
    /\ Goto(c, NextTurn)
    /\ UNCHANGED <<registry, taken, session, next_session, applied, muted>>

\* context_for and authorize.
MayMutate(c) ==
    Registry!Authorized([epoch |-> epoch, publisher |-> session[c].publisher,
                         boot |-> c, session |-> session[c].id], MutationScope)

\* The answer to what was done; encode_frame refuses one that is too large, and
\* nobody looks at that.
Acknowledge(c, frame) ==
    \/ Reply(c, "Ack", frame) /\ UNCHANGED muted
    \/ UNCHANGED toClient /\ muted' = muted \cup {c}

\* Mutant: nothing is sent when the coordinator refuses.
SilentRefusal(c, frame) ==
    /\ frame.message = "Mutation"
    /\ \/ /\ frame.body = "ok" /\ MayMutate(c)
          /\ applied' = [applied EXCEPT ![c] = Append(@, frame)]
          /\ Acknowledge(c, frame)
       \/ UNCHANGED <<toClient, applied, muted>>
    /\ UNCHANGED <<registry, thread, taken, session, next_session>>

\* PublishConstraintSet, ApplyLifecycle and EvaluateCandidates: the coordinator
\* may refuse for reasons of its own.
HandleMutation(c, frame) ==
    /\ frame.message = "Mutation"
    /\ \/ /\ frame.body = "ok" /\ MayMutate(c)
          /\ applied' = [applied EXCEPT ![c] = Append(@, frame)]
          /\ Acknowledge(c, frame)
       \/ /\ Reply(c, "ErrorReport", frame)
          /\ UNCHANGED <<applied, muted>>
    /\ UNCHANGED <<registry, thread, taken, session, next_session>>

\* QueryDefinitions, QueryResults and QueryCurrentness: no authority is needed.
HandleQuery(c, frame) ==
    /\ frame.message = "Query"
    /\ IF frame.body = "ok" THEN Acknowledge(c, frame)
                            ELSE Reply(c, "ErrorReport", frame) /\ UNCHANGED muted
    /\ UNCHANGED <<registry, thread, taken, session, next_session, applied>>

HandleHeartbeat(c, frame) ==
    /\ frame.message = "Heartbeat"
    /\ Reply(c, "Ack", frame)
    /\ UNCHANGED <<registry, thread, taken, session, next_session, applied, muted>>

HandleShutdown(c, frame) ==
    /\ frame.message = "Shutdown"
    /\ Reply(c, "Ack", frame)
    /\ Goto(c, "leaving")
    /\ UNCHANGED <<registry, taken, session, next_session, applied, muted>>

\* pop produces a frame, and handle_frame deals with it.
HandleFrame(c) ==
    /\ thread[c] = "handling"
    /\ PopStatus(buffer[c]) = "Produces"
    /\ buffer' = [buffer EXCEPT ![c] = Rest(@)]
    /\ LET frame == Popped(buffer[c])
       IN /\ handled' = [handled EXCEPT ![c] = Append(@, frame)]
          /\ \/ HandleHello(c, frame)
             \/ RefuseFrame(c, frame)
             \/ /\ Admitted(c, frame)
                /\ \/ HandleMutation(c, frame)
                   \/ HandleQuery(c, frame)
                   \/ HandleHeartbeat(c, frame)
                   \/ HandleShutdown(c, frame)
    /\ UNCHANGED <<clients, toServer, control, accepted, collided>>

\* register_publisher refuses without having changed anything.
RefusedUntouched(p, c, s) ==
    /\ \/ ~Registry!RegisterGuard(p, c, Scope)
       \/ /\ Registry!Superseded(p) = {}
          /\ ~Registry!HasRoom(regs, s)
    /\ UNCHANGED registry

SharersOf(c, s) == {regs[i].boot : i \in {j \in DOMAIN regs : regs[j].session = s}} \ {c}

\* Hello, second part: the load of next_session happened at some time since,
\* and register_publisher.  A registration that could not be stored is refused
\* although it is live.
RegisterHello(c) ==
    /\ thread[c] = "hello"
    /\ \E s \in taken[c]..next_session :
          LET frame == Last(handled[c])
              p == frame.publisher
          IN \/ /\ Registry!RegisterStored(p, c, s, Scope)
                /\ session' = [session EXCEPT ![c] = [id |-> s, publisher |-> p]]
                /\ accepted' = accepted \cup {c}
                /\ collided' = IF SharersOf(c, s) = {} THEN collided
                               ELSE collided \cup SharersOf(c, s) \cup {c}
                /\ Reply(c, "HelloAck", frame)
                /\ \/ Goto(c, "handling")
                   \/ ~Connected(c) /\ Goto(c, NextTurn)
             \/ /\ \/ Registry!RegisterUnstored(p, c, s, Scope)
                   \/ Registry!RegisterRefused(p, c, s, Scope)
                   \/ RefusedUntouched(p, c, s)
                /\ Deliver(c, <<Says("HelloRefused", frame), Says("ErrorReport", frame)>>)
                /\ Goto(c, NextTurn)
                /\ UNCHANGED <<session, accepted, collided>>
    /\ taken' = [taken EXCEPT ![c] = 0]
    /\ UNCHANGED <<clients, toServer, buffer, next_session, control, handled, applied, muted>>

\* Mutants: the loss of the session is not reported to the coordinator; the
\* session is dropped and its boot not fenced.
LossUnreported(c) == UNCHANGED registry
DropsOnly(c) ==
    /\ regs' = Registry!WithoutSession(regs, session[c].id)
    /\ UNCHANGED <<up, epoch, fenced, attempts, disk, answered, barred>>

\* fence_on_session_loss, when the session was registered; it changes nothing
\* when nothing of the session is live any more, or no more boots can be fenced.
LoseAuthority(c) ==
    LET s == session[c].id
        Fences == session[c] # NoSession
                  /\ \E i \in Registry!FirstOf(s) : Registry!CanFence(fenced, regs[i].boot)
    IN IF Fences THEN Registry!FenceOnSessionLoss(s) ELSE UNCHANGED registry

\* The end of serve.  Closing a socket with unread bytes may destroy answers
\* that were not delivered yet.
Leave(c) ==
    /\ thread[c] = "leaving"
    /\ LoseAuthority(c)
    /\ toClient' \in {toClient} \cup
                     {[toClient EXCEPT ![c] = <<>>] : u \in {x \in {c} : toServer[x] # <<>>}}
    /\ toServer' = [toServer EXCEPT ![c] = <<>>]
    /\ buffer' = [buffer EXCEPT ![c] = <<>>]
    /\ session' = [session EXCEPT ![c] = NoSession]
    /\ Goto(c, "done")
    /\ Forget(c, client[c] = "gone")
    /\ UNCHANGED <<scenario, client, outcome, taken, next_session, control,
                   accepted, collided>>

-----------------------------------------------------------------------------
(* The server as a whole *)

\* stop, up to the close of the listener.  No session is aborted: the map of
\* sessions is empty.
Stop ==
    /\ "stop" \in scenario.faults
    /\ up /\ ~stopping
    /\ stopping' = TRUE
    /\ UNCHANGED <<registry, clients, wires, threads, stopped, history>>

\* stop has joined the threads run had started.
Joined ==
    /\ stopping /\ ~stopped
    /\ \A c \in Conn : thread[c] \in {"none", "accepted", "done"}
    /\ stopped' = TRUE
    /\ UNCHANGED <<registry, clients, wires, threads, stopping, history>>

\* The process of coordinator and server ends; its connections are closed.
Crash ==
    /\ "crash" \in scenario.faults
    /\ Registry!Crash
    /\ thread' = [c \in Conn |-> IF client[c] = "new" THEN "none" ELSE "done"]
    /\ toServer' = [c \in Conn |-> <<>>]
    /\ buffer' = [c \in Conn |-> <<>>]
    /\ taken' = [c \in Conn |-> 0]
    /\ session' = [c \in Conn |-> NoSession]
    /\ next_session' = 0
    /\ stopping' = FALSE /\ stopped' = FALSE
    /\ UNCHANGED <<clients, toClient, history>>

\* Coordinator::open and CoordinatorServer::start.
Open ==
    /\ Registry!Open
    /\ UNCHANGED <<clients, wires, threads, control, history>>

-----------------------------------------------------------------------------
Init ==
    /\ Registry!Init
    /\ scenario \in Scenario
    /\ client = [c \in Conn |-> "new"]
    /\ thread = [c \in Conn |-> "none"]
    /\ session = [c \in Conn |-> NoSession]
    /\ taken = [c \in Conn |-> 0]
    /\ next_session = 0
    /\ stopping = FALSE /\ stopped = FALSE
    /\ sent = [c \in Conn |-> <<>>]
    /\ toServer = sent /\ toClient = sent /\ buffer = sent
    /\ handled = sent /\ applied = sent
    /\ outcome = [c \in Conn |-> "none"]
    /\ muted = {} /\ accepted = {} /\ collided = {}

Client(c) ==
    \/ Connect(c)
    \/ ConnectRaw(c)
    \/ \E script \in scenario.scripts : SendRaw(c, script)
    \/ \E message \in scenario.messages : Request(c, message)
    \/ Vanish(c)
    \/ Receive(c) \/ Disconnected(c)

Serve(c) ==
    \/ Spawn(c) \/ ServerReceive(c) \/ ServerLosesClient(c)
    \/ NeedsMore(c) \/ Unframed(c) \/ HandleFrame(c) \/ RegisterHello(c) \/ Leave(c)

Next ==
    \/ \E c \in Conn : Client(c) \/ Accept(c) \/ Serve(c)
    \/ Stop \/ Joined \/ Crash \/ Open

Spec == Init /\ [][Next]_vars

\* Some thread of the server or some waiting worker runs, if one can; nothing
\* makes a client connect, send or leave, and nobody has to stop the server.
Threads == Joined \/ \E c \in Conn : Accept(c) \/ Serve(c) \/ Receive(c) \/ Disconnected(c)
FairSpec == Spec /\ WF_vars(Threads)

-----------------------------------------------------------------------------
(* Properties *)

\* However the stream is cut into pieces, the frames a thread handles are the
\* first frames its client sent, in order, each once (FrameAssembler::push and
\* pop, serve).
FramesHandledInOrder == \A c \in Conn : IsPrefix(handled[c], sent[c])

\* A worker's call that succeeded was applied by the coordinator once; one that
\* was answered with an error was not applied; only a lost connection leaves
\* the worker in doubt (round_trip, handle_frame).
OutcomesAreTrue ==
    \A c \in scenario.workers :
        client[c] = "ready" /\ Last(sent[c]).message = "Mutation" =>
            Cardinality({k \in DOMAIN applied[c] : applied[c][k] = Last(sent[c])})
                = IF outcome[c] = "ok" THEN 1 ELSE 0

Full == Cardinality(fenced) >= MaxFencedBoots

\* The boot of a session is fenced once its connection is lost, crashes of the
\* coordinator included (README, "fences the session's boot when the connection
\* is lost"), unless the session identity was shared with another connection or
\* the registry of fenced boots is full.
LostSessionsAreFenced ==
    up => \A c \in accepted \ collided : thread[c] = "done" => c \in fenced \/ Full

\* The registry is driven the way module Authority allows.
DrivesAuthority == Registry!Spec

\* A worker's call returns, as long as the answer fits a frame.
CallsReturn ==
    \A c \in Conn : Waiting(c) ~> ~Waiting(c) \/ c \in muted

\* stop returns once the clients have left: nothing else ends the threads it
\* joins.
StopReturns == stopping ~> stopped \/ ~up \/ \E c \in Conn : Connected(c)
===============================================================================

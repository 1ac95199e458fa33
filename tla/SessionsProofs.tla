---------------------------- MODULE SessionsProofs ----------------------------
(***************************************************************************)
(* Proofs about the server and its clients, for any connections, scripts,  *)
(* grants and limits, with failing writes, crashes and restarts.           *)
(***************************************************************************)
EXTENDS Sessions, SequenceTheorems, FiniteSetTheorems, WellFoundedInduction, TLAPS

(* The types of the state *)

Unit == [frame : Frame, part : Nat]
Answer == [message : {"HelloAck", "HelloRefused", "Ack", "ErrorReport"}, request : Nat]
SessionState == [id : 1..MaxHellos, publisher : Publisher] \cup {NoSession}

ClientTypes ==
    /\ scenario \in ScenarioType
    /\ client \in [Conn -> {"new", "connecting", "ready", "waiting", "closing", "gone"}]
    /\ sent \in [Conn -> Seq(Frame)]

WireTypes ==
    /\ toServer \in [Conn -> Seq(Unit)]
    /\ toClient \in [Conn -> Seq(Answer)]
    /\ buffer \in [Conn -> Seq(Unit)]

ThreadTypes ==
    /\ thread \in [Conn -> {"none", "accepted", "receiving", "handling", "hello",
                            "leaving", "done"}]
    /\ taken \in [Conn -> Nat]
    /\ session \in [Conn -> SessionState]
    /\ next_session \in 0..MaxHellos
    /\ stopping \in BOOLEAN

HistoryTypes ==
    /\ handled \in [Conn -> Seq(Frame)]
    /\ applied \in [Conn -> Seq(Frame)]
    /\ outcome \in [Conn -> {"none", "ok", "error"}]
    /\ muted \in SUBSET Conn
    /\ accepted \in SUBSET Conn

\* A Hello that was popped is registered with an identity its thread took.
HelloPending ==
    \A c \in Conn : thread[c] = "hello" => taken[c] \in 1..next_session /\ handled[c] # <<>>

Typed == ClientTypes /\ WireTypes /\ ThreadTypes /\ HistoryTypes /\ HelloPending

(* The invariant of the framing *)

\* The units st carry the frames fs from the one after the h-th on; off says
\* where each begins.
Laid(off, fs, h, st) ==
    /\ off[h + 1] = 0 /\ off[Len(fs) + 1] = Len(st)
    /\ \A m, n \in (h + 1)..(Len(fs) + 1) : m <= n => off[m] <= off[n]
    /\ \A m \in (h + 1)..Len(fs) :
          /\ off[m + 1] = off[m] + Size(fs[m])
          /\ \A k \in 1..Size(fs[m]) : st[off[m] + k] = [frame |-> fs[m], part |-> k]
Carries(fs, h, st) ==
    \E off \in [(h + 1)..(Len(fs) + 1) -> 0..Len(st)] : Laid(off, fs, h, st)

\* May the thread of the connection still handle frames?
Serving(c) ==
    \/ thread[c] \in {"accepted", "receiving", "handling", "hello"}
    \/ thread[c] = "none" /\ ~stopping

HandledFirst(c) ==
    /\ Len(handled[c]) <= Len(sent[c])
    /\ \A i \in 1..Len(handled[c]) : handled[c][i] = sent[c][i]

Blank(c) ==
    /\ thread[c] = "none"
    /\ sent[c] = <<>> /\ handled[c] = <<>> /\ applied[c] = <<>> /\ toClient[c] = <<>>

Framed(c) ==
    /\ HandledFirst(c)
    /\ client[c] = "new" => Blank(c)
    /\ Serving(c) => Carries(sent[c], Len(handled[c]), buffer[c] \o toServer[c])

FrameInv == \A c \in Conn : Framed(c)

(* The invariant of the calls of workers *)

\* The frames a worker sent can be told apart.
Numbered(c) ==
    \A i \in 1..Len(sent[c]) :
        /\ sent[c][i].request = IF i = 1 THEN 1 ELSE i - 1
        /\ sent[c][i].message = "Hello" <=> i = 1

AppliedOnce(c) ==
    /\ \A k \in DOMAIN applied[c] : \E i \in 1..Len(handled[c]) : applied[c][k] = handled[c][i]
    /\ \A j, k \in DOMAIN applied[c] : applied[c][j] = applied[c][k] => j = k

\* Nothing the worker sent will be handled any more.
Settled(c) == Len(handled[c]) = Len(sent[c]) \/ ~Serving(c)

LastApplied(c) == \E k \in DOMAIN applied[c] : applied[c][k] = Last(sent[c])
Truthful(c, result) ==
    Last(sent[c]).message = "Mutation" => (result = "ok" <=> LastApplied(c))

Handshake(c) ==
    /\ Len(sent[c]) = 1
    /\ toClient[c] # <<>> =>
          /\ Settled(c) /\ thread[c] # "hello"
          /\ Result(c, Head(toClient[c])) = "ok" => Len(toClient[c]) = 1

InCall(c) ==
    /\ Len(sent[c]) >= 2 /\ Len(toClient[c]) <= 1
    /\ thread[c] # "hello"
    /\ Serving(c) => Len(handled[c]) >= Len(sent[c]) - 1
    /\ toClient[c] # <<>> => Settled(c) /\ Truthful(c, Result(c, Head(toClient[c])))

AtRest(c) ==
    /\ Len(sent[c]) >= 1 /\ toClient[c] = <<>>
    /\ thread[c] # "hello"
    /\ Settled(c) /\ Truthful(c, outcome[c])

Called(c) ==
    /\ Numbered(c)
    /\ AppliedOnce(c)
    /\ client[c] = "connecting" => Handshake(c)
    /\ client[c] \in {"waiting", "closing"} => InCall(c)
    /\ client[c] = "ready" => AtRest(c)

CallInv == \A c \in scenario.workers : Called(c)

(* The invariant of the registry behind the sessions *)

\* A live registration of c that nobody else's session loss drops, and that
\* its own session loss finds.
Keeps(c, i) ==
    /\ regs[i].live /\ regs[i].boot = c
    /\ \A j \in 1..(i - 1) : regs[j].session = regs[i].session => regs[j].boot = c
    /\ \A d \in Conn \ {c} : session[d].id # regs[i].session
    /\ thread[c] # "done" => session[c].id = regs[i].session

Secured(c) ==
    \/ c \in fenced
    \/ /\ \E i \in DOMAIN regs : Keeps(c, i)
       /\ thread[c] = "done" => Full

SessionsRegistered ==
    \A c \in Conn : session[c] # NoSession =>
        \E j \in DOMAIN regs : regs[j].boot = c /\ regs[j].session = session[c].id

FenceInv ==
    /\ disk.readable
    /\ up \/ accepted # {} => epoch # 0
    /\ ~up => answered = {}
    /\ SessionsRegistered
    /\ \A c \in accepted \ collided :
          /\ c \in answered \cup barred
          /\ up => Secured(c)

-----------------------------------------------------------------------------
(* Frames and the units they travel as *)

LEMMA UnitsType ==
    ASSUME NEW f \in Frame
    PROVE  /\ Size(f) \in Nat \ {0}
           /\ Units(f) \in Seq(Unit)
           /\ Len(Units(f)) = Size(f)
           /\ \A k \in 1..Size(f) : Units(f)[k] = [frame |-> f, part |-> k]
  <1>1. Size(f) \in Nat \ {0}
    BY DEF Size, Frame
  <1>2. Units(f) \in [1..Size(f) -> Unit]
    BY <1>1 DEF Units, Unit
  <1>3. Units(f) \in Seq(Unit)
    BY <1>1, <1>2, SeqDef
  <1> QED
    BY <1>1, <1>2, <1>3, LenProperties DEF Units

\* pop produces a frame only from a buffer that begins with its units.
LEMMA PopProduces ==
    ASSUME NEW b \in Seq(Unit), PopStatus(b) = "Produces"
    PROVE  /\ b # <<>>
           /\ Popped(b) \in Frame
           /\ b[1].part = 1
           /\ b[1].frame = Popped(b)
           /\ Size(Popped(b)) \in 1..Len(b)
           /\ Rest(b) \in Seq(Unit)
  <1>1. b # <<>>
    BY DEF PopStatus
  <1>2. Head(b) = b[1] /\ Head(b) \in Unit /\ Len(b) \in Nat \ {0}
    BY <1>1
  <1>3. ~BadHeader(b)
    BY <1>1 DEF PopStatus
  <1>4. Popped(b) \in Frame /\ b[1].part = 1 /\ b[1].frame = Popped(b)
    BY <1>2, <1>3 DEF BadHeader, Popped, Unit
  <1>5. Size(Popped(b)) \in Nat \ {0}
    BY <1>4, UnitsType
  <1>6. Len(b) >= Size(Popped(b))
    BY <1>1, <1>2, <1>3, <1>5 DEF PopStatus, Popped
  <1>7. Rest(b) \in Seq(Unit)
    BY <1>2, <1>5, <1>6, SubSeqProperties DEF Rest
  <1> QED
    BY <1>1, <1>2, <1>4, <1>5, <1>6, <1>7

\* What pop does when there is nothing to pop.
LEMMA PopEmpty == PopStatus(<<>>) = "Waits"
  BY DEF PopStatus

-----------------------------------------------------------------------------
(* Types *)

LEMMA NothingTyped ==
    /\ <<>> \in Seq(Unit) /\ <<>> \in Seq(Answer) /\ <<>> \in Seq(Frame)
  OBVIOUS

LEMMA TypedInit == Init => Typed
  <1> SUFFICES ASSUME Init PROVE Typed
    OBVIOUS
  <1>1. ClientTypes
    BY SessionConstants DEF Init, ClientTypes
  <1>2. WireTypes
    BY DEF Init, WireTypes
  <1>3. ThreadTypes
    <2>1. 0 \in 0..MaxHellos /\ NoSession \in SessionState
      BY SessionLimits DEF SessionState
    <2> QED
      BY <2>1 DEF Init, ThreadTypes
  <1>4. HistoryTypes
    BY DEF Init, HistoryTypes
  <1>5. HelloPending
    BY DEF Init, HelloPending
  <1> QED
    BY <1>1, <1>2, <1>3, <1>4, <1>5 DEF Typed

\* What the parts of the actions do to the types.
LEMMA SendTypes ==
    ASSUME NEW c \in Conn, NEW frame \in Frame, Typed, Send(c, frame)
    PROVE  /\ sent' \in [Conn -> Seq(Frame)]
           /\ toServer' \in [Conn -> Seq(Unit)]
  <1>1. /\ sent[c] \in Seq(Frame) /\ toServer[c] \in Seq(Unit)
        /\ Units(frame) \in Seq(Unit)
    BY UnitsType DEF Typed, ClientTypes, WireTypes
  <1>2. /\ Append(sent[c], frame) \in Seq(Frame)
        /\ toServer[c] \o Units(frame) \in Seq(Unit)
    BY <1>1, AppendProperties, ConcatProperties
  <1> QED
    BY <1>2 DEF Send, Typed, ClientTypes, WireTypes

LEMMA DeliverTypes ==
    ASSUME NEW c \in Conn, NEW answers \in Seq(Answer), Typed, Deliver(c, answers)
    PROVE  toClient' \in [Conn -> Seq(Answer)]
  <1>1. toClient[c] \in Seq(Answer)
    BY DEF Typed, WireTypes
  <1>2. toClient[c] \o answers \in Seq(Answer)
    BY <1>1, ConcatProperties
  <1> QED
    BY <1>1, <1>2 DEF Deliver, Typed, WireTypes

LEMMA ReplyTypes ==
    ASSUME NEW c \in Conn, NEW frame \in Frame, Typed,
           NEW message \in {"HelloAck", "HelloRefused", "Ack", "ErrorReport"},
           Reply(c, message, frame)
    PROVE  toClient' \in [Conn -> Seq(Answer)]
  <1>1. Says(message, frame) \in Answer
    BY DEF Says, Answer, Frame
  <1>2. <<Says(message, frame)>> \in Seq(Answer)
    BY <1>1
  <1> QED
    BY <1>2, DeliverTypes DEF Reply

LEMMA ReplyToNothingTypes ==
    ASSUME NEW c \in Conn, Typed, ReplyToNothing(c)
    PROVE  toClient' \in [Conn -> Seq(Answer)]
  <1>1. <<[message |-> "ErrorReport", request |-> 0]>> \in Seq(Answer)
    BY DEF Answer
  <1> QED
    BY <1>1, DeliverTypes DEF ReplyToNothing

LEMMA ForgetTypes ==
    ASSUME NEW c \in Conn, NEW over \in BOOLEAN, Typed, Forget(c, over)
    PROVE  /\ sent' \in [Conn -> Seq(Frame)]
           /\ handled' \in [Conn -> Seq(Frame)]
           /\ applied' \in [Conn -> Seq(Frame)]
           /\ muted' \in SUBSET Conn
           /\ \A d \in Conn \ {c} : handled'[d] = handled[d]
           /\ ~over => handled' = handled
  BY DEF Forget, Typed, ClientTypes, HistoryTypes

LEMMA WorkerFrameType ==
    ASSUME NEW c \in Conn, NEW message \in Message, Typed
    PROVE  WorkerFrame(c, message) \in Frame
  <1>1. NextRequest(c) \in Nat
    BY LenProperties DEF NextRequest, Typed, ClientTypes
  <1> QED
    BY <1>1, SessionConstants DEF WorkerFrame, Frame, Message

\* Every step keeps the types.
LEMMA TypedStep == Typed /\ [Next]_vars => Typed'
  <1> SUFFICES ASSUME Typed, [Next]_vars PROVE Typed'
    OBVIOUS
  <1> USE DEF Typed
  <1>1. CASE UNCHANGED vars
    BY <1>1 DEF vars, clients, wires, threads, control, history,
                ClientTypes, WireTypes, ThreadTypes, HistoryTypes, HelloPending
  <1>2. ASSUME NEW c \in Conn, Connect(c) PROVE Typed'
    <2>1. WorkerFrame(c, "Hello") \in Frame
      BY WorkerFrameType DEF Message
    <2>2. sent' \in [Conn -> Seq(Frame)] /\ toServer' \in [Conn -> Seq(Unit)]
      BY <1>2, <2>1, SendTypes DEF Connect
    <2> QED
      BY <1>2, <2>2 DEF Connect, threads, control, history,
                ClientTypes, WireTypes, ThreadTypes, HistoryTypes, HelloPending
  <1>3. ASSUME NEW c \in Conn, ConnectRaw(c) PROVE Typed'
    BY <1>3 DEF ConnectRaw, wires, threads, control, history,
                ClientTypes, WireTypes, ThreadTypes, HistoryTypes, HelloPending
  <1>4. ASSUME NEW c \in Conn, NEW script \in scenario.scripts, SendRaw(c, script) PROVE Typed'
    <2>1. script \in Seq(Frame) /\ sent[c] \in Seq(Frame)
      BY DEF ClientTypes, ScenarioType
    <2>2. script[Len(sent[c]) + 1] \in Frame
      BY <1>4, <2>1, ElementOfSeq, LenProperties DEF SendRaw
    <2>3. sent' \in [Conn -> Seq(Frame)] /\ toServer' \in [Conn -> Seq(Unit)]
      BY <1>4, <2>2, SendTypes DEF SendRaw
    <2> QED
      BY <1>4, <2>3 DEF SendRaw, threads, control, history,
                ClientTypes, WireTypes, ThreadTypes, HistoryTypes, HelloPending
  <1>5. ASSUME NEW c \in Conn, NEW message \in scenario.messages, Request(c, message)
        PROVE  Typed'
    <2>1. WorkerFrame(c, message) \in Frame
      BY WorkerFrameType DEF ClientTypes, ScenarioType
    <2>2. sent' \in [Conn -> Seq(Frame)] /\ toServer' \in [Conn -> Seq(Unit)]
      BY <1>5, <2>1, SendTypes DEF Request
    <2> QED
      BY <1>5, <2>2 DEF Request, Returns, threads, control, history,
                ClientTypes, WireTypes, ThreadTypes, HistoryTypes, HelloPending
  <1>6. ASSUME NEW c \in Conn, Vanish(c) PROVE Typed'
    <2>1. /\ sent' \in [Conn -> Seq(Frame)]
          /\ handled' \in [Conn -> Seq(Frame)] /\ applied' \in [Conn -> Seq(Frame)]
          /\ muted' \in SUBSET Conn
          /\ \A d \in Conn \ {c} : handled'[d] = handled[d]
          /\ thread[c] # "done" => handled' = handled
      BY <1>6, ForgetTypes DEF Vanish
    <2> QED
      BY <1>6, <2>1, NothingTyped DEF Vanish, Returns, threads, control,
                ClientTypes, WireTypes, ThreadTypes, HistoryTypes, HelloPending
  <1>7. ASSUME NEW c \in Conn, Receive(c) PROVE Typed'
    <2>1. toClient[c] \in Seq(Answer) /\ toClient[c] # <<>>
      BY <1>7 DEF Receive, WireTypes
    <2>2. Tail(toClient[c]) \in Seq(Answer)
      BY <2>1
    <2>3. Result(c, Head(toClient[c])) \in {"ok", "error"}
      BY DEF Result
    <2> QED
      BY <1>7, <2>2, <2>3 DEF Receive, Returns, threads, control, history,
                ClientTypes, WireTypes, ThreadTypes, HistoryTypes, HelloPending
  <1>8. ASSUME NEW c \in Conn, Disconnected(c) PROVE Typed'
    <2>1. /\ sent' \in [Conn -> Seq(Frame)]
          /\ handled' \in [Conn -> Seq(Frame)] /\ applied' \in [Conn -> Seq(Frame)]
          /\ muted' \in SUBSET Conn
          /\ \A d \in Conn \ {c} : handled'[d] = handled[d]
      BY <1>8, ForgetTypes DEF Disconnected
    <2> QED
      BY <1>8, <2>1 DEF Disconnected, Returns, wires, threads, control,
                ClientTypes, WireTypes, ThreadTypes, HistoryTypes, HelloPending
  <1>9. ASSUME NEW c \in Conn, Accept(c) PROVE Typed'
    BY <1>9 DEF Accept, Goto, clients, wires, control, history,
                ClientTypes, WireTypes, ThreadTypes, HistoryTypes, HelloPending
  <1>10. ASSUME NEW c \in Conn, Spawn(c) PROVE Typed'
    BY <1>10 DEF Spawn, Goto, NextTurn, clients, wires, control, history,
                ClientTypes, WireTypes, ThreadTypes, HistoryTypes, HelloPending
  <1>11. ASSUME NEW c \in Conn, ServerReceive(c) PROVE Typed'
    <2>1. PICK n \in 1..Len(toServer[c]) :
             LET chunk == SubSeq(toServer[c], 1, n)
             IN /\ toServer' = [toServer EXCEPT ![c] = SubSeq(@, n + 1, Len(@))]
                /\ \/ /\ buffer' = [buffer EXCEPT ![c] = @ \o chunk]
                      /\ Goto(c, "handling")
                      /\ UNCHANGED toClient
                   \/ /\ buffer' = [buffer EXCEPT ![c] = <<>>]
                      /\ Goto(c, "leaving")
                      /\ ReplyToNothing(c)
      BY <1>11 DEF ServerReceive
    <2>2. toServer[c] \in Seq(Unit) /\ buffer[c] \in Seq(Unit) /\ Len(toServer[c]) \in Nat
      BY LenProperties DEF WireTypes
    <2>3. /\ SubSeq(toServer[c], 1, n) \in Seq(Unit)
          /\ SubSeq(toServer[c], n + 1, Len(toServer[c])) \in Seq(Unit)
      BY <2>2, SubSeqProperties
    <2>4. buffer[c] \o SubSeq(toServer[c], 1, n) \in Seq(Unit)
      BY <2>2, <2>3, ConcatProperties
    <2>5. toServer' \in [Conn -> Seq(Unit)] /\ buffer' \in [Conn -> Seq(Unit)]
      BY <2>1, <2>3, <2>4, NothingTyped DEF WireTypes
    <2>6. toClient' \in [Conn -> Seq(Answer)]
      BY <2>1, ReplyToNothingTypes DEF WireTypes
    <2>8. thread' = [thread EXCEPT ![c] = "handling"] \/ thread' = [thread EXCEPT ![c] = "leaving"]
      BY <2>1 DEF Goto
    <2> QED
      BY <1>11, <2>5, <2>6, <2>8 DEF ServerReceive, clients, control, history,
                ClientTypes, WireTypes, ThreadTypes, HistoryTypes, HelloPending
  <1>12. ASSUME NEW c \in Conn, ServerLosesClient(c) PROVE Typed'
    BY <1>12 DEF ServerLosesClient, Goto, clients, wires, control, history,
                ClientTypes, WireTypes, ThreadTypes, HistoryTypes, HelloPending
  <1>13. ASSUME NEW c \in Conn, NeedsMore(c) PROVE Typed'
    BY <1>13 DEF NeedsMore, Goto, NextTurn, clients, wires, control, history,
                ClientTypes, WireTypes, ThreadTypes, HistoryTypes, HelloPending
  <1>14. ASSUME NEW c \in Conn, Unframed(c) PROVE Typed'
    <2>1. toClient' \in [Conn -> Seq(Answer)]
      BY <1>14, ReplyToNothingTypes DEF Unframed
    <2> QED
      BY <1>14, <2>1, NothingTyped DEF Unframed, Goto, clients, control, history,
                ClientTypes, WireTypes, ThreadTypes, HistoryTypes, HelloPending
  <1>15. ASSUME NEW c \in Conn, HandleFrame(c) PROVE Typed'
    <2> DEFINE frame == Popped(buffer[c])
    <2>1. buffer[c] \in Seq(Unit) /\ frame \in Frame /\ Rest(buffer[c]) \in Seq(Unit)
      BY <1>15, PopProduces DEF HandleFrame, WireTypes
    <2>2. handled[c] \in Seq(Frame) /\ applied[c] \in Seq(Frame)
      BY DEF HistoryTypes
    <2>3. /\ Append(handled[c], frame) \in Seq(Frame) /\ Append(handled[c], frame) # <<>>
          /\ Append(applied[c], frame) \in Seq(Frame)
      BY <2>1, <2>2, AppendProperties
    <2>4. /\ handled' = [handled EXCEPT ![c] = Append(handled[c], frame)]
          /\ buffer' = [buffer EXCEPT ![c] = Rest(buffer[c])]
          /\ thread[c] = "handling"
          /\ UNCHANGED <<clients, toServer, control, accepted, collided>>
      BY <1>15 DEF HandleFrame
    <2>5. /\ toClient' \in [Conn -> Seq(Answer)]
          /\ applied' \in [Conn -> Seq(Frame)] /\ muted' \in SUBSET Conn
          /\ \/ HandleHello(c, frame)
             \/ /\ UNCHANGED <<taken, session, next_session>>
                /\ thread' = thread \/ Goto(c, "leaving") \/ Goto(c, NextTurn)
      <3>1. CASE HandleHello(c, frame)
        BY <3>1 DEF HandleHello, WireTypes, HistoryTypes
      <3>2. CASE RefuseFrame(c, frame)
        BY <3>2, <2>1, ReplyTypes DEF RefuseFrame, HistoryTypes
      <3>3. CASE HandleMutation(c, frame)
        <4>1. toClient' \in [Conn -> Seq(Answer)]
          BY <3>3, <2>1, ReplyTypes DEF HandleMutation, Acknowledge, WireTypes
        <4> QED
          BY <3>3, <4>1, <2>3 DEF HandleMutation, Acknowledge, HistoryTypes
      <3>4. CASE HandleQuery(c, frame)
        <4>1. toClient' \in [Conn -> Seq(Answer)]
          BY <3>4, <2>1, ReplyTypes DEF HandleQuery, Acknowledge, WireTypes
        <4> QED
          BY <3>4, <4>1 DEF HandleQuery, Acknowledge, HistoryTypes
      <3>5. CASE HandleHeartbeat(c, frame)
        BY <3>5, <2>1, ReplyTypes DEF HandleHeartbeat, HistoryTypes
      <3>6. CASE HandleShutdown(c, frame)
        BY <3>6, <2>1, ReplyTypes DEF HandleShutdown, HistoryTypes
      <3> QED
        BY <1>15, <3>1, <3>2, <3>3, <3>4, <3>5, <3>6 DEF HandleFrame
    <2> HIDE DEF frame
    <2>6. ClientTypes' /\ WireTypes' /\ HistoryTypes'
      BY <2>1, <2>3, <2>4, <2>5 DEF clients, ClientTypes, WireTypes, HistoryTypes
    <2>7. ThreadTypes' /\ HelloPending'
      <3>1. CASE HandleHello(c, frame)
        <4>1. /\ next_session \in Nat /\ next_session < MaxHellos /\ MaxHellos \in Nat
              /\ next_session' = next_session + 1
              /\ taken' = [taken EXCEPT ![c] = next_session + 1]
              /\ thread' = [thread EXCEPT ![c] = "hello"] /\ UNCHANGED session
          BY <3>1, SessionLimits DEF HandleHello, Goto, ThreadTypes
        <4>2. ThreadTypes'
          BY <2>4, <4>1 DEF control, ThreadTypes
        <4>3. ASSUME NEW d \in Conn, thread'[d] = "hello"
              PROVE  taken'[d] \in 1..next_session' /\ handled'[d] # <<>>
          <5>1. CASE d = c
            BY <5>1, <4>1, <2>3, <2>4 DEF ThreadTypes, HistoryTypes
          <5>2. CASE d # c
            <6>1. thread[d] = "hello" /\ taken'[d] = taken[d] /\ handled'[d] = handled[d]
              BY <5>2, <4>3, <4>1, <2>4 DEF ThreadTypes, HistoryTypes
            <6> QED
              BY <6>1, <4>1 DEF HelloPending
          <5> QED
            BY <5>1, <5>2
        <4> QED
          BY <4>2, <4>3 DEF HelloPending
      <3>2. CASE UNCHANGED <<taken, session, next_session>>
                 /\ (thread' = thread \/ Goto(c, "leaving") \/ Goto(c, NextTurn))
        BY <3>2, <2>3, <2>4 DEF control, Goto, NextTurn, ThreadTypes, HistoryTypes, HelloPending
      <3> QED
        BY <3>1, <3>2, <2>5
    <2> QED
      BY <2>6, <2>7
  <1>16. ASSUME NEW c \in Conn, RegisterHello(c) PROVE Typed'
    <2> DEFINE frame == Last(handled[c])
    <2>1. /\ taken[c] \in 1..next_session /\ handled[c] # <<>> /\ handled[c] \in Seq(Frame)
          /\ next_session \in Nat /\ MaxHellos \in Nat /\ next_session <= MaxHellos
      BY <1>16, SessionLimits DEF RegisterHello, HelloPending, HistoryTypes, ThreadTypes
    <2>2. frame \in Frame
      BY <2>1 DEF Last
    <2>3. PICK s \in taken[c]..next_session :
             \/ /\ session' = [session EXCEPT ![c] = [id |-> s, publisher |-> frame.publisher]]
                /\ Registry!RegisterStored(frame.publisher, c, s, Scope)
                /\ accepted' = accepted \cup {c}
                /\ collided' = IF SharersOf(c, s) = {} THEN collided
                               ELSE collided \cup SharersOf(c, s) \cup {c}
                /\ Reply(c, "HelloAck", frame)
                /\ Goto(c, "handling") \/ Goto(c, NextTurn)
             \/ /\ Deliver(c, <<Says("HelloRefused", frame), Says("ErrorReport", frame)>>)
                /\ Goto(c, NextTurn)
                /\ UNCHANGED <<session, accepted, collided>>
      BY <1>16 DEF RegisterHello
    <2>4. s \in 1..MaxHellos
      BY <2>1
    <2>5. /\ taken' = [taken EXCEPT ![c] = 0]
          /\ UNCHANGED <<clients, toServer, buffer, next_session, control, handled, applied, muted>>
      BY <1>16 DEF RegisterHello
    <2>6. [id |-> s, publisher |-> frame.publisher] \in SessionState
      BY <2>2, <2>4 DEF SessionState, Frame
    <2>7. toClient' \in [Conn -> Seq(Answer)]
      <3>1. <<Says("HelloRefused", frame), Says("ErrorReport", frame)>> \in Seq(Answer)
        BY <2>2 DEF Says, Answer, Frame
      <3> QED
        BY <2>2, <2>3, <3>1, ReplyTypes, DeliverTypes
    <2>8. /\ session' \in [Conn -> SessionState] /\ accepted' \in SUBSET Conn
          /\ \/ thread' = [thread EXCEPT ![c] = "handling"]
             \/ thread' = [thread EXCEPT ![c] = "leaving"]
             \/ thread' = [thread EXCEPT ![c] = "receiving"]
      BY <2>3, <2>6, ZenonT(60) DEF Goto, NextTurn, ThreadTypes, HistoryTypes
    <2> HIDE DEF frame
    <2> QED
      BY <2>5, <2>7, <2>8 DEF clients, control,
                ClientTypes, WireTypes, ThreadTypes, HistoryTypes, HelloPending
  <1>17. ASSUME NEW c \in Conn, Leave(c) PROVE Typed'
    <2>1. /\ sent' \in [Conn -> Seq(Frame)]
          /\ handled' \in [Conn -> Seq(Frame)] /\ applied' \in [Conn -> Seq(Frame)]
          /\ muted' \in SUBSET Conn
          /\ \A d \in Conn \ {c} : handled'[d] = handled[d]
      BY <1>17, ForgetTypes DEF Leave
    <2>2. toClient' \in [Conn -> Seq(Answer)]
      BY <1>17, NothingTyped DEF Leave, WireTypes
    <2>3. NoSession \in SessionState
      BY DEF SessionState
    <2> QED
      BY <1>17, <2>1, <2>2, <2>3, NothingTyped DEF Leave, Goto, control,
                ClientTypes, WireTypes, ThreadTypes, HistoryTypes, HelloPending
  <1>18. CASE Stop
    BY <1>18 DEF Stop, clients, wires, threads, history,
                ClientTypes, WireTypes, ThreadTypes, HistoryTypes, HelloPending
  <1>19. CASE Joined
    BY <1>19 DEF Joined, clients, wires, threads, history,
                ClientTypes, WireTypes, ThreadTypes, HistoryTypes, HelloPending
  <1>20. CASE Crash
    <2>1. NoSession \in SessionState /\ 0 \in 0..MaxHellos
      BY SessionLimits DEF SessionState
    <2> QED
      BY <1>20, <2>1, NothingTyped DEF Crash, clients, history,
                ClientTypes, WireTypes, ThreadTypes, HistoryTypes, HelloPending
  <1>21. CASE Open
    BY <1>21 DEF Open, clients, wires, threads, control, history,
                ClientTypes, WireTypes, ThreadTypes, HistoryTypes, HelloPending
  <1> QED
    BY <1>1, <1>2, <1>3, <1>4, <1>5, <1>6, <1>7, <1>8, <1>9, <1>10, <1>11, <1>12, <1>13,
       <1>14, <1>15, <1>16, <1>17, <1>18, <1>19, <1>20, <1>21
       DEF Next, Client, Serve

\* Server, clients and wires keep their types, and a Hello between its fetch_add
\* and its load has an identity that was handed out.
THEOREM TypesHold == Spec => []Typed
  BY TypedInit, TypedStep, PTL DEF Spec

-----------------------------------------------------------------------------
(* The registry is driven as Authority allows *)

\* What a Hello does to the registry.
LEMMA RegisterHelloStep ==
    ASSUME NEW c \in Conn, Typed, RegisterHello(c)
    PROVE  /\ Last(handled[c]) \in Frame
           /\ Last(handled[c]).publisher \in Publisher
           /\ taken[c]..next_session \subseteq 1..MaxHellos
  <1>1. /\ taken[c] \in 1..next_session /\ handled[c] # <<>> /\ handled[c] \in Seq(Frame)
        /\ next_session \in 0..MaxHellos /\ MaxHellos \in Nat
    BY SessionLimits DEF RegisterHello, Typed, HelloPending, HistoryTypes, ThreadTypes
  <1>2. Last(handled[c]) \in Frame
    BY <1>1 DEF Last
  <1> QED
    BY <1>1, <1>2 DEF Frame

LEMMA DriveStep == Typed /\ [Next]_vars => [Registry!Next]_(Registry!vars)
  <1> SUFFICES ASSUME Typed, [Next]_vars PROVE Registry!Next \/ UNCHANGED registry
    BY DEF registry, Registry!vars
  <1>1. CASE UNCHANGED vars
    BY <1>1 DEF vars
  <1>2. ASSUME NEW c \in Conn, Client(c) PROVE UNCHANGED registry
    BY <1>2 DEF Client, Connect, ConnectRaw, SendRaw, Request, Vanish, Receive, Disconnected
  <1>3. ASSUME NEW c \in Conn, Accept(c) PROVE UNCHANGED registry
    BY <1>3 DEF Accept
  <1>4. ASSUME NEW c \in Conn,
               \/ Spawn(c) \/ ServerReceive(c) \/ ServerLosesClient(c)
               \/ NeedsMore(c) \/ Unframed(c)
        PROVE  UNCHANGED registry
    BY <1>4 DEF Spawn, ServerReceive, ServerLosesClient, NeedsMore, Unframed
  <1>5. ASSUME NEW c \in Conn, HandleFrame(c) PROVE UNCHANGED registry
    <2> DEFINE frame == Popped(buffer[c])
    <2>1. \/ HandleHello(c, frame) \/ RefuseFrame(c, frame) \/ HandleMutation(c, frame)
          \/ HandleQuery(c, frame) \/ HandleHeartbeat(c, frame) \/ HandleShutdown(c, frame)
      BY <1>5 DEF HandleFrame
    <2> HIDE DEF frame
    <2> QED
      BY <2>1 DEF HandleHello, RefuseFrame, HandleMutation, HandleQuery, HandleHeartbeat,
                  HandleShutdown
  <1>6. ASSUME NEW c \in Conn, RegisterHello(c) PROVE Registry!Next \/ UNCHANGED registry
    <2> DEFINE p == Last(handled[c]).publisher
    <2>1. p \in Publisher /\ taken[c]..next_session \subseteq 1..MaxHellos
      BY <1>6, RegisterHelloStep
    <2>2. PICK s \in taken[c]..next_session :
             \/ Registry!RegisterStored(p, c, s, Scope)
             \/ Registry!RegisterUnstored(p, c, s, Scope)
             \/ Registry!RegisterRefused(p, c, s, Scope)
             \/ RefusedUntouched(p, c, s)
      BY <1>6 DEF RegisterHello
    <2> HIDE DEF p
    <2>3. s \in 1..MaxHellos /\ Scope \in SUBSET Scope
      BY <2>1
    <2>4. CASE RefusedUntouched(p, c, s)
      BY <2>4 DEF RefusedUntouched
    <2>5. CASE \/ Registry!RegisterStored(p, c, s, Scope)
               \/ Registry!RegisterUnstored(p, c, s, Scope)
               \/ Registry!RegisterRefused(p, c, s, Scope)
      <3>1. Registry!Register(p, c, s, Scope) \/ Registry!RegisterRefused(p, c, s, Scope)
        BY <2>5 DEF Registry!Register
      <3> QED
        BY <3>1, <2>1, <2>3 DEF Registry!Next
    <2> QED
      BY <2>2, <2>4, <2>5
  <1>7. ASSUME NEW c \in Conn, Leave(c) PROVE Registry!Next \/ UNCHANGED registry
    <2>1. LoseAuthority(c)
      BY <1>7 DEF Leave
    <2>2. CASE UNCHANGED registry
      BY <2>2
    <2>3. CASE session[c] # NoSession /\ Registry!FenceOnSessionLoss(session[c].id)
      <3>1. session[c].id \in 1..MaxHellos
        BY <2>3 DEF Typed, ThreadTypes, SessionState
      <3> QED
        BY <2>3, <3>1 DEF Registry!Next
    <2> QED
      BY <2>1, <2>2, <2>3 DEF LoseAuthority
  <1>8. CASE Stop \/ Joined
    BY <1>8 DEF Stop, Joined
  <1>9. CASE Crash
    BY <1>9 DEF Crash, Registry!Next
  <1>10. CASE Open
    BY <1>10 DEF Open, Registry!Next
  <1> QED
    BY <1>1, <1>2, <1>3, <1>4, <1>5, <1>6, <1>7, <1>8, <1>9, <1>10 DEF Next, Serve

\* The server and its clients make no registry step that module Authority does
\* not allow: Hello frames register, lost connections fence, nothing else of
\* serve and handle_frame touches the registry.
THEOREM ServerDrivesAuthority == Spec => DrivesAuthority
  <1>1. Init => Registry!Init
    BY DEF Init
  <1> QED
    BY <1>1, DriveStep, TypesHold, PTL DEF Spec, DrivesAuthority, Registry!Spec

-----------------------------------------------------------------------------
(* Frames on the stream *)

\* No units carry the frames after the last one.
LEMMA CarriesNothing ==
    ASSUME NEW fs \in Seq(Frame)
    PROVE  Carries(fs, Len(fs), <<>>)
  <1> DEFINE h == Len(fs)
  <1> DEFINE off == [m \in (h + 1)..(h + 1) |-> 0]
  <1>1. h \in Nat
    OBVIOUS
  <1>2. off \in [(h + 1)..(h + 1) -> 0..Len(<<>>)]
    BY <1>1
  <1>3. Laid(off, fs, h, <<>>)
    BY <1>1 DEF Laid
  <1> QED
    BY <1>2, <1>3 DEF Carries

\* encode_frame adds its units at the end.
LEMMA CarriesAppend ==
    ASSUME NEW fs \in Seq(Frame), NEW h \in 0..Len(fs), NEW st \in Seq(Unit),
           NEW f \in Frame, Carries(fs, h, st)
    PROVE  Carries(Append(fs, f), h, st \o Units(f))
  <1> DEFINE L == Len(fs)
             S == Len(st)
             gs == Append(fs, f)
             su == st \o Units(f)
  <1>1. L \in Nat /\ S \in Nat /\ h \in Nat /\ h <= L
    OBVIOUS
  <1>2. PICK off \in [(h + 1)..(L + 1) -> 0..S] : Laid(off, fs, h, st)
    BY DEF Carries
  <1>3. /\ Len(gs) = L + 1 /\ gs \in Seq(Frame)
        /\ \A m \in 1..L : gs[m] = fs[m]
        /\ gs[L + 1] = f
    BY AppendProperties
  <1>4. /\ Size(f) \in Nat \ {0}
        /\ Len(su) = S + Size(f)
        /\ \A k \in 1..S : su[k] = st[k]
        /\ \A k \in 1..Size(f) : su[S + k] = [frame |-> f, part |-> k]
    <2>1. /\ Size(f) \in Nat \ {0} /\ Units(f) \in Seq(Unit) /\ Len(Units(f)) = Size(f)
          /\ \A k \in 1..Size(f) : Units(f)[k] = [frame |-> f, part |-> k]
      BY UnitsType
    <2>2. /\ Len(su) = S + Len(Units(f))
          /\ \A i \in 1..(S + Len(Units(f))) :
                su[i] = IF i <= S THEN st[i] ELSE Units(f)[i - S]
      <3> HIDE DEF Units
      <3> QED
        BY <2>1, ConcatProperties
    <2> HIDE DEF su, S
    <2>3. \A k \in 1..Size(f) : S + k \in 1..(S + Size(f)) /\ ~(S + k <= S) /\ S + k - S = k
      BY <1>1, <2>1
    <2> QED
      BY <1>1, <2>1, <2>2, <2>3, SMTT(60)
  <1>5. \A m \in 1..L : Size(fs[m]) \in Nat \ {0}
    BY UnitsType, ElementOfSeq
  <1>8. \A m \in (h + 1)..L :
            /\ off[m + 1] = off[m] + Size(fs[m])
            /\ \A k \in 1..Size(fs[m]) : st[off[m] + k] = [frame |-> fs[m], part |-> k]
    BY <1>2 DEF Laid
  <1> DEFINE new == [m \in (h + 1)..(L + 2) |-> IF m <= L + 1 THEN off[m] ELSE S + Size(f)]
  <1> HIDE DEF gs, su, L, S
  <1>6. new \in [(h + 1)..(Len(gs) + 1) -> 0..Len(su)]
    BY <1>1, <1>2, <1>3, <1>4
  <1>7. Laid(new, gs, h, su)
    <2>1. new[h + 1] = 0 /\ new[Len(gs) + 1] = Len(su)
      BY <1>1, <1>2, <1>3, <1>4 DEF Laid, L
    <2>2. ASSUME NEW m \in (h + 1)..(Len(gs) + 1), NEW n \in (h + 1)..(Len(gs) + 1), m <= n
          PROVE  new[m] <= new[n]
      <3>1. CASE n <= L + 1
        BY <1>1, <1>2, <1>3, <2>2, <3>1 DEF Laid, L
      <3>2. CASE n = L + 2
        <4>1. new[n] = S + Size(f)
          BY <1>1, <3>2
        <4>2. CASE m <= L + 1
          <5>1. new[m] = off[m] /\ off[m] \in 0..S
            BY <1>1, <1>2, <1>3, <4>2
          <5> HIDE DEF new
          <5> QED
            BY <1>1, <1>4, <4>1, <5>1
        <4>3. CASE m = L + 2
          BY <1>1, <1>4, <3>2, <4>3
        <4> QED
          BY <1>1, <1>3, <4>2, <4>3
      <3> QED
        BY <1>1, <1>3, <3>1, <3>2
    <2>3. ASSUME NEW m \in (h + 1)..Len(gs)
          PROVE  /\ new[m + 1] = new[m] + Size(gs[m])
                 /\ \A k \in 1..Size(gs[m]) : su[new[m] + k] = [frame |-> gs[m], part |-> k]
      <3>1. CASE m = L + 1
        <4>1. off[L + 1] = S
          BY <1>2 DEF Laid, L, S
        <4> QED
          BY <1>1, <1>3, <1>4, <3>1, <4>1
      <3>2. CASE m <= L
        <4>1. /\ off[m + 1] = off[m] + Size(fs[m])
              /\ \A k \in 1..Size(fs[m]) : st[off[m] + k] = [frame |-> fs[m], part |-> k]
          <5>1. m \in (h + 1)..L
            BY <1>1, <1>3, <3>2
          <5> HIDE DEF new
          <5> QED
            BY <1>8, <5>1
        <4>2. off[m] \in 0..S /\ off[m + 1] \in 0..S
          BY <1>1, <1>2, <3>2
        <4>0. m \in 1..L
          BY <1>1, <1>3, <3>2
        <4>3. gs[m] = fs[m] /\ Size(fs[m]) \in Nat
          BY <4>0, <1>3, <1>5
        <4>4. ASSUME NEW k \in 1..Size(fs[m]) PROVE off[m] + k \in 1..S
          <5> DEFINE z == Size(fs[m])
                     a == off[m]
                     b == off[m + 1]
          <5>1. a \in 0..S /\ b \in 0..S /\ b = a + z /\ z \in Nat /\ k \in 1..z
            BY <4>1, <4>2, <4>3, <4>4
          <5> HIDE DEF z, a, b
          <5>2. a + k \in 1..S
            BY <1>1, <5>1
          <5> QED
            BY <5>2 DEF a
        <4>5. new[m] = off[m] /\ new[m + 1] = off[m + 1]
          BY <1>1, <3>2
        <4> HIDE DEF new
        <4> QED
          BY <1>4, <4>1, <4>3, <4>4, <4>5, SMTT(60), ZenonT(60)
      <3>3. m = L + 1 \/ m <= L
        BY <1>1, <1>3
      <3> HIDE DEF new
      <3> QED
        BY <3>1, <3>2, <3>3
    <2> HIDE DEF new
    <2> QED
      BY <2>1, <2>2, <2>3 DEF Laid
  <1> HIDE DEF new
  <1> QED
    BY <1>6, <1>7 DEF Carries, gs, su

\* pop finds the first frame that was not popped yet, and leaves the others.
LEMMA CarriesPop ==
    ASSUME NEW fs \in Seq(Frame), NEW h \in 0..Len(fs), NEW st \in Seq(Unit),
           Carries(fs, h, st), st # <<>>
    PROVE  /\ h < Len(fs)
           /\ st[1] = [frame |-> fs[h + 1], part |-> 1]
           /\ Size(fs[h + 1]) \in 1..Len(st)
           /\ Carries(fs, h + 1, SubSeq(st, Size(fs[h + 1]) + 1, Len(st)))
  <1> DEFINE L == Len(fs)
             S == Len(st)
             z == Size(fs[h + 1])
             su == SubSeq(st, z + 1, S)
  <1>1. L \in Nat /\ S \in Nat \ {0} /\ h \in Nat /\ h <= L
    OBVIOUS
  <1>2. PICK off \in [(h + 1)..(L + 1) -> 0..S] : Laid(off, fs, h, st)
    BY DEF Carries
  <1>3. h < L
    BY <1>1, <1>2 DEF Laid
  <1>4. \A m \in 1..L : Size(fs[m]) \in Nat \ {0}
    BY UnitsType, ElementOfSeq
  <1>5. z \in Nat \ {0} /\ off[h + 1] = 0 /\ off[h + 2] = z
    <2>1. z \in Nat \ {0}
      BY <1>1, <1>3, <1>4
    <2>2. off[h + 1] = 0 /\ off[h + 1 + 1] = off[h + 1] + z
      BY <1>1, <1>2, <1>3 DEF Laid
    <2> HIDE DEF z
    <2> QED
      BY <2>1, <2>2, <1>1
  <1>6. z <= S
    BY <1>1, <1>2, <1>3, <1>5
  <1>7. st[1] = [frame |-> fs[h + 1], part |-> 1]
    <2>0. h + 1 \in (h + 1)..L
      BY <1>1, <1>3
    <2>1. \A k \in 1..z : st[off[h + 1] + k] = [frame |-> fs[h + 1], part |-> k]
      BY <1>2, <2>0 DEF Laid
    <2>2. 1 \in 1..z
      BY <1>5
    <2>3. st[0 + 1] = [frame |-> fs[h + 1], part |-> 1]
      BY <1>5, <2>1, <2>2
    <2> QED
      BY <2>3
  <1>8. /\ su \in Seq(Unit) /\ Len(su) = S - z
        /\ \A i \in 1..(S - z) : su[i] = st[z + i]
    <2>1. \A i \in (z + 1)..S : st[i] \in Unit
      BY <1>1, <1>5, <1>6, ElementOfSeq
    <2>0. z + 1 \in Int /\ S \in Int
      BY <1>1, <1>5
    <2>2. /\ su \in Seq(Unit)
          /\ Len(su) = IF z + 1 <= S THEN S - (z + 1) + 1 ELSE 0
          /\ \A i \in 1..(S - (z + 1) + 1) : su[i] = st[z + 1 + i - 1]
      <3> HIDE DEF z, S
      <3> QED
        BY <2>0, <2>1, SubSeqProperties, SMTT(60)
    <2> HIDE DEF su, z, S
    <2> QED
      BY <1>1, <1>5, <1>6, <2>2
  <1> DEFINE new == [m \in (h + 2)..(L + 1) |-> off[m] - z]
  <1> HIDE DEF su, z, L, S
  <1>9. \A m \in (h + 2)..(L + 1) : off[m] \in z..S
    <2>1. ASSUME NEW m \in (h + 2)..(L + 1) PROVE off[h + 2] <= off[m] /\ off[m] \in 0..S
      BY <1>1, <1>2, <1>3 DEF Laid, L
    <2> QED
      BY <1>1, <1>5, <2>1
  <1>10. new \in [(h + 1 + 1)..(L + 1) -> 0..Len(su)]
    BY <1>1, <1>5, <1>8, <1>9, SMTT(60)
  <1>11. Laid(new, fs, h + 1, su)
    <2>1. new[h + 1 + 1] = 0 /\ new[L + 1] = Len(su)
      <3>1. off[L + 1] = S
        BY <1>2 DEF Laid, L, S
      <3> QED
        BY <1>1, <1>3, <1>5, <1>8, <3>1
    <2>2. ASSUME NEW m \in (h + 1 + 1)..(L + 1), NEW n \in (h + 1 + 1)..(L + 1), m <= n
          PROVE  new[m] <= new[n]
      <3>1. off[m] <= off[n]
        BY <1>1, <1>2, <2>2 DEF Laid, L
      <3> QED
        BY <1>1, <1>5, <1>9, <3>1
    <2>3. ASSUME NEW m \in (h + 1 + 1)..L
          PROVE  /\ new[m + 1] = new[m] + Size(fs[m])
                 /\ \A k \in 1..Size(fs[m]) : su[new[m] + k] = [frame |-> fs[m], part |-> k]
      <3>1. /\ off[m + 1] = off[m] + Size(fs[m])
            /\ \A k \in 1..Size(fs[m]) : st[off[m] + k] = [frame |-> fs[m], part |-> k]
        BY <1>1, <1>2 DEF Laid, L
      <3>2. m \in 1..L /\ Size(fs[m]) \in Nat \ {0}
        BY <1>1, <1>4 DEF L
      <3>3. off[m] \in z..S /\ off[m + 1] \in z..S
        BY <1>1, <1>9
      <3>4. new[m] = off[m] - z /\ new[m + 1] = off[m + 1] - z
        BY <1>1
      <3> HIDE DEF new
      <3>5. new[m + 1] = new[m] + Size(fs[m])
        BY <1>1, <1>5, <3>1, <3>2, <3>3, <3>4, SMTT(60)
      <3>6. ASSUME NEW k \in 1..Size(fs[m])
            PROVE  su[new[m] + k] = [frame |-> fs[m], part |-> k]
        <4>1. new[m] + k \in 1..(S - z) /\ z + (new[m] + k) = off[m] + k
          <5> DEFINE y == Size(fs[m])
                     a == off[m]
                     b == off[m + 1]
                     c == new[m]
          <5>1. /\ a \in z..S /\ b \in z..S /\ b = a + y /\ y \in Nat /\ k \in 1..y
                /\ c = a - z
            BY <3>1, <3>2, <3>3, <3>4, <3>6
          <5> HIDE DEF y, a, b, c
          <5>2. c + k \in 1..(S - z) /\ z + (c + k) = a + k
            BY <1>1, <1>5, <5>1
          <5> QED
            BY <5>2 DEF a, c
        <4> QED
          BY <1>8, <3>1, <4>1
      <3> QED
        BY <3>5, <3>6
    <2> HIDE DEF new
    <2> QED
      BY <2>1, <2>2, <2>3 DEF Laid, L
  <1> HIDE DEF new
  <1>12. Carries(fs, h + 1, su)
    BY <1>10, <1>11 DEF Carries, L
  <1> QED
    BY <1>3, <1>5, <1>6, <1>7, <1>12, <1>1 DEF su, z, L, S

-----------------------------------------------------------------------------
(* A connection is touched by its own client and thread, and by the server   *)
(* as a whole.                                                               *)

Untouched(d) ==
    /\ client'[d] = client[d] /\ sent'[d] = sent[d] /\ outcome'[d] = outcome[d]
    /\ toServer'[d] = toServer[d] /\ toClient'[d] = toClient[d] /\ buffer'[d] = buffer[d]
    /\ thread'[d] = thread[d] /\ session'[d] = session[d]
    /\ handled'[d] = handled[d] /\ applied'[d] = applied[d]

Local(c) ==
    /\ scenario' = scenario /\ stopping' = stopping
    /\ \A d \in Conn \ {c} : Untouched(d)

LEMMA DeliverOwn ==
    ASSUME NEW c \in Conn, NEW answers, Typed, Deliver(c, answers)
    PROVE  /\ \A d \in Conn \ {c} : toClient'[d] = toClient[d]
           /\ toClient'[c] = IF c \in scenario.workers /\ Connected(c)
                             THEN toClient[c] \o answers ELSE toClient[c]
  BY DEF Deliver, Typed, WireTypes

LEMMA ForgetOwn ==
    ASSUME NEW c \in Conn, NEW over \in BOOLEAN, Typed, Forget(c, over)
    PROVE  /\ \A d \in Conn \ {c} : /\ sent'[d] = sent[d]
                                    /\ handled'[d] = handled[d] /\ applied'[d] = applied[d]
           /\ sent'[c] = IF over THEN <<>> ELSE sent[c]
           /\ handled'[c] = IF over THEN <<>> ELSE handled[c]
           /\ applied'[c] = IF over THEN <<>> ELSE applied[c]
  BY DEF Forget, Typed, ClientTypes, HistoryTypes

LEMMA StepIsLocal ==
    ASSUME NEW c \in Conn, Typed, Client(c) \/ Accept(c) \/ Serve(c)
    PROVE  Local(c)
  <1> USE DEF Local, Untouched, Typed
  <1>1. CASE Connect(c)
    BY <1>1 DEF Connect, Send, threads, control, history, ClientTypes, WireTypes
  <1>2. CASE ConnectRaw(c)
    BY <1>2 DEF ConnectRaw, wires, threads, control, history, ClientTypes
  <1>3. ASSUME NEW script \in scenario.scripts, SendRaw(c, script) PROVE Local(c)
    BY <1>3 DEF SendRaw, Send, threads, control, history, ClientTypes, WireTypes
  <1>4. ASSUME NEW message \in scenario.messages, Request(c, message) PROVE Local(c)
    BY <1>4 DEF Request, Send, Returns, threads, control, history, ClientTypes, WireTypes,
                HistoryTypes
  <1>5. CASE Vanish(c)
    <2>1. \A d \in Conn \ {c} : /\ sent'[d] = sent[d]
                                /\ handled'[d] = handled[d] /\ applied'[d] = applied[d]
      BY <1>5, ForgetOwn DEF Vanish
    <2> QED
      BY <1>5, <2>1 DEF Vanish, Returns, threads, control, ClientTypes, WireTypes, HistoryTypes
  <1>6. CASE Receive(c)
    BY <1>6 DEF Receive, Returns, threads, control, history, ClientTypes, WireTypes, HistoryTypes
  <1>7. CASE Disconnected(c)
    <2>1. \A d \in Conn \ {c} : /\ sent'[d] = sent[d]
                                /\ handled'[d] = handled[d] /\ applied'[d] = applied[d]
      BY <1>7, ForgetOwn DEF Disconnected
    <2> QED
      BY <1>7, <2>1 DEF Disconnected, Returns, wires, threads, control, ClientTypes, HistoryTypes
  <1>8. CASE Accept(c) \/ Spawn(c) \/ ServerLosesClient(c) \/ NeedsMore(c)
    BY <1>8 DEF Accept, Spawn, ServerLosesClient, NeedsMore, Goto, clients, wires, control,
                history, ThreadTypes
  <1>9. CASE ServerReceive(c)
    <2>1. /\ \A d \in Conn \ {c} : /\ toServer'[d] = toServer[d] /\ buffer'[d] = buffer[d]
                                   /\ thread'[d] = thread[d]
          /\ UNCHANGED toClient \/ ReplyToNothing(c)
      BY <1>9 DEF ServerReceive, Goto, WireTypes, ThreadTypes
    <2>2. \A d \in Conn \ {c} : toClient'[d] = toClient[d]
      BY <2>1, DeliverOwn DEF ReplyToNothing
    <2> QED
      BY <1>9, <2>1, <2>2 DEF ServerReceive, clients, control, history
  <1>10. CASE Unframed(c)
    <2>1. \A d \in Conn \ {c} : toClient'[d] = toClient[d]
      BY <1>10, DeliverOwn DEF Unframed, ReplyToNothing
    <2> QED
      BY <1>10, <2>1 DEF Unframed, Goto, clients, control, history, WireTypes, ThreadTypes
  <1>11. CASE HandleFrame(c)
    <2> DEFINE frame == Popped(buffer[c])
    <2>1. \/ HandleHello(c, frame) \/ RefuseFrame(c, frame) \/ HandleMutation(c, frame)
          \/ HandleQuery(c, frame) \/ HandleHeartbeat(c, frame) \/ HandleShutdown(c, frame)
      BY <1>11 DEF HandleFrame
    <2>2. /\ handled' = [handled EXCEPT ![c] = Append(@, frame)]
          /\ buffer' = [buffer EXCEPT ![c] = Rest(@)]
          /\ UNCHANGED <<clients, toServer, control>>
      BY <1>11 DEF HandleFrame
    <2> HIDE DEF frame
    <2>3. \/ UNCHANGED toClient
          \/ \E message \in {"Ack", "ErrorReport"} : Reply(c, message, frame)
      BY <2>1 DEF HandleHello, RefuseFrame, HandleMutation, HandleQuery, HandleHeartbeat,
                  HandleShutdown, Acknowledge
    <2>4. \A d \in Conn \ {c} : toClient'[d] = toClient[d]
      BY <2>3, DeliverOwn DEF Reply
    <2>5. /\ session' = session
          /\ \A d \in Conn \ {c} : thread'[d] = thread[d] /\ applied'[d] = applied[d]
      BY <2>1 DEF HandleHello, RefuseFrame, HandleMutation, HandleQuery, HandleHeartbeat,
                  HandleShutdown, Goto, ThreadTypes, HistoryTypes
    <2> QED
      BY <2>2, <2>4, <2>5 DEF clients, control, WireTypes, HistoryTypes
  <1>12. CASE RegisterHello(c)
    <2> DEFINE frame == Last(handled[c])
    <2>1. /\ \A d \in Conn \ {c} : session'[d] = session[d] /\ thread'[d] = thread[d]
          /\ \/ Reply(c, "HelloAck", frame)
             \/ Deliver(c, <<Says("HelloRefused", frame), Says("ErrorReport", frame)>>)
      BY <1>12 DEF RegisterHello, Goto, ThreadTypes
    <2>2. \A d \in Conn \ {c} : toClient'[d] = toClient[d]
      BY <2>1, DeliverOwn DEF Reply
    <2>3. UNCHANGED <<clients, toServer, buffer, control, handled, applied>>
      BY <1>12 DEF RegisterHello
    <2> QED
      BY <2>1, <2>2, <2>3 DEF clients, control
  <1>13. CASE Leave(c)
    <2>1. \A d \in Conn \ {c} : /\ sent'[d] = sent[d]
                                /\ handled'[d] = handled[d] /\ applied'[d] = applied[d]
      BY <1>13, ForgetOwn DEF Leave
    <2> QED
      BY <1>13, <2>1 DEF Leave, Goto, control, WireTypes, ThreadTypes
  <1> QED
    BY <1>1, <1>2, <1>3, <1>4, <1>5, <1>6, <1>7, <1>8, <1>9, <1>10, <1>11, <1>12, <1>13
       DEF Client, Serve

-----------------------------------------------------------------------------
(* Frames are handled in order *)

LEMMA SuffixProperties ==
    ASSUME NEW w \in Seq(Unit), NEW z \in 0..Len(w)
    PROVE  /\ SubSeq(w, z + 1, Len(w)) \in Seq(Unit)
           /\ Len(SubSeq(w, z + 1, Len(w))) = Len(w) - z
           /\ \A i \in 1..(Len(w) - z) : SubSeq(w, z + 1, Len(w))[i] = w[z + i]
  <1> DEFINE W == Len(w)
             u == SubSeq(w, z + 1, W)
  <1>1. W \in Nat /\ z \in Nat /\ z <= W
    OBVIOUS
  <1>2. \A i \in (z + 1)..W : w[i] \in Unit
    BY <1>1, ElementOfSeq
  <1>3. z + 1 \in Int /\ W \in Int
    BY <1>1
  <1>4. /\ u \in Seq(Unit)
        /\ Len(u) = IF z + 1 <= W THEN W - (z + 1) + 1 ELSE 0
        /\ \A i \in 1..(W - (z + 1) + 1) : u[i] = w[z + 1 + i - 1]
    <2> HIDE DEF W
    <2> QED
      BY <1>2, <1>3, SubSeqProperties
  <1> HIDE DEF u, W
  <1>5. Len(u) = W - z /\ \A i \in 1..(W - z) : u[i] = w[z + i]
    BY <1>1, <1>4
  <1> QED
    BY <1>4, <1>5 DEF u, W

\* What pop leaves in the buffer, with what is on its way.
LEMMA RestOfStream ==
    ASSUME NEW b \in Seq(Unit), NEW t \in Seq(Unit), NEW z \in 1..Len(b)
    PROVE  SubSeq(b, z + 1, Len(b)) \o t = SubSeq(b \o t, z + 1, Len(b \o t))
  <1> DEFINE B == Len(b)
             T == Len(t)
             w == b \o t
             u == SubSeq(b, z + 1, B)
             v == SubSeq(w, z + 1, Len(w))
             x == u \o t
  <1>1. B \in Nat /\ T \in Nat /\ z \in Nat /\ z <= B
    OBVIOUS
  <1>2. /\ w \in Seq(Unit) /\ Len(w) = B + T
        /\ \A i \in 1..(B + T) : w[i] = IF i <= B THEN b[i] ELSE t[i - B]
    BY ConcatProperties
  <1>3. u \in Seq(Unit) /\ Len(u) = B - z /\ \A i \in 1..(B - z) : u[i] = b[z + i]
    BY <1>1, SuffixProperties
  <1> HIDE DEF w, B, T
  <1>4. z \in 0..Len(w)
    BY <1>1, <1>2
  <1>5. v \in Seq(Unit) /\ Len(v) = Len(w) - z /\ \A i \in 1..(Len(w) - z) : v[i] = w[z + i]
    BY <1>2, <1>4, SuffixProperties
  <1> HIDE DEF u, v
  <1>6. /\ x \in Seq(Unit) /\ Len(x) = Len(u) + T
        /\ \A i \in 1..(Len(u) + T) : x[i] = IF i <= Len(u) THEN u[i] ELSE t[i - Len(u)]
    BY <1>3, ConcatProperties DEF T
  <1> HIDE DEF x
  <1>7. Len(x) = Len(v)
    BY <1>1, <1>2, <1>3, <1>5, <1>6
  <1>8. ASSUME NEW i \in 1..Len(x) PROVE x[i] = v[i]
    <2>1. i \in 1..(B - z + T)
      BY <1>8, <1>1, <1>3, <1>6
    <2>2. v[i] = w[z + i]
      BY <1>1, <1>2, <1>5, <2>1
    <2>3. CASE i <= B - z
      <3>1. x[i] = u[i] /\ u[i] = b[z + i]
        BY <1>1, <1>3, <1>6, <2>1, <2>3
      <3>2. w[z + i] = b[z + i]
        BY <1>1, <1>2, <2>1, <2>3
      <3> QED
        BY <2>2, <3>1, <3>2
    <2>4. CASE ~(i <= B - z)
      <3>1. x[i] = t[i - (B - z)]
        BY <1>1, <1>3, <1>6, <2>1, <2>4
      <3>2. w[z + i] = t[z + i - B]
        BY <1>1, <1>2, <2>1, <2>4
      <3>3. z + i - B = i - (B - z)
        BY <1>1, <2>1
      <3> QED
        BY <2>2, <3>1, <3>2, <3>3
    <2> QED
      BY <2>3, <2>4
  <1>9. x = v
    BY <1>5, <1>6, <1>7, <1>8, SeqEqual
  <1> QED
    BY <1>9 DEF x, u, v, w, B

LEMMA StreamTypes ==
    ASSUME NEW c \in Conn, Typed
    PROVE  /\ sent[c] \in Seq(Frame) /\ handled[c] \in Seq(Frame)
           /\ applied[c] \in Seq(Frame)
           /\ buffer[c] \in Seq(Unit) /\ toServer[c] \in Seq(Unit)
           /\ buffer[c] \o toServer[c] \in Seq(Unit)
           /\ toClient[c] \in Seq(Answer)
  <1>1. buffer[c] \in Seq(Unit) /\ toServer[c] \in Seq(Unit) /\ toClient[c] \in Seq(Answer)
    BY DEF Typed, WireTypes
  <1>2. buffer[c] \o toServer[c] \in Seq(Unit)
    BY <1>1, ConcatProperties
  <1> QED
    BY <1>1, <1>2 DEF Typed, ClientTypes, HistoryTypes

\* As long as units are under way there is a frame to handle.
LEMMA UnitsPending ==
    ASSUME NEW c \in Conn, Typed, Framed(c), Serving(c),
           buffer[c] # <<>> \/ toServer[c] # <<>>
    PROVE  /\ Len(handled[c]) < Len(sent[c])
           /\ Carries(sent[c], Len(handled[c]), buffer[c] \o toServer[c])
           /\ buffer[c] \o toServer[c] # <<>>
  <1>1. buffer[c] \o toServer[c] # <<>>
    BY StreamTypes, ConcatEqualIffEmpty
  <1>2. Carries(sent[c], Len(handled[c]), buffer[c] \o toServer[c])
    BY DEF Framed
  <1>3. Len(handled[c]) \in 0..Len(sent[c])
    BY StreamTypes DEF Framed, HandledFirst
  <1> QED
    BY <1>1, <1>2, <1>3, StreamTypes, CarriesPop

\* The frame handle_frame gets is the next one the client sent.
LEMMA PopIsNext ==
    ASSUME NEW c \in Conn, Typed, Framed(c), HandleFrame(c)
    PROVE  /\ Len(handled[c]) < Len(sent[c])
           /\ Popped(buffer[c]) = sent[c][Len(handled[c]) + 1]
           /\ Popped(buffer[c]) \in Frame
           /\ Carries(sent[c], Len(handled[c]) + 1, Rest(buffer[c]) \o toServer[c])
  <1> DEFINE b == buffer[c]
             t == toServer[c]
             h == Len(handled[c])
  <1>1. thread[c] = "handling" /\ PopStatus(b) = "Produces"
    BY DEF HandleFrame
  <1>2. /\ sent[c] \in Seq(Frame) /\ b \in Seq(Unit) /\ t \in Seq(Unit)
        /\ b \o t \in Seq(Unit)
    BY StreamTypes
  <1>3. /\ b # <<>> /\ Popped(b) \in Frame /\ b[1].frame = Popped(b)
        /\ Size(Popped(b)) \in 1..Len(b)
    BY <1>1, <1>2, PopProduces
  <1>4. h \in 0..Len(sent[c])
    BY StreamTypes DEF Framed, HandledFirst
  <1>5. /\ h < Len(sent[c]) /\ Carries(sent[c], h, b \o t) /\ b \o t # <<>>
    BY <1>1, <1>3, UnitsPending DEF Serving
  <1> DEFINE st == b \o t
  <1>6. st[1] = b[1]
    <2>1. Len(b) \in Nat \ {0} /\ Len(t) \in Nat
      BY <1>2, <1>3
    <2>2. 1 \in 1..(Len(b) + Len(t)) /\ 1 <= Len(b)
      <3> HIDE DEF b, t
      <3> QED
        BY <2>1
    <2>3. \A i \in 1..(Len(b) + Len(t)) : st[i] = IF i <= Len(b) THEN b[i] ELSE t[i - Len(b)]
      BY <1>2, ConcatProperties
    <2> HIDE DEF st
    <2> QED
      BY <2>2, <2>3
  <1>7. SubSeq(b, Size(Popped(b)) + 1, Len(b)) \o t = SubSeq(st, Size(Popped(b)) + 1, Len(st))
    BY <1>2, <1>3, RestOfStream
  <1> HIDE DEF st, h, b, t
  <1>8. /\ st[1] = [frame |-> sent[c][h + 1], part |-> 1]
        /\ Carries(sent[c], h + 1, SubSeq(st, Size(sent[c][h + 1]) + 1, Len(st)))
    <2>1. st \in Seq(Unit) /\ Carries(sent[c], h, st) /\ st # <<>>
      BY <1>2, <1>5 DEF st
    <2> QED
      BY <1>2, <1>4, <2>1, CarriesPop
  <1>9. Popped(b) = sent[c][h + 1]
    BY <1>3, <1>6, <1>8
  <1> QED
    BY <1>3, <1>5, <1>7, <1>8, <1>9 DEF Rest, h, b, t

LEMMA Regroup ==
    \A s, t, u \in Seq(Unit) : (s \o t) \o u = s \o (t \o u)
  BY ConcatAssociative

\* A step that leaves the frames and the units of c as they are.
LEMMA FramedKept ==
    ASSUME NEW c \in Conn, Framed(c),
           sent'[c] = sent[c], handled'[c] = handled[c],
           (buffer[c] \o toServer[c])' = buffer[c] \o toServer[c],
           Serving(c)' => Serving(c),
           client'[c] = "new" => Blank(c)'
    PROVE  Framed(c)'
  BY DEF Framed, HandledFirst

LEMMA FramedSend ==
    ASSUME NEW c \in Conn, NEW frame \in Frame, Typed, Framed(c), Send(c, frame),
           handled'[c] = handled[c], buffer'[c] = buffer[c],
           Serving(c)' => Serving(c), client'[c] # "new"
    PROVE  Framed(c)'
  <1>1. /\ sent'[c] = Append(sent[c], frame)
        /\ toServer'[c] = toServer[c] \o Units(frame)
    BY DEF Send, Typed, ClientTypes, WireTypes
  <1>2. /\ sent[c] \in Seq(Frame) /\ handled[c] \in Seq(Frame)
        /\ buffer[c] \in Seq(Unit) /\ toServer[c] \in Seq(Unit)
        /\ buffer[c] \o toServer[c] \in Seq(Unit) /\ Units(frame) \in Seq(Unit)
    BY StreamTypes, UnitsType
  <1>3. Len(handled[c]) \in 0..Len(sent[c])
    BY <1>2 DEF Framed, HandledFirst
  <1>4. HandledFirst(c)'
    <2>1. /\ Len(sent'[c]) = Len(sent[c]) + 1
          /\ \A i \in 1..Len(sent[c]) : sent'[c][i] = sent[c][i]
      BY <1>1, <1>2, AppendProperties
    <2>2. Len(handled[c]) \in Nat /\ Len(sent[c]) \in Nat
      BY <1>2
    <2> QED
      BY <1>3, <2>1, <2>2 DEF Framed, HandledFirst
  <1>5. ASSUME Serving(c)'
        PROVE  Carries(sent[c], Len(handled[c]), buffer[c] \o toServer[c])'
    <2>1. Carries(sent[c], Len(handled[c]), buffer[c] \o toServer[c])
      BY <1>5 DEF Framed
    <2>2. Carries(Append(sent[c], frame), Len(handled[c]),
                  (buffer[c] \o toServer[c]) \o Units(frame))
      BY <1>2, <1>3, <2>1, CarriesAppend
    <2>3. (buffer[c] \o toServer[c]) \o Units(frame)
             = buffer[c] \o (toServer[c] \o Units(frame))
      BY <1>2, Regroup
    <2> QED
      BY <1>1, <2>2, <2>3
  <1> QED
    BY <1>4, <1>5 DEF Framed

LEMMA FramedOwn ==
    ASSUME NEW c \in Conn, Typed, Framed(c), Client(c) \/ Accept(c) \/ Serve(c)
    PROVE  Framed(c)'
  <1>1. ASSUME Connect(c) PROVE Framed(c)'
    <2>1. WorkerFrame(c, "Hello") \in Frame
      BY WorkerFrameType DEF Message
    <2>2. handled' = handled /\ buffer' = buffer /\ (Serving(c)' <=> Serving(c))
      BY <1>1 DEF Connect, threads, control, history, Serving
    <2>3. client'[c] # "new"
      BY <1>1 DEF Connect, Typed, ClientTypes
    <2> QED
      BY <1>1, <2>1, <2>2, <2>3, FramedSend DEF Connect
  <1>2. ASSUME ConnectRaw(c) PROVE Framed(c)'
    <2>1. client'[c] # "new"
      BY <1>2 DEF ConnectRaw, Typed, ClientTypes
    <2>2. /\ sent' = sent /\ handled' = handled /\ buffer' = buffer /\ toServer' = toServer
          /\ Serving(c)' => Serving(c)
      BY <1>2 DEF ConnectRaw, wires, threads, control, history, Serving
    <2> QED
      BY <2>1, <2>2, FramedKept
  <1>3. ASSUME NEW script \in scenario.scripts, SendRaw(c, script) PROVE Framed(c)'
    <2>1. script \in Seq(Frame) /\ sent[c] \in Seq(Frame)
      BY DEF Typed, ClientTypes, ScenarioType
    <2>2. script[Len(sent[c]) + 1] \in Frame
      BY <1>3, <2>1, ElementOfSeq, LenProperties DEF SendRaw
    <2>3. handled' = handled /\ buffer' = buffer /\ (Serving(c)' <=> Serving(c))
      BY <1>3 DEF SendRaw, threads, control, history, Serving
    <2>4. client'[c] # "new"
      BY <1>3 DEF SendRaw
    <2> QED
      BY <1>3, <2>2, <2>3, <2>4, FramedSend DEF SendRaw
  <1>4. ASSUME NEW message \in scenario.messages, Request(c, message) PROVE Framed(c)'
    <2>1. WorkerFrame(c, message) \in Frame
      BY WorkerFrameType DEF Typed, ClientTypes, ScenarioType
    <2>2. handled' = handled /\ buffer' = buffer /\ (Serving(c)' <=> Serving(c))
      BY <1>4 DEF Request, threads, control, history, Serving
    <2>3. client'[c] # "new"
      BY <1>4 DEF Request, Typed, ClientTypes
    <2> QED
      BY <1>4, <2>1, <2>2, <2>3, FramedSend DEF Request
  <1>5. ASSUME Vanish(c) PROVE Framed(c)'
    <2>1. client'[c] # "new"
      BY <1>5 DEF Vanish, Typed, ClientTypes
    <2>2. /\ sent'[c] = IF thread[c] = "done" THEN <<>> ELSE sent[c]
          /\ handled'[c] = IF thread[c] = "done" THEN <<>> ELSE handled[c]
      BY <1>5, ForgetOwn DEF Vanish
    <2>3. thread' = thread /\ buffer' = buffer /\ toServer' = toServer /\ stopping' = stopping
      BY <1>5 DEF Vanish, threads, control
    <2>4. CASE thread[c] = "done"
      BY <2>1, <2>2, <2>3, <2>4 DEF Framed, HandledFirst, Serving
    <2>5. CASE thread[c] # "done"
      BY <2>1, <2>2, <2>3, <2>5, FramedKept DEF Serving
    <2> QED
      BY <2>4, <2>5
  <1>6. ASSUME Receive(c) PROVE Framed(c)'
    <2>1. client'[c] # "new"
      BY <1>6 DEF Receive, Typed, ClientTypes
    <2>2. /\ sent' = sent /\ handled' = handled /\ buffer' = buffer /\ toServer' = toServer
          /\ Serving(c)' => Serving(c)
      BY <1>6 DEF Receive, threads, control, history, Serving
    <2> QED
      BY <2>1, <2>2, FramedKept
  <1>7. ASSUME Disconnected(c) PROVE Framed(c)'
    <2>1. client'[c] # "new"
      BY <1>7 DEF Disconnected, Typed, ClientTypes
    <2>2. sent'[c] = <<>> /\ handled'[c] = <<>>
      BY <1>7, ForgetOwn DEF Disconnected
    <2>3. ~Serving(c)'
      BY <1>7 DEF Disconnected, threads, control, Serving
    <2> QED
      BY <2>1, <2>2, <2>3 DEF Framed, HandledFirst
  <1>8. ASSUME Accept(c) \/ Spawn(c) \/ ServerLosesClient(c) \/ NeedsMore(c) PROVE Framed(c)'
    <2>1. /\ sent' = sent /\ handled' = handled /\ buffer' = buffer /\ toServer' = toServer
          /\ client' = client
      BY <1>8 DEF Accept, Spawn, ServerLosesClient, NeedsMore, clients, wires, history
    <2>2. client[c] # "new" /\ Serving(c)
      BY <1>8 DEF Accept, Spawn, ServerLosesClient, NeedsMore, Framed, Blank, Serving
    <2> QED
      BY <2>1, <2>2, FramedKept
  <1>9. ASSUME ServerReceive(c) PROVE Framed(c)'
    <2> DEFINE t == toServer[c]
               b == buffer[c]
    <2>1. PICK n \in 1..Len(t) :
             /\ toServer'[c] = SubSeq(t, n + 1, Len(t))
             /\ \/ buffer'[c] = b \o SubSeq(t, 1, n)
                \/ thread'[c] = "leaving"
      BY <1>9 DEF ServerReceive, Goto, Typed, WireTypes, ThreadTypes
    <2>2. /\ sent' = sent /\ handled' = handled /\ client' = client
      BY <1>9 DEF ServerReceive, clients, history
    <2>3. client[c] # "new" /\ Serving(c)
      BY <1>9 DEF ServerReceive, Framed, Blank, Serving
    <2>4. CASE thread'[c] = "leaving"
      BY <2>2, <2>3, <2>4 DEF Framed, HandledFirst, Serving
    <2>5. CASE buffer'[c] = b \o SubSeq(t, 1, n)
      <3>1. t \in Seq(Unit) /\ b \in Seq(Unit) /\ Len(t) \in Nat
        BY StreamTypes
      <3> HIDE DEF t, b
      <3>2. /\ SubSeq(t, 1, n) \in Seq(Unit)
            /\ SubSeq(t, n + 1, Len(t)) \in Seq(Unit)
        BY <3>1, SubSeqProperties
      <3>3. SubSeq(t, 1, n) \o SubSeq(t, n + 1, Len(t)) = t
        <4>1. 1 \in 1..(Len(t) + 1) /\ n \in 0..Len(t) /\ Len(t) \in n..Len(t)
          BY <3>1
        <4>2. SubSeq(t, 1, n) \o SubSeq(t, n + 1, Len(t)) = SubSeq(t, 1, Len(t))
          BY <3>1, <4>1, ConcatAdjacentSubSeq
        <4> QED
          BY <3>1, <4>2, SubSeqFull
      <3>4. (b \o SubSeq(t, 1, n)) \o SubSeq(t, n + 1, Len(t)) = b \o t
        <4> DEFINE x == SubSeq(t, 1, n)
                   y == SubSeq(t, n + 1, Len(t))
        <4>1. x \in Seq(Unit) /\ y \in Seq(Unit) /\ x \o y = t
          BY <3>2, <3>3
        <4> HIDE DEF x, y
        <4>2. (b \o x) \o y = b \o (x \o y)
          BY <3>1, <4>1, Regroup
        <4> QED
          BY <4>1, <4>2 DEF x, y
      <3> QED
        BY <2>1, <2>2, <2>3, <2>5, <3>4, FramedKept DEF t, b
    <2> QED
      BY <2>1, <2>4, <2>5
  <1>10. ASSUME Unframed(c) PROVE Framed(c)'
    BY <1>10 DEF Unframed, Goto, clients, history, Typed, ThreadTypes,
                 Framed, Blank, HandledFirst, Serving
  <1>11. ASSUME HandleFrame(c) PROVE Framed(c)'
    <2> DEFINE h == Len(handled[c])
    <2>1. /\ h < Len(sent[c]) /\ Popped(buffer[c]) = sent[c][h + 1]
          /\ Popped(buffer[c]) \in Frame
          /\ Carries(sent[c], h + 1, Rest(buffer[c]) \o toServer[c])
      BY <1>11, PopIsNext
    <2>2. /\ handled'[c] = Append(handled[c], Popped(buffer[c]))
          /\ buffer'[c] = Rest(buffer[c])
          /\ sent' = sent /\ client' = client /\ toServer' = toServer
      BY <1>11 DEF HandleFrame, clients, Typed, WireTypes, HistoryTypes
    <2>3. /\ handled[c] \in Seq(Frame) /\ sent[c] \in Seq(Frame)
          /\ h \in Nat /\ Len(sent[c]) \in Nat
      BY StreamTypes
    <2>4. /\ Len(handled'[c]) = h + 1
          /\ \A i \in 1..h : handled'[c][i] = handled[c][i]
          /\ handled'[c][h + 1] = Popped(buffer[c])
      BY <2>1, <2>2, <2>3, AppendProperties
    <2>5. client[c] # "new"
      BY <1>11 DEF HandleFrame, Framed, Blank
    <2>6. h <= Len(sent[c]) /\ \A i \in 1..h : handled[c][i] = sent[c][i]
      BY DEF Framed, HandledFirst
    <2> HIDE DEF h
    <2>7. HandledFirst(c)'
      <3>1. \A i \in 1..(h + 1) : i \in 1..h \/ i = h + 1
        BY <2>3
      <3> QED
        BY <2>1, <2>2, <2>3, <2>4, <2>6, <3>1 DEF HandledFirst
    <2> QED
      BY <2>1, <2>2, <2>4, <2>5, <2>7 DEF Framed
  <1>12. ASSUME RegisterHello(c) PROVE Framed(c)'
    <2>1. /\ sent' = sent /\ handled' = handled /\ buffer' = buffer /\ toServer' = toServer
          /\ client' = client
      BY <1>12 DEF RegisterHello, clients
    <2>2. client[c] # "new" /\ Serving(c)
      BY <1>12 DEF RegisterHello, Framed, Blank, Serving
    <2> QED
      BY <2>1, <2>2, FramedKept
  <1>13. ASSUME Leave(c) PROVE Framed(c)'
    <2>1. \/ sent'[c] = <<>> /\ handled'[c] = <<>>
          \/ sent'[c] = sent[c] /\ handled'[c] = handled[c]
      BY <1>13, ForgetOwn DEF Leave
    <2>2. client' = client /\ client[c] # "new" /\ thread'[c] = "done"
      BY <1>13 DEF Leave, Goto, Framed, Blank, Typed, ThreadTypes
    <2> QED
      BY <2>1, <2>2 DEF Framed, HandledFirst, Serving
  <1> QED
    BY <1>1, <1>2, <1>3, <1>4, <1>5, <1>6, <1>7, <1>8, <1>9, <1>10, <1>11, <1>12, <1>13
       DEF Client, Serve

LEMMA FrameStep == Typed /\ FrameInv /\ [Next]_vars => FrameInv'
  <1> SUFFICES ASSUME Typed, FrameInv, [Next]_vars, NEW d \in Conn PROVE Framed(d)'
    BY DEF FrameInv
  <1>0. Framed(d)
    BY DEF FrameInv
  <1>1. CASE UNCHANGED vars
    BY <1>0, <1>1 DEF vars, clients, wires, threads, control, history,
                Framed, HandledFirst, Blank, Serving
  <1>2. ASSUME NEW c \in Conn, Client(c) \/ Accept(c) \/ Serve(c) PROVE Framed(d)'
    <2>1. CASE c = d
      BY <1>0, <1>2, <2>1, FramedOwn
    <2>2. CASE c # d
      <3>1. Untouched(d) /\ stopping' = stopping
        BY <1>2, <2>2, StepIsLocal DEF Local
      <3> QED
        BY <1>0, <3>1 DEF Untouched, Framed, HandledFirst, Blank, Serving
    <2> QED
      BY <2>1, <2>2
  <1>3. CASE Stop \/ Joined \/ Open
    BY <1>0, <1>3 DEF Stop, Joined, Open, clients, wires, threads, control, history,
                Framed, HandledFirst, Blank, Serving
  <1>4. CASE Crash
    <2>1. /\ sent' = sent /\ handled' = handled /\ applied' = applied /\ toClient' = toClient
          /\ client' = client
          /\ thread'[d] = IF client[d] = "new" THEN "none" ELSE "done"
          /\ buffer'[d] = <<>> /\ toServer'[d] = <<>>
      BY <1>4 DEF Crash, clients, history
    <2>2. HandledFirst(d)'
      BY <1>0, <2>1 DEF Framed, HandledFirst
    <2>3. client'[d] = "new" => Blank(d)'
      BY <1>0, <2>1 DEF Framed, Blank
    <2>4. ASSUME Serving(d)' PROVE Carries(sent[d], Len(handled[d]), buffer[d] \o toServer[d])'
      <3>1. sent[d] = <<>> /\ handled[d] = <<>>
        BY <1>0, <2>1, <2>4 DEF Serving, Framed, Blank
      <3>2. Carries(<<>>, Len(<<>>), <<>>)
        BY CarriesNothing, NothingTyped
      <3>3. <<>> \o <<>> = <<>>
        BY NothingTyped, ConcatEmptySeq
      <3> QED
        BY <2>1, <3>1, <3>2, <3>3
    <2> QED
      BY <2>2, <2>3, <2>4 DEF Framed
  <1> QED
    BY <1>1, <1>2, <1>3, <1>4 DEF Next

LEMMA FrameInit == Init => FrameInv
  <1> SUFFICES ASSUME Init, NEW c \in Conn PROVE Framed(c)
    BY DEF FrameInv
  <1>1. /\ sent[c] = <<>> /\ handled[c] = <<>> /\ applied[c] = <<>> /\ toClient[c] = <<>>
        /\ buffer[c] = <<>> /\ toServer[c] = <<>> /\ thread[c] = "none"
    BY DEF Init
  <1>2. Carries(<<>>, Len(<<>>), <<>>)
    BY CarriesNothing, NothingTyped
  <1>3. <<>> \o <<>> = <<>>
    BY NothingTyped, ConcatEmptySeq
  <1> QED
    BY <1>1, <1>2, <1>3 DEF Framed, HandledFirst, Blank

\* What a connection's assembler holds and what is under way to it are, byte for
\* byte, the frames that were sent and not handled yet.
THEOREM FramesHold == Spec => []FrameInv
  BY TypesHold, FrameInit, FrameStep, PTL DEF Spec

\* For every cutting of the stream into pieces, and whatever the limits, the
\* frames a thread handles are the first ones its client sent, in order.
THEOREM HandledInOrder == Spec => []FramesHandledInOrder
  <1>1. Typed /\ FrameInv => FramesHandledInOrder
    <2> SUFFICES ASSUME Typed, FrameInv, NEW c \in Conn PROVE IsPrefix(handled[c], sent[c])
      BY DEF FramesHandledInOrder
    <2> DEFINE s == handled[c]
               t == sent[c]
    <2>1. s \in Seq(Frame) /\ t \in Seq(Frame) /\ Len(s) \in Nat /\ Len(t) \in Nat
      BY StreamTypes
    <2>2. Len(s) <= Len(t) /\ \A i \in 1..Len(s) : s[i] = t[i]
      BY DEF FrameInv, Framed, HandledFirst
    <2> HIDE DEF s, t
    <2>3. SubSeq(s, 1, Len(s)) = s
      BY <2>1, SubSeqFull
    <2>4. s = SubSeq(t, 1, Len(s))
      <3>1. /\ SubSeq(t, 1, Len(s)) \in Seq(Frame)
            /\ Len(SubSeq(t, 1, Len(s))) = Len(s)
            /\ \A i \in 1..Len(s) : SubSeq(t, 1, Len(s))[i] = t[i]
        BY <2>1, <2>2
      <3> QED
        BY <2>1, <2>2, <3>1, SeqEqual
    <2> QED
      BY <2>2, <2>3, <2>4 DEF IsPrefix, s, t
  <1> QED
    BY <1>1, TypesHold, FramesHold, PTL

-----------------------------------------------------------------------------
(* What a worker's call returns is what happened *)

LEMMA LastSent ==
    ASSUME NEW c \in Conn, Typed, Len(sent[c]) >= 1
    PROVE  /\ Len(sent[c]) \in 1..Len(sent[c])
           /\ Last(sent[c]) = sent[c][Len(sent[c])]
           /\ Last(sent[c]) \in Frame
  <1>1. sent[c] \in Seq(Frame) /\ Len(sent[c]) \in Nat
    BY StreamTypes
  <1> QED
    BY <1>1, ElementOfSeq DEF Last

\* A frame of a worker that was not handled was not applied either.
LEMMA UnhandledUnapplied ==
    ASSUME NEW c \in Conn, Typed, HandledFirst(c), Numbered(c), AppliedOnce(c),
           NEW m \in (Len(handled[c]) + 1)..Len(sent[c]), NEW k \in DOMAIN applied[c]
    PROVE  applied[c][k] # sent[c][m]
  <1>1. Len(handled[c]) \in Nat /\ Len(sent[c]) \in Nat
    BY StreamTypes
  <1>2. PICK i \in 1..Len(handled[c]) : applied[c][k] = handled[c][i]
    BY DEF AppliedOnce
  <1>3. handled[c][i] = sent[c][i] /\ i \in 1..Len(sent[c]) /\ m \in 1..Len(sent[c]) /\ i < m
    BY <1>1 DEF HandledFirst
  <1>4. SUFFICES ASSUME sent[c][i] = sent[c][m] PROVE FALSE
    BY <1>2, <1>3
  <1>5. i = 1 <=> m = 1
    BY <1>3, <1>4 DEF Numbered
  <1>6. i # 1 /\ m # 1
    BY <1>1, <1>3, <1>5
  <1>7. sent[c][i].request = i - 1 /\ sent[c][m].request = m - 1
    BY <1>3, <1>6 DEF Numbered
  <1>8. i - 1 = m - 1
    BY <1>4, <1>7
  <1> QED
    BY <1>1, <1>3, <1>8

\* A step that leaves what a worker knows as it is, or loses an answer.
LEMMA CalledKept ==
    ASSUME NEW c \in Conn, Called(c),
           client'[c] = client[c], outcome'[c] = outcome[c], sent'[c] = sent[c],
           handled'[c] = handled[c], applied'[c] = applied[c],
           toClient'[c] \in {toClient[c], <<>>},
           Serving(c)' => Serving(c), thread'[c] = "hello" => thread[c] = "hello"
    PROVE  Called(c)'
  <1>1. Numbered(c)' /\ AppliedOnce(c)'
    BY DEF Called, Numbered, AppliedOnce
  <1>2. Settled(c) => Settled(c)'
    BY DEF Settled
  <1>3. \A r : Truthful(c, r)' <=> Truthful(c, r)
    BY DEF Truthful, LastApplied
  <1>4. \A a : Result(c, a)' = Result(c, a)
    BY DEF Result
  <1>5. Handshake(c) => Handshake(c)'
    BY <1>2, <1>4 DEF Handshake
  <1>6. InCall(c) => InCall(c)'
    BY <1>2, <1>3, <1>4, NothingTyped DEF InCall
  <1>7. AtRest(c) => AtRest(c)'
    BY <1>2, <1>3 DEF AtRest
  <1> QED
    BY <1>1, <1>5, <1>6, <1>7 DEF Called

\* Once the client is gone only what was sent and applied matters.
LEMMA CalledGone ==
    ASSUME NEW c \in Conn, Called(c), client'[c] \in {"new", "gone"},
           \/ /\ sent'[c] = sent[c] /\ handled'[c] = handled[c] /\ applied'[c] = applied[c]
           \/ /\ sent'[c] = <<>> /\ handled'[c] = <<>> /\ applied'[c] = <<>>
    PROVE  Called(c)'
  <1>1. Numbered(c)' /\ AppliedOnce(c)'
    BY DEF Called, Numbered, AppliedOnce
  <1> QED
    BY <1>1 DEF Called

\* As long as a frame of a connected worker has to be handled, the worker
\* waits for the answer to that frame, and has none.
LEMMA Unanswered ==
    ASSUME NEW c \in Conn, Typed, Framed(c), Called(c), Serving(c), Connected(c),
           Len(handled[c]) < Len(sent[c])
    PROVE  /\ client[c] \in {"connecting", "waiting", "closing"}
           /\ toClient[c] = <<>>
           /\ Len(handled[c]) + 1 = Len(sent[c])
  <1>1. Len(handled[c]) \in Nat /\ Len(sent[c]) \in Nat
    BY StreamTypes
  <1>2. ~Settled(c)
    BY <1>1 DEF Settled
  <1>3. client[c] \in {"connecting", "ready", "waiting", "closing"}
    BY DEF Connected, Typed, ClientTypes
  <1>4. client[c] # "ready"
    BY <1>2 DEF Called, AtRest
  <1>5. CASE client[c] = "connecting"
    <2>1. Handshake(c)
      BY <1>5 DEF Called
    <2>2. Len(sent[c]) = 1 /\ toClient[c] = <<>>
      BY <1>2, <2>1 DEF Handshake
    <2> QED
      BY <1>1, <1>5, <2>2
  <1>6. CASE client[c] \in {"waiting", "closing"}
    BY <1>1, <1>2, <1>6 DEF Called, InCall
  <1> QED
    BY <1>3, <1>4, <1>5, <1>6

LEMMA DeliverOne ==
    ASSUME NEW c \in Conn, NEW a \in Answer, Typed, toClient[c] = <<>>,
           c \in scenario.workers, Connected(c), Deliver(c, <<a>>)
    PROVE  /\ toClient'[c] # <<>> /\ Len(toClient'[c]) = 1
           /\ Head(toClient'[c]) = a
  <1>1. toClient'[c] = <<>> \o <<a>>
    BY DeliverOwn
  <1>2. <<>> \o <<a>> = <<a>>
    BY ConcatEmptySeq
  <1> QED
    BY <1>1, <1>2

\* The thread gives up on the stream: an error about no frame.
LEMMA CalledGivesUp ==
    ASSUME NEW c \in Conn, c \in scenario.workers, Typed, Framed(c), Called(c), Serving(c),
           Len(handled[c]) < Len(sent[c]),
           ReplyToNothing(c), thread'[c] = "leaving",
           client' = client, outcome' = outcome, sent' = sent, handled' = handled,
           applied' = applied
    PROVE  Called(c)'
  <1>1. CASE ~Connected(c)
    BY <1>1, CalledGone DEF Connected
  <1>2. CASE Connected(c)
    <2>1. /\ client[c] \in {"connecting", "waiting", "closing"} /\ toClient[c] = <<>>
          /\ Len(handled[c]) + 1 = Len(sent[c])
      BY <1>2, Unanswered
    <2> DEFINE a == [message |-> "ErrorReport", request |-> 0]
    <2>2. a \in Answer
      BY DEF Answer
    <2>3. toClient'[c] # <<>> /\ Len(toClient'[c]) = 1 /\ Head(toClient'[c]) = a
      BY <1>2, <2>1, <2>2, DeliverOne DEF ReplyToNothing
    <2>4. Result(c, Head(toClient[c]))' = "error"
      BY <2>3 DEF Result
    <2>5. Settled(c)'
      BY DEF Settled, Serving
    <2>6. Len(handled[c]) \in Nat /\ Len(sent[c]) \in Nat
      BY StreamTypes
    <2>7. ~LastApplied(c)'
      <3>1. /\ Last(sent[c]) = sent[c][Len(sent[c])]
            /\ Len(sent[c]) \in (Len(handled[c]) + 1)..Len(sent[c])
        BY <2>1, <2>6, LastSent
      <3>2. \A k \in DOMAIN applied[c] : applied[c][k] # sent[c][Len(sent[c])]
        BY <3>1, UnhandledUnapplied DEF Framed, Called
      <3> QED
        BY <3>1, <3>2 DEF LastApplied
    <2>8. Numbered(c)' /\ AppliedOnce(c)'
      BY DEF Called, Numbered, AppliedOnce
    <2>9. CASE client[c] = "connecting"
      BY <2>3, <2>4, <2>5, <2>8, <2>9 DEF Called, Handshake
    <2>10. CASE client[c] \in {"waiting", "closing"}
      BY <2>3, <2>4, <2>5, <2>6, <2>7, <2>8, <2>10 DEF Called, InCall, Serving, Truthful
    <2> QED
      BY <2>1, <2>9, <2>10
  <1> QED
    BY <1>1, <1>2

\* What handle_frame does with a frame, as its client sees it.
LEMMA FrameOutcome ==
    ASSUME NEW c \in Conn, Typed, HandleFrame(c)
    PROVE  LET frame == Popped(buffer[c])
           IN \/ /\ frame.message = "Hello" /\ applied' = applied /\ toClient' = toClient
              \/ /\ thread'[c] # "hello" /\ applied' = applied
                 /\ \/ frame.message # "Mutation" /\ toClient' = toClient
                    \/ frame.message # "Mutation" /\ Reply(c, "Ack", frame)
                    \/ Reply(c, "ErrorReport", frame)
              \/ /\ thread'[c] # "hello" /\ applied'[c] = Append(applied[c], frame)
                 /\ toClient' = toClient \/ Reply(c, "Ack", frame)
  <1> DEFINE frame == Popped(buffer[c])
  <1>1. \/ HandleHello(c, frame) \/ RefuseFrame(c, frame) \/ HandleMutation(c, frame)
        \/ HandleQuery(c, frame) \/ HandleHeartbeat(c, frame) \/ HandleShutdown(c, frame)
    BY DEF HandleFrame
  <1>2. thread[c] = "handling"
    BY DEF HandleFrame
  <1> HIDE DEF frame
  <1>3. CASE HandleHello(c, frame)
    BY <1>3 DEF HandleHello, frame
  <1>4. CASE RefuseFrame(c, frame)
    BY <1>4 DEF RefuseFrame, Goto, NextTurn, Typed, ThreadTypes, frame
  <1>5. CASE HandleMutation(c, frame)
    BY <1>2, <1>5 DEF HandleMutation, Acknowledge, Typed, HistoryTypes, frame
  <1>6. CASE HandleQuery(c, frame)
    BY <1>2, <1>6 DEF HandleQuery, Acknowledge, frame
  <1>7. CASE HandleHeartbeat(c, frame)
    BY <1>2, <1>7 DEF HandleHeartbeat, frame
  <1>8. CASE HandleShutdown(c, frame)
    BY <1>8 DEF HandleShutdown, Goto, Typed, ThreadTypes, frame
  <1> QED
    BY <1>1, <1>3, <1>4, <1>5, <1>6, <1>7, <1>8

\* A frame is applied at most once, and an answer about it is true.
LEMMA CalledHandles ==
    ASSUME NEW c \in Conn, c \in scenario.workers, Typed, Framed(c), Called(c), HandleFrame(c)
    PROVE  Called(c)'
  <1> DEFINE frame == Popped(buffer[c])
             h == Len(handled[c])
             L == Len(sent[c])
  <1>1. h < L /\ frame = sent[c][h + 1] /\ frame \in Frame
    BY PopIsNext
  <1>2. /\ handled'[c] = Append(handled[c], frame)
        /\ sent' = sent /\ client' = client /\ outcome' = outcome
        /\ scenario' = scenario /\ thread[c] = "handling"
    BY DEF HandleFrame, clients, Typed, HistoryTypes
  <1>3. /\ h \in Nat /\ L \in Nat /\ handled[c] \in Seq(Frame) /\ applied[c] \in Seq(Frame)
    BY StreamTypes
  <1>4. /\ Len(handled'[c]) = h + 1
        /\ \A i \in 1..h : handled'[c][i] = handled[c][i]
        /\ handled'[c][h + 1] = frame
    BY <1>1, <1>2, <1>3, AppendProperties
  <1>5. \A k \in DOMAIN applied[c] : applied[c][k] # frame
    <2>1. h + 1 \in (h + 1)..L
      BY <1>1, <1>3
    <2> QED
      BY <1>1, <2>1, UnhandledUnapplied DEF Framed, Called
  <1>6. \/ /\ frame.message = "Hello" /\ applied' = applied /\ toClient' = toClient
        \/ /\ thread'[c] # "hello" /\ applied' = applied
           /\ \/ frame.message # "Mutation" /\ toClient' = toClient
              \/ frame.message # "Mutation" /\ Reply(c, "Ack", frame)
              \/ Reply(c, "ErrorReport", frame)
        \/ /\ thread'[c] # "hello" /\ applied'[c] = Append(applied[c], frame)
           /\ toClient' = toClient \/ Reply(c, "Ack", frame)
    BY FrameOutcome
  <1> HIDE DEF frame
  <1>7. Numbered(c)'
    BY <1>2 DEF Called, Numbered
  <1>8. AppliedOnce(c)'
    <2>1. CASE applied'[c] = applied[c]
      <3>1. \A i \in 1..h : i \in 1..(h + 1)
        BY <1>3
      <3> QED
        BY <1>4, <2>1, <3>1 DEF Called, AppliedOnce
    <2>2. CASE applied'[c] = Append(applied[c], frame)
      <3> DEFINE ap == applied[c]
                 aq == applied'[c]
                 n == Len(applied[c])
      <3>1. /\ n \in Nat /\ DOMAIN ap = 1..n
            /\ Len(aq) = n + 1 /\ DOMAIN aq = 1..(n + 1)
            /\ \A i \in 1..n : aq[i] = ap[i]
            /\ aq[n + 1] = frame
        BY <1>1, <1>3, <2>2, AppendProperties, LenProperties
      <3>2. /\ \A k \in DOMAIN ap : \E i \in 1..h : ap[k] = handled[c][i]
            /\ \A j, k \in DOMAIN ap : ap[j] = ap[k] => j = k
            /\ \A k \in DOMAIN ap : ap[k] # frame
        BY <1>5 DEF Called, AppliedOnce
      <3> HIDE DEF ap, aq, n
      <3>3. \A k \in 1..(n + 1) : k \in 1..n \/ k = n + 1
        BY <3>1
      <3>4. ASSUME NEW k \in DOMAIN aq PROVE \E i \in 1..(h + 1) : aq[k] = handled'[c][i]
        <4>1. CASE k \in 1..n
          <5>1. PICK i \in 1..h : ap[k] = handled[c][i]
            BY <3>1, <3>2, <4>1
          <5>2. i \in 1..(h + 1)
            BY <1>3
          <5> QED
            BY <1>4, <3>1, <4>1, <5>1, <5>2
        <4>2. CASE k = n + 1
          <5>1. h + 1 \in 1..(h + 1)
            BY <1>3
          <5> QED
            BY <1>4, <3>1, <4>2, <5>1
        <4> QED
          BY <3>1, <3>3, <4>1, <4>2
      <3>5. \A j, k \in DOMAIN aq : aq[j] = aq[k] => j = k
        BY <3>1, <3>2, <3>3
      <3> QED
        BY <1>4, <3>4, <3>5 DEF AppliedOnce, aq
    <2> QED
      BY <1>6, <2>1, <2>2
  <1>9. CASE ~Connected(c)
    BY <1>2, <1>7, <1>8, <1>9 DEF Connected, Called
  <1>10. CASE Connected(c)
    <2>1. /\ client[c] \in {"connecting", "waiting", "closing"}
          /\ toClient[c] = <<>> /\ h + 1 = L
      BY <1>1, <1>2, <1>10, Unanswered DEF Serving
    <2>2. Last(sent[c]) = frame
      BY <1>1, <1>3, <2>1, LastSent
    <2>3. Settled(c)'
      BY <1>2, <1>4, <2>1 DEF Settled
    <2>4. frame.message = "Hello" <=> L = 1
      <3>1. L \in 1..L /\ frame = sent[c][L]
        <4> HIDE DEF h, L
        <4> QED
          BY <1>1, <1>3, <2>1
      <3>2. \A i \in 1..L : sent[c][i].message = "Hello" <=> i = 1
        BY DEF Called, Numbered
      <3> HIDE DEF L
      <3> QED
        BY <3>1, <3>2
    <2>5. ASSUME toClient' # toClient
          PROVE  \E m \in {"Ack", "ErrorReport"} :
                    /\ toClient'[c] # <<>> /\ Len(toClient'[c]) = 1
                    /\ Head(toClient'[c]) = [message |-> m, request |-> frame.request]
                    /\ m = "Ack" \/ applied' = applied
                    /\ m = "Ack" => frame.message # "Mutation"
                                    \/ applied'[c] = Append(applied[c], frame)
      <3>1. PICK m \in {"Ack", "ErrorReport"} :
               /\ Reply(c, m, frame)
               /\ m = "Ack" \/ applied' = applied
               /\ m = "Ack" => frame.message # "Mutation"
                               \/ applied'[c] = Append(applied[c], frame)
        BY <1>6, <2>5
      <3>2. Says(m, frame) \in Answer /\ Says(m, frame) = [message |-> m, request |-> frame.request]
        BY <1>1 DEF Says, Answer, Frame
      <3>3. /\ toClient'[c] # <<>> /\ Len(toClient'[c]) = 1
            /\ Head(toClient'[c]) = Says(m, frame)
        BY <1>10, <2>1, <3>1, <3>2, DeliverOne DEF Reply
      <3> QED
        BY <3>1, <3>2, <3>3
    <2>6. toClient'[c] # <<>> => toClient' # toClient /\ Len(toClient'[c]) = 1
      BY <2>1, <2>5
    <2>7. CASE client[c] = "connecting"
      <3>1. L = 1
        BY <2>7 DEF Called, Handshake
      <3>2. toClient'[c] # <<>> => thread'[c] # "hello"
        BY <1>6, <2>1
      <3>3. Handshake(c)'
        BY <1>2, <2>3, <2>6, <3>1, <3>2 DEF Handshake
      <3> QED
        BY <1>2, <1>7, <1>8, <2>7, <3>3 DEF Called
    <2>8. CASE client[c] \in {"waiting", "closing"}
      <3>1. L >= 2
        BY <2>8 DEF Called, InCall
      <3>2. thread'[c] # "hello"
        <4>1. L # 1
          <5> HIDE DEF L
          <5> QED
            BY <1>3, <3>1
        <4>2. frame.message # "Hello"
          BY <2>4, <4>1
        <4> QED
          BY <1>6, <4>2
      <3>3. ASSUME toClient'[c] # <<>> PROVE Truthful(c, Result(c, Head(toClient[c])))'
        <4>1. PICK m \in {"Ack", "ErrorReport"} :
                 /\ Head(toClient'[c]) = [message |-> m, request |-> frame.request]
                 /\ m = "Ack" \/ applied' = applied
                 /\ m = "Ack" => frame.message # "Mutation"
                                 \/ applied'[c] = Append(applied[c], frame)
          BY <2>5, <2>6, <3>3
        <4>2. CASE m = "ErrorReport"
          <5>1. Result(c, Head(toClient[c]))' = "error"
            BY <4>1, <4>2 DEF Result
          <5>2. ~LastApplied(c)'
            BY <1>2, <1>5, <2>2, <4>1, <4>2 DEF LastApplied
          <5> QED
            BY <5>1, <5>2 DEF Truthful
        <4>3. CASE m = "Ack"
          <5>1. Result(c, Head(toClient[c]))' = "ok"
            BY <1>2, <2>2, <4>1, <4>3 DEF Result
          <5>2. CASE frame.message # "Mutation"
            BY <1>2, <2>2, <5>2 DEF Truthful
          <5>3. CASE applied'[c] = Append(applied[c], frame)
            <6>1. /\ Len(applied[c]) + 1 \in DOMAIN applied'[c]
                  /\ applied'[c][Len(applied[c]) + 1] = frame
              BY <1>1, <1>3, <5>3, AppendProperties, LenProperties
            <6>2. LastApplied(c)'
              BY <1>2, <2>2, <6>1 DEF LastApplied
            <6> QED
              BY <5>1, <6>2 DEF Truthful
          <5> QED
            BY <4>1, <4>3, <5>2, <5>3
        <4> QED
          BY <4>2, <4>3
      <3>4. Len(toClient'[c]) <= 1
        <4>1. CASE toClient'[c] = <<>>
          BY <4>1
        <4>2. CASE toClient'[c] # <<>>
          <5>1. Len(toClient'[c]) = 1
            BY <2>6, <4>2
          <5> QED
            BY <5>1
        <4> QED
          BY <4>1, <4>2
      <3>5. InCall(c)'
        BY <1>2, <1>3, <1>4, <2>1, <2>3, <3>1, <3>2, <3>3, <3>4 DEF InCall
      <3> QED
        BY <1>2, <1>7, <1>8, <2>8, <3>5 DEF Called
    <2> QED
      BY <2>1, <2>7, <2>8
  <1> QED
    BY <1>9, <1>10

\* A worker hears once about its Hello.
LEMMA CalledRegisters ==
    ASSUME NEW c \in Conn, c \in scenario.workers, Typed, Framed(c), Called(c),
           RegisterHello(c)
    PROVE  Called(c)'
  <1> DEFINE frame == Last(handled[c])
  <1>1. /\ client' = client /\ sent' = sent /\ handled' = handled /\ applied' = applied
        /\ outcome' = outcome /\ scenario' = scenario /\ thread[c] = "hello"
    BY DEF RegisterHello, clients
  <1>2. /\ thread'[c] # "hello"
        /\ \/ Deliver(c, <<Says("HelloAck", frame)>>)
           \/ Deliver(c, <<Says("HelloRefused", frame), Says("ErrorReport", frame)>>)
    BY DEF RegisterHello, Goto, NextTurn, Reply, Typed, ThreadTypes
  <1>3. frame \in Frame
    BY RegisterHelloStep
  <1> HIDE DEF frame
  <1>4. CASE ~Connected(c)
    BY <1>1, <1>4, CalledGone DEF Connected
  <1>5. CASE Connected(c)
    <2>1. client[c] = "connecting"
      <3>1. client[c] \in {"connecting", "ready", "waiting", "closing"}
        BY <1>5 DEF Connected, Typed, ClientTypes
      <3> QED
        BY <1>1, <3>1 DEF Called, AtRest, InCall
    <2>2. Len(sent[c]) = 1 /\ toClient[c] = <<>>
      BY <1>1, <2>1 DEF Called, Handshake
    <2>3. Len(handled[c]) = 1
      <3>1. handled[c] \in Seq(Frame) /\ handled[c] # <<>> /\ Len(handled[c]) <= 1
        BY <1>1, <2>2, StreamTypes DEF Framed, HandledFirst, Typed, HelloPending
      <3>2. Len(handled[c]) \in Nat \ {0}
        BY <3>1, EmptySeq
      <3>3. \A n \in Nat \ {0} : n <= 1 => n = 1
        OBVIOUS
      <3> QED
        BY <3>1, <3>2, <3>3, Zenon
    <2>4. Settled(c)'
      BY <1>1, <2>2, <2>3 DEF Settled
    <2>5. Result(c, Head(toClient[c]))' = "ok" => Len(toClient'[c]) = 1
      <3>1. CASE Deliver(c, <<Says("HelloAck", frame)>>)
        <4>1. Says("HelloAck", frame) \in Answer
          BY <1>3 DEF Says, Answer, Frame
        <4> QED
          BY <1>5, <2>2, <3>1, <4>1, DeliverOne
      <3>2. CASE Deliver(c, <<Says("HelloRefused", frame), Says("ErrorReport", frame)>>)
        <4> DEFINE as == <<Says("HelloRefused", frame), Says("ErrorReport", frame)>>
        <4>1. as \in Seq(Answer)
          BY <1>3 DEF Says, Answer, Frame
        <4>2. Head(as) = Says("HelloRefused", frame)
          OBVIOUS
        <4> HIDE DEF as
        <4>3. toClient'[c] = <<>> \o as
          BY <1>5, <2>2, <3>2, DeliverOwn DEF as
        <4>4. <<>> \o as = as
          BY <4>1, ConcatEmptySeq
        <4>5. Head(toClient'[c]).message = "HelloRefused"
          <5>1. toClient'[c] = as
            BY <4>3, <4>4, Zenon
          <5>2. Says("HelloRefused", frame).message = "HelloRefused"
            BY DEF Says
          <5> QED
            BY <4>2, <5>1, <5>2
        <4> QED
          BY <4>5 DEF Result
      <3> QED
        BY <1>2, <3>1, <3>2
    <2>6. Handshake(c)'
      BY <1>1, <1>2, <2>2, <2>4, <2>5 DEF Handshake
    <2>7. Numbered(c)' /\ AppliedOnce(c)'
      BY <1>1 DEF Called, Numbered, AppliedOnce
    <2> QED
      BY <1>1, <2>1, <2>6, <2>7 DEF Called
  <1> QED
    BY <1>4, <1>5

LEMMA CalledOwn ==
    ASSUME NEW c \in Conn, c \in scenario.workers, Typed, Framed(c), Called(c),
           Client(c) \/ Accept(c) \/ Serve(c)
    PROVE  Called(c)'
  <1>1. ASSUME Connect(c) PROVE Called(c)'
    <2>1. Blank(c)
      BY <1>1 DEF Connect, Framed
    <2>2. /\ client'[c] = "connecting" /\ applied' = applied /\ toClient' = toClient
          /\ sent'[c] = Append(<<>>, WorkerFrame(c, "Hello"))
      BY <1>1, <2>1 DEF Connect, Send, history, Blank, Typed, ClientTypes
    <2>3. /\ Append(<<>>, WorkerFrame(c, "Hello")) = <<WorkerFrame(c, "Hello")>>
          /\ WorkerFrame(c, "Hello").request = 1 /\ WorkerFrame(c, "Hello").message = "Hello"
      BY <2>1 DEF WorkerFrame, NextRequest, Blank
    <2>4. Len(sent'[c]) = 1 /\ sent'[c][1] = WorkerFrame(c, "Hello")
      BY <2>2, <2>3
    <2>5. Numbered(c)'
      BY <2>3, <2>4 DEF Numbered
    <2>6. AppliedOnce(c)'
      BY <2>1, <2>2 DEF AppliedOnce, Blank
    <2>7. Handshake(c)'
      BY <2>1, <2>2, <2>4 DEF Handshake, Blank
    <2> QED
      BY <2>2, <2>5, <2>6, <2>7 DEF Called
  <1>2. ~ConnectRaw(c) /\ \A script \in scenario.scripts : ~SendRaw(c, script)
    BY DEF ConnectRaw, SendRaw
  <1>3. ASSUME NEW message \in scenario.messages, Request(c, message) PROVE Called(c)'
    <2> DEFINE frame == WorkerFrame(c, message)
               L == Len(sent[c])
    <2>1. /\ sent[c] \in Seq(Frame) /\ L \in Nat /\ L >= 1 /\ sent[c] # <<>>
          /\ AtRest(c)
      BY <1>3, StreamTypes DEF Request, Called, AtRest
    <2>2. message \in Message /\ message # "Hello" /\ frame \in Frame
      BY WorkerFrameType DEF Typed, ClientTypes, ScenarioType
    <2>3. frame.message = message /\ frame.request = L
      BY <2>1 DEF WorkerFrame, NextRequest
    <2>4. /\ client'[c] \in {"waiting", "closing"} /\ applied' = applied /\ handled' = handled
          /\ toClient' = toClient /\ sent'[c] = Append(sent[c], frame)
          /\ thread' = thread /\ stopping' = stopping
      BY <1>3 DEF Request, Send, threads, control, history, Typed, ClientTypes
    <2> HIDE DEF frame
    <2>5. /\ Len(sent'[c]) = L + 1 /\ \A i \in 1..L : sent'[c][i] = sent[c][i]
          /\ sent'[c][L + 1] = frame
      BY <2>1, <2>2, <2>4, AppendProperties
    <2>6. Numbered(c)'
      <3> SUFFICES ASSUME NEW i \in 1..(L + 1)
                   PROVE  /\ sent'[c][i].request = IF i = 1 THEN 1 ELSE i - 1
                          /\ sent'[c][i].message = "Hello" <=> i = 1
        BY <2>5 DEF Numbered
      <3>1. CASE i \in 1..L
        BY <2>5, <3>1 DEF Called, Numbered
      <3>2. CASE i = L + 1
        <4> HIDE DEF L
        <4> QED
          BY <2>1, <2>2, <2>3, <2>5, <3>2
      <3> QED
        BY <2>1, <3>1, <3>2
    <2>7. AppliedOnce(c)'
      BY <2>4 DEF Called, AppliedOnce
    <2>8. InCall(c)'
      <3>1. Serving(c)' => Len(handled[c]) >= L + 1 - 1
        BY <2>1, <2>4 DEF AtRest, Settled, Serving
      <3>2. toClient'[c] = <<>> /\ thread'[c] # "hello" /\ Len(<<>>) = 0
        BY <2>1, <2>4 DEF AtRest
      <3>3. L + 1 >= 2
        BY <2>1
      <3> QED
        BY <2>4, <2>5, <3>1, <3>2, <3>3 DEF InCall
    <2> QED
      BY <2>4, <2>6, <2>7, <2>8 DEF Called
  <1>4. ASSUME Vanish(c) PROVE Called(c)'
    <2>1. client'[c] = "gone"
      BY <1>4 DEF Vanish, Typed, ClientTypes
    <2>2. \/ /\ sent'[c] = sent[c] /\ handled'[c] = handled[c] /\ applied'[c] = applied[c]
          \/ /\ sent'[c] = <<>> /\ handled'[c] = <<>> /\ applied'[c] = <<>>
      BY <1>4, ForgetOwn DEF Vanish
    <2> QED
      BY <2>1, <2>2, CalledGone
  <1>5. ASSUME Disconnected(c) PROVE Called(c)'
    <2>1. client'[c] = "gone"
      BY <1>5 DEF Disconnected, Typed, ClientTypes
    <2>2. sent'[c] = <<>> /\ handled'[c] = <<>> /\ applied'[c] = <<>>
      BY <1>5, ForgetOwn DEF Disconnected
    <2> QED
      BY <2>1, <2>2, CalledGone
  <1>6. ASSUME Receive(c) PROVE Called(c)'
    <2> DEFINE result == Result(c, Head(toClient[c]))
               stays == client[c] = "waiting" \/ (client[c] = "connecting" /\ result = "ok")
    <2>1. /\ Waiting(c) /\ toClient[c] # <<>> /\ toClient[c] \in Seq(Answer)
          /\ client'[c] = IF stays THEN "ready" ELSE "gone"
          /\ outcome'[c] = IF stays THEN result ELSE "none"
          /\ toClient'[c] = Tail(toClient[c])
          /\ sent' = sent /\ handled' = handled /\ applied' = applied
          /\ thread' = thread /\ stopping' = stopping
      BY <1>6, StreamTypes
         DEF Receive, Returns, threads, control, history, Typed, ClientTypes, WireTypes,
             HistoryTypes
    <2>2. CASE ~stays
      BY <2>1, <2>2, CalledGone
    <2>3. CASE stays
      <3>1. Len(toClient[c]) = 1 /\ Settled(c) /\ thread[c] # "hello" /\ Len(sent[c]) >= 1
        <4>1. Len(toClient[c]) \in Nat \ {0} /\ Len(sent[c]) \in Nat
          BY <2>1, StreamTypes
        <4>2. CASE client[c] = "waiting"
          <5>1. InCall(c)
            BY <4>2 DEF Called
          <5>2. Len(toClient[c]) <= 1 /\ Len(sent[c]) >= 2 /\ thread[c] # "hello" /\ Settled(c)
            BY <2>1, <5>1 DEF InCall
          <5>3. /\ \A n \in Nat \ {0} : n <= 1 => n = 1
                /\ \A n \in Nat : n >= 2 => n >= 1
            OBVIOUS
          <5> QED
            BY <4>1, <5>2, <5>3, Zenon
        <4>3. CASE client[c] = "connecting" /\ result = "ok"
          BY <2>1, <4>1, <4>3 DEF Called, Handshake
        <4> QED
          BY <2>3, <4>2, <4>3
      <3>2. toClient'[c] = <<>>
        <4>1. Tail(toClient[c]) \in Seq(Answer) /\ Len(Tail(toClient[c])) = Len(toClient[c]) - 1
          BY <2>1, HeadTailProperties
        <4>2. Len(Tail(toClient[c])) = 0
          BY <3>1, <4>1
        <4> QED
          BY <2>1, <4>1, <4>2, EmptySeq
      <3>3. Truthful(c, result)
        <4>1. CASE client[c] = "waiting"
          BY <2>1, <4>1 DEF Called, InCall
        <4>2. CASE client[c] = "connecting"
          <5>1. Len(sent[c]) = 1
            BY <4>2 DEF Called, Handshake
          <5>2. Last(sent[c]).message = "Hello"
            BY <5>1, LastSent DEF Called, Numbered
          <5> QED
            BY <5>2 DEF Truthful
        <4> QED
          BY <2>3, <4>1, <4>2
      <3> HIDE DEF result
      <3>4. AtRest(c)'
        BY <2>1, <2>3, <3>1, <3>2, <3>3 DEF AtRest, Settled, Serving, Truthful, LastApplied
      <3>5. Numbered(c)' /\ AppliedOnce(c)'
        BY <2>1 DEF Called, Numbered, AppliedOnce
      <3> QED
        BY <2>1, <2>3, <3>4, <3>5 DEF Called
    <2> QED
      BY <2>2, <2>3
  <1>7. ASSUME Accept(c) \/ Spawn(c) \/ ServerLosesClient(c) \/ NeedsMore(c) PROVE Called(c)'
    <2>1. /\ client' = client /\ outcome' = outcome /\ sent' = sent
          /\ handled' = handled /\ applied' = applied /\ toClient' = toClient
      BY <1>7 DEF Accept, Spawn, ServerLosesClient, NeedsMore, clients, wires, history
    <2>2. Serving(c) /\ thread'[c] # "hello"
      BY <1>7 DEF Accept, Spawn, ServerLosesClient, NeedsMore, Goto, NextTurn, Serving,
                  Typed, ThreadTypes
    <2> QED
      BY <2>1, <2>2, CalledKept
  <1>8. ASSUME ServerReceive(c) PROVE Called(c)'
    <2>1. /\ client' = client /\ outcome' = outcome /\ sent' = sent
          /\ handled' = handled /\ applied' = applied /\ Serving(c)
          /\ 1..Len(toServer[c]) # {}
      BY <1>8 DEF ServerReceive, clients, history, Serving
    <2>2. \/ thread'[c] = "handling" /\ toClient' = toClient
          \/ thread'[c] = "leaving" /\ ReplyToNothing(c)
      BY <1>8 DEF ServerReceive, Goto, Typed, ThreadTypes
    <2>3. CASE thread'[c] = "handling" /\ toClient' = toClient
      BY <2>1, <2>3, CalledKept
    <2>4. CASE thread'[c] = "leaving" /\ ReplyToNothing(c)
      <3>1. toServer[c] # <<>>
        BY <2>1
      <3>2. Len(handled[c]) < Len(sent[c])
        BY <2>1, <3>1, UnitsPending
      <3> QED
        BY <2>1, <2>4, <3>2, CalledGivesUp
    <2> QED
      BY <2>2, <2>3, <2>4
  <1>9. ASSUME Unframed(c) PROVE Called(c)'
    <2>1. /\ client' = client /\ outcome' = outcome /\ sent' = sent
          /\ handled' = handled /\ applied' = applied /\ Serving(c)
          /\ thread'[c] = "leaving" /\ ReplyToNothing(c)
      BY <1>9 DEF Unframed, Goto, clients, history, Serving, Typed, ThreadTypes
    <2>2. buffer[c] # <<>>
      BY <1>9, PopEmpty DEF Unframed
    <2>3. Len(handled[c]) < Len(sent[c])
      BY <2>1, <2>2, UnitsPending
    <2> QED
      BY <2>1, <2>3, CalledGivesUp
  <1>10. ASSUME Leave(c) PROVE Called(c)'
    <2>1. /\ client' = client /\ outcome' = outcome /\ thread'[c] = "done"
          /\ toClient'[c] \in {toClient[c], <<>>}
          /\ Forget(c, client[c] = "gone")
      BY <1>10 DEF Leave, Goto, Typed, ThreadTypes, WireTypes
    <2>2. CASE client[c] = "gone"
      <3>1. sent'[c] = <<>> /\ handled'[c] = <<>> /\ applied'[c] = <<>>
        BY <2>1, <2>2, ForgetOwn
      <3> QED
        BY <2>1, <2>2, <3>1, CalledGone
    <2>3. CASE client[c] # "gone"
      <3>1. sent'[c] = sent[c] /\ handled'[c] = handled[c] /\ applied'[c] = applied[c]
        BY <2>1, <2>3, ForgetOwn
      <3> QED
        BY <2>1, <3>1, CalledKept DEF Serving
    <2> QED
      BY <2>2, <2>3
  <1> QED
    BY <1>1, <1>2, <1>3, <1>4, <1>5, <1>6, <1>7, <1>8, <1>9, <1>10,
       CalledHandles, CalledRegisters DEF Client, Serve

\* The scenario is fixed.
LEMMA ScenarioStep == Typed /\ [Next]_vars => scenario' = scenario
  <1> SUFFICES ASSUME Typed, [Next]_vars PROVE scenario' = scenario
    OBVIOUS
  <1>1. ASSUME NEW c \in Conn, Client(c) \/ Accept(c) \/ Serve(c)
        PROVE  scenario' = scenario
    BY <1>1, StepIsLocal DEF Local
  <1>2. ASSUME Stop \/ Joined \/ Crash \/ Open \/ UNCHANGED vars
        PROVE  scenario' = scenario
    BY <1>2 DEF Stop, Joined, Crash, Open, vars, clients
  <1> QED
    BY <1>1, <1>2 DEF Next

LEMMA CallStep == Typed /\ FrameInv /\ CallInv /\ [Next]_vars => CallInv'
  <1> SUFFICES ASSUME Typed, FrameInv, CallInv, [Next]_vars,
                      NEW d \in scenario.workers
               PROVE  Called(d)'
    BY ScenarioStep DEF CallInv
  <1>0. d \in Conn /\ Framed(d) /\ Called(d)
    BY DEF FrameInv, CallInv, Typed, ClientTypes, ScenarioType
  <1>1. CASE UNCHANGED vars \/ Stop \/ Joined \/ Open
    <2>1. /\ client' = client /\ outcome' = outcome /\ sent' = sent
          /\ handled' = handled /\ applied' = applied /\ toClient' = toClient
          /\ thread' = thread /\ (stopping => stopping')
      BY <1>1 DEF vars, Stop, Joined, Open, clients, wires, threads, control, history
    <2> QED
      BY <1>0, <2>1, CalledKept DEF Serving
  <1>2. ASSUME NEW c \in Conn, Client(c) \/ Accept(c) \/ Serve(c) PROVE Called(d)'
    <2>1. CASE c = d
      BY <1>0, <1>2, <2>1, CalledOwn
    <2>2. CASE c # d
      <3>1. Untouched(d) /\ stopping' = stopping
        BY <1>0, <1>2, <2>2, StepIsLocal DEF Local
      <3> QED
        BY <1>0, <3>1, CalledKept DEF Untouched, Serving
    <2> QED
      BY <2>1, <2>2
  <1>3. CASE Crash
    <2>1. /\ client' = client /\ outcome' = outcome /\ sent' = sent
          /\ handled' = handled /\ applied' = applied /\ toClient' = toClient
          /\ thread'[d] = IF client[d] = "new" THEN "none" ELSE "done"
      BY <1>0, <1>3 DEF Crash, clients, history
    <2>2. CASE client[d] = "new"
      BY <1>0, <2>1, <2>2, CalledGone
    <2>3. CASE client[d] # "new"
      BY <1>0, <2>1, <2>3, CalledKept DEF Serving
    <2> QED
      BY <2>2, <2>3
  <1> QED
    BY <1>1, <1>2, <1>3 DEF Next

LEMMA CallInit == Init => CallInv
  <1> SUFFICES ASSUME Init, NEW c \in scenario.workers PROVE Called(c)
    BY DEF CallInv
  <1>1. c \in Conn
    BY SessionConstants DEF Init, ScenarioType
  <1>2. /\ sent[c] = <<>> /\ handled[c] = <<>> /\ applied[c] = <<>>
        /\ client[c] = "new"
    BY <1>1 DEF Init
  <1> QED
    BY <1>2 DEF Called, Numbered, AppliedOnce

\* Every request of a worker is in one of the stages between the call of
\* round_trip and its return, with the answer that belongs to it.
THEOREM CallsHold == Spec => []CallInv
  BY TypesHold, FramesHold, CallInit, CallStep, PTL DEF Spec

\* A worker that was told that its mutation succeeded had it applied once, and
\* one that was told of an error did not, whatever is lost, cut short or
\* refused on the way, and whatever the other connections do.
THEOREM CallsReportTheTruth == Spec => []OutcomesAreTrue
  <1>1. Typed /\ CallInv => OutcomesAreTrue
    <2> SUFFICES ASSUME Typed, CallInv, NEW c \in scenario.workers,
                        client[c] = "ready", Last(sent[c]).message = "Mutation"
                 PROVE  Cardinality({k \in DOMAIN applied[c] : applied[c][k] = Last(sent[c])})
                           = IF outcome[c] = "ok" THEN 1 ELSE 0
      BY DEF OutcomesAreTrue
    <2> DEFINE K == {k \in DOMAIN applied[c] : applied[c][k] = Last(sent[c])}
    <2>1. outcome[c] = "ok" <=> LastApplied(c)
      BY DEF CallInv, Called, AtRest, Truthful
    <2>2. CASE LastApplied(c)
      <3>1. PICK k \in DOMAIN applied[c] : applied[c][k] = Last(sent[c])
        BY <2>2 DEF LastApplied
      <3>2. K = {k}
        BY <3>1 DEF CallInv, Called, AppliedOnce
      <3>3. Cardinality({k}) = 1
        BY FS_Singleton
      <3> QED
        BY <2>1, <2>2, <3>2, <3>3
    <2>3. CASE ~LastApplied(c)
      <3>1. K = {}
        BY <2>3 DEF LastApplied
      <3>2. Cardinality({}) = 0
        BY FS_EmptySet
      <3> QED
        BY <2>1, <2>3, <3>1, <3>2
    <2> QED
      BY <2>2, <2>3
  <1> QED
    BY <1>1, TypesHold, CallsHold, PTL

-----------------------------------------------------------------------------
(* What module AuthorityProofs says of the registry *)

Proofs == INSTANCE AuthorityProofs
    WITH Boot <- Conn, Session <- 1..MaxHellos,
         Attempt <- {}, Payload <- {"empty"}, MaxAttempts <- 1,
         AllowInitialize <- TRUE, StoreMayCorrupt <- FALSE,
         MaxRegistrations <- MaxHellos

Backed ==
    /\ Registry!TypeOK
    /\ Registry!StoreCoversAnswers
    /\ Registry!PreviousBootsStayFenced

LEMMA AuthorityAssumptions ==
    /\ Proofs!EmptyDigest \in {"empty"}
    /\ Proofs!IsFiniteSet(Conn)
    /\ MaxPublishers \in Nat \ {0} /\ MaxSessions \in Nat \ {0}
    /\ MaxFencedBoots \in Nat \ {0} /\ 1 \in Nat \ {0}
    /\ MaxEpoch \in Nat /\ MaxHellos \in Nat
    /\ Grant \in [Publisher -> SUBSET Scope]
    /\ TRUE \in BOOLEAN /\ FALSE \in BOOLEAN /\ DiskMayFail \in BOOLEAN
  BY SessionConstants, SessionLimits DEF Proofs!EmptyDigest, Proofs!IsFiniteSet, IsFiniteSet

LEMMA AuthorityInvariants ==
    Proofs!Spec => /\ []Proofs!TypeOK
                   /\ []Proofs!StoreCoversAnswers
                   /\ []Proofs!PreviousBootsStayFenced
  <1>1. Proofs!Spec => []Proofs!TypeOK
    BY AuthorityAssumptions, Proofs!TypeCorrect
  <1>2. Proofs!Spec => []Proofs!StoreCoversAnswers
    BY AuthorityAssumptions, Proofs!AnswersAreStored
  <1>3. Proofs!Spec => []Proofs!PreviousBootsStayFenced
    BY AuthorityAssumptions, Proofs!RestartFences
  <1> QED
    BY <1>1, <1>2, <1>3

LEMMA SameAuthority == Registry!Spec => Proofs!Spec
  <1>1. Registry!Init => Proofs!Init
    BY DEF Registry!Init, Proofs!Init, Registry!NoStore, Proofs!NoStore
  <1>2. Registry!Next => Proofs!Next
    BY Zenon
    DEF Registry!Next, Registry!Register, Registry!RegisterStored,
        Registry!RegisterUnstored, Registry!RegisterRefused, Registry!FenceBoot,
        Registry!FenceOnSessionLoss, Registry!DropSession, Registry!ObserveAttempt,
        Registry!Flush, Registry!Crash, Registry!Corrupt, Registry!Open, Registry!Enlist,
        Registry!RegisterGuard, Registry!HasRoom, Registry!RegsAfterFencing,
        Registry!FencedBy, Registry!Superseded, Registry!LiveIndices, Registry!LiveBoots,
        Registry!LiveSessions, Registry!CanFence, Registry!WithoutBoot,
        Registry!WithoutSession, Registry!Context, Registry!Authorized, Registry!Projection,
        Registry!Valid, Registry!Told, Registry!Saved, Registry!SaveFailed,
        Registry!AdministerFencing, Registry!EmptyDigest, Registry!FirstOf,
        Registry!HaveState, Registry!RestoredFenced, Registry!NextEpoch, Registry!Verdict,
        Registry!Observe, Registry!Cardinality, Proofs!Next, Proofs!Register,
        Proofs!RegisterStored, Proofs!RegisterUnstored, Proofs!RegisterRefused,
        Proofs!FenceBoot, Proofs!FenceOnSessionLoss, Proofs!DropSession,
        Proofs!ObserveAttempt, Proofs!Flush, Proofs!Crash, Proofs!Corrupt, Proofs!Open,
        Proofs!Enlist, Proofs!RegisterGuard, Proofs!HasRoom, Proofs!RegsAfterFencing,
        Proofs!FencedBy, Proofs!Superseded, Proofs!LiveIndices, Proofs!LiveBoots,
        Proofs!LiveSessions, Proofs!CanFence, Proofs!WithoutBoot, Proofs!WithoutSession,
        Proofs!Context, Proofs!Authorized, Proofs!Projection, Proofs!Valid, Proofs!Told,
        Proofs!Saved, Proofs!SaveFailed, Proofs!AdministerFencing, Proofs!EmptyDigest,
        Proofs!FirstOf, Proofs!HaveState, Proofs!RestoredFenced, Proofs!NextEpoch,
        Proofs!Verdict, Proofs!Observe, Proofs!Cardinality
  <1> QED
    BY <1>1, <1>2, PTL DEF Registry!Spec, Proofs!Spec, Registry!vars, Proofs!vars

LEMMA BackedHolds == Spec => []Backed
  <1>1. Proofs!TypeOK => Registry!TypeOK
    BY DEF Proofs!TypeOK, Registry!TypeOK, Proofs!Registration, Registry!Registration,
           Proofs!AttemptRecord, Registry!AttemptRecord, Proofs!DiskImage, Registry!DiskImage
  <1>2. Proofs!StoreCoversAnswers => Registry!StoreCoversAnswers
    BY DEF Proofs!StoreCoversAnswers, Registry!StoreCoversAnswers, Proofs!LiveBoots,
           Registry!LiveBoots, Proofs!LiveIndices, Registry!LiveIndices
  <1>3. Proofs!PreviousBootsStayFenced => Registry!PreviousBootsStayFenced
    BY DEF Proofs!PreviousBootsStayFenced, Registry!PreviousBootsStayFenced
  <1>4. /\ Proofs!TypeOK /\ Proofs!StoreCoversAnswers /\ Proofs!PreviousBootsStayFenced
           => Backed
    BY <1>1, <1>2, <1>3 DEF Backed
  <1>5. Spec => Registry!Spec
    BY ServerDrivesAuthority DEF DrivesAuthority
  <1> QED
    BY <1>4, <1>5, AuthorityInvariants, SameAuthority, PTL

-----------------------------------------------------------------------------
(* The boots of lost sessions are fenced *)

Below == {pair \in Nat \X Nat : pair[1] < pair[2]}

\* A set of natural numbers has a least element.
LEMMA Least ==
    ASSUME NEW S \in SUBSET Nat, S # {}
    PROVE  \E n \in S : \A m \in S : n <= m
  <1>1. IsWellFoundedOn(Below, Nat)
    BY NatLessThanWellFounded DEF OpToRel, Below
  <1>2. PICK n \in S : \A m \in S : ~(<<m, n>> \in Below)
    BY <1>1, WFMin
  <1>3. ASSUME NEW m \in S PROVE n <= m
    <2>1. m \in Nat /\ n \in Nat
      OBVIOUS
    <2>2. <<m, n>> \in Nat \X Nat /\ <<m, n>>[1] = m /\ <<m, n>>[2] = n
      BY <2>1
    <2>3. ~(m < n)
      BY <1>2, <2>2 DEF Below
    <2> QED
      BY <2>1, <2>3
  <1> QED
    BY <1>3

\* The limit on fenced boots: the registry can take one more, or it is full.
LEMMA FullOrFences ==
    ASSUME Backed, NEW b, ~Registry!CanFence(fenced, b)
    PROVE  Full
  <1>1. Registry!Cardinality(fenced) = Cardinality(fenced)
    BY DEF Registry!Cardinality, Cardinality
  <1>2. Cardinality(fenced) \in Nat
    BY SessionConstants, FS_Subset, FS_CardinalityType DEF Backed, Registry!TypeOK
  <1> QED
    BY <1>1, <1>2, SessionLimits DEF Registry!CanFence, Full

\* A registry that is full stays so.
LEMMA FullStays ==
    ASSUME Backed, Full, fenced \subseteq fenced', fenced' \in SUBSET Conn
    PROVE  Full'
  <1>1. IsFiniteSet(fenced')
    BY SessionConstants, FS_Subset
  <1>2. /\ Cardinality(fenced) \in Nat /\ Cardinality(fenced') \in Nat
        /\ Cardinality(fenced) <= Cardinality(fenced')
    BY <1>1, FS_Subset, FS_CardinalityType
  <1> QED
    BY <1>2, SessionLimits DEF Full

\* Registrations keep their places, boots and sessions.
RegsKept ==
    /\ DOMAIN regs \subseteq DOMAIN regs'
    /\ \A i \in DOMAIN regs : regs'[i].boot = regs[i].boot /\ regs'[i].session = regs[i].session

LEMMA SecuredKept ==
    ASSUME NEW d \in Conn, Backed, Backed', Secured(d), RegsKept, fenced \subseteq fenced',
           session'[d] = session[d], thread'[d] = "done" <=> thread[d] = "done",
           \A i \in DOMAIN regs : Keeps(d, i) =>
               \/ d \in fenced'
               \/ /\ regs'[i].live
                  /\ \A e \in Conn \ {d} : session'[e].id # regs[i].session
    PROVE  Secured(d)'
  <1>1. CASE d \in fenced
    BY <1>1 DEF Secured
  <1>2. CASE ~(d \in fenced')
    <2>1. PICK i \in DOMAIN regs : Keeps(d, i)
      BY <1>2 DEF Secured
    <2>2. /\ regs'[i].live
          /\ \A e \in Conn \ {d} : session'[e].id # regs[i].session
      BY <1>2, <2>1
    <2>3. /\ i \in Nat /\ 1..(i - 1) \subseteq DOMAIN regs
          /\ i \in DOMAIN regs'
      BY <2>1, LenProperties DEF Backed, Registry!TypeOK, RegsKept
    <2>4. Keeps(d, i)'
      BY <2>1, <2>2, <2>3 DEF Keeps, RegsKept
    <2>5. thread'[d] = "done" => Full'
      BY <1>2, FullStays DEF Secured, Backed, Registry!TypeOK
    <2> QED
      BY <2>3, <2>4, <2>5 DEF Secured
  <1> QED
    BY <1>1, <1>2 DEF Secured

\* A registration that loses its life was of a boot that is fenced now.
Supersedes ==
    /\ RegsKept /\ fenced \subseteq fenced'
    /\ \A i \in DOMAIN regs : regs[i].live => regs'[i].live \/ regs[i].boot \in fenced'

LEMMA AfterFencing ==
    ASSUME NEW p, Backed
    PROVE  LET rs == Registry!RegsAfterFencing(p)
           IN /\ rs \in Seq(Registry!Registration) /\ DOMAIN rs = DOMAIN regs
              /\ Len(rs) = Len(regs)
              /\ \A i \in DOMAIN regs : /\ rs[i].boot = regs[i].boot
                                        /\ rs[i].session = regs[i].session
                                        /\ \/ rs[i].live = regs[i].live
                                           \/ regs[i].boot \in Registry!FencedBy(p)
  <1> DEFINE rs == Registry!RegsAfterFencing(p)
  <1>1. regs \in Seq(Registry!Registration)
    BY DEF Backed, Registry!TypeOK
  <1>2. \A i \in DOMAIN regs : regs[i] \in Registry!Registration
    BY <1>1, LenProperties, ElementOfSeq
  <1>3. /\ rs = [i \in DOMAIN regs |-> rs[i]]
        /\ \A i \in DOMAIN regs :
              /\ rs[i] \in Registry!Registration
              /\ rs[i].boot = regs[i].boot
              /\ rs[i].session = regs[i].session
    BY <1>2 DEF Registry!RegsAfterFencing, Registry!Registration
  <1>4. \A i \in DOMAIN regs : rs[i].live = regs[i].live \/ regs[i].boot \in Registry!FencedBy(p)
    BY DEF Registry!RegsAfterFencing, Registry!FencedBy
  <1>5. DOMAIN regs = 1..Len(regs) /\ Len(regs) \in Nat
    BY <1>1, LenProperties
  <1> HIDE DEF rs
  <1>6. rs \in [1..Len(regs) -> Registry!Registration]
    BY <1>3, <1>5
  <1>7. rs \in Seq(Registry!Registration) /\ Len(rs) = Len(regs)
    BY <1>5, <1>6, SeqDef, LenProperties
  <1>8. DOMAIN rs = DOMAIN regs
    BY <1>3
  <1> QED
    BY <1>3, <1>4, <1>7, <1>8 DEF rs

LEMMA EnlistEffect ==
    ASSUME NEW p \in Publisher, NEW c \in Conn, NEW s \in 1..MaxHellos, Backed,
           Registry!Enlist(p, c, s, Scope)
    PROVE  /\ Supersedes
           /\ Len(regs) + 1 \in DOMAIN regs'
           /\ regs'[Len(regs) + 1].live
           /\ regs'[Len(regs) + 1].boot = c
           /\ regs'[Len(regs) + 1].session = s
           /\ \A i \in DOMAIN regs' : i \in DOMAIN regs \/ i = Len(regs) + 1
           /\ \A i \in DOMAIN regs : i < Len(regs) + 1
  <1> DEFINE rs == Registry!RegsAfterFencing(p)
             r == [publisher |-> p, boot |-> c, session |-> s,
                   scopes |-> Scope \cap Grant[p], live |-> TRUE]
  <1>1. /\ regs \in Seq(Registry!Registration)
        /\ rs \in Seq(Registry!Registration) /\ DOMAIN rs = DOMAIN regs
        /\ Len(rs) = Len(regs)
        /\ \A i \in DOMAIN regs : /\ rs[i].boot = regs[i].boot
                                  /\ rs[i].session = regs[i].session
                                  /\ rs[i].live = regs[i].live \/ regs[i].boot \in fenced'
    BY AfterFencing DEF Backed, Registry!TypeOK, Registry!Enlist
  <1>2. r \in Registry!Registration /\ r.live /\ r.boot = c /\ r.session = s
    BY DEF Registry!Registration
  <1>3. regs' = Append(rs, r) /\ fenced \subseteq fenced'
    BY DEF Registry!Enlist, Registry!FencedBy
  <1> HIDE DEF rs, r
  <1>4. DOMAIN regs = 1..Len(regs) /\ Len(regs) \in Nat
    BY <1>1, LenProperties
  <1>5. /\ DOMAIN regs' = 1..(Len(regs) + 1)
        /\ regs'[Len(regs) + 1] = r
        /\ \A i \in DOMAIN regs : regs'[i] = rs[i]
    BY <1>1, <1>2, <1>3, <1>4, AppendProperties, LenProperties
  <1> QED
    BY <1>1, <1>2, <1>3, <1>4, <1>5 DEF Supersedes, RegsKept

LEMMA RefusedEffect ==
    ASSUME NEW p \in Publisher, NEW c \in Conn, NEW s \in 1..MaxHellos, Backed,
           Registry!RegisterRefused(p, c, s, Scope)
    PROVE  Supersedes
  <1>1. regs' = Registry!RegsAfterFencing(p) /\ fenced' = Registry!FencedBy(p)
    BY DEF Registry!RegisterRefused
  <1>2. fenced \subseteq fenced'
    BY <1>1 DEF Registry!FencedBy
  <1> QED
    BY <1>1, <1>2, AfterFencing DEF Supersedes, RegsKept

\* What the boots of sessions were told stays true of the ones that are secured.
LEMMA ToldKept ==
    ASSUME NEW d \in Conn, NEW boots, Registry!Told(boots), answered \subseteq boots,
           barred' = barred, d \in answered \cup barred, Secured(d)'
    PROVE  d \in answered' \cup barred'
  <1>1. CASE d \in answered
    <2>1. d \in Registry!LiveBoots(regs') \cup fenced'
      BY DEF Secured, Keeps, Registry!LiveBoots, Registry!LiveIndices
    <2> QED
      BY <1>1, <2>1 DEF Registry!Told
  <1> QED
    BY <1>1

\* A step that touches neither the registry nor the sessions.
LEMMA FenceSteady ==
    ASSUME Typed, Backed, FenceInv, UNCHANGED <<registry, session, accepted, collided>>,
           \A d \in Conn : thread'[d] = "done" <=> thread[d] = "done"
    PROVE  FenceInv'
  <1>1. /\ up' = up /\ regs' = regs /\ fenced' = fenced /\ disk' = disk /\ epoch' = epoch
        /\ answered' = answered /\ barred' = barred
    BY DEF registry
  <1>2. \A d \in Conn : Secured(d) => Secured(d)'
    BY <1>1 DEF Secured, Keeps, Full
  <1>3. SessionsRegistered'
    BY <1>1 DEF FenceInv, SessionsRegistered
  <1> QED
    BY <1>1, <1>2, <1>3 DEF FenceInv, Typed, HistoryTypes

\* register_publisher for a Hello, whatever comes of it.
LEMMA FenceRegisters ==
    ASSUME NEW c \in Conn, Typed, Backed, Backed', FenceInv, RegisterHello(c)
    PROVE  FenceInv'
  <1>0. /\ \A d \in Conn : thread'[d] = "done" <=> thread[d] = "done"
        /\ thread'[c] # "done"
        /\ accepted \in SUBSET Conn
        /\ session \in [Conn -> SessionState]
    BY DEF RegisterHello, Goto, NextTurn, Typed, ThreadTypes, HistoryTypes
  <1>1. PICK s \in 1..MaxHellos, p \in Publisher :
            \/ /\ Registry!RegisterStored(p, c, s, Scope)
               /\ session' = [session EXCEPT ![c] = [id |-> s, publisher |-> p]]
               /\ accepted' = accepted \cup {c}
               /\ collided' = IF SharersOf(c, s) = {} THEN collided
                              ELSE collided \cup SharersOf(c, s) \cup {c}
            \/ /\ \/ Registry!RegisterUnstored(p, c, s, Scope)
                  \/ Registry!RegisterRefused(p, c, s, Scope)
                  \/ UNCHANGED registry
               /\ UNCHANGED <<session, accepted, collided>>
    BY RegisterHelloStep DEF RegisterHello, RefusedUntouched
  <1>2. CASE UNCHANGED registry /\ UNCHANGED <<session, accepted, collided>>
    BY <1>0, <1>2, FenceSteady
  <1>3. ASSUME UNCHANGED <<session, accepted, collided>>, Supersedes, Registry!Told(answered),
               UNCHANGED <<up, epoch, barred>>, disk'.readable, up
        PROVE  FenceInv'
    <2>1. SessionsRegistered'
      BY <1>3 DEF FenceInv, SessionsRegistered, Supersedes, RegsKept
    <2>2. ASSUME NEW d \in accepted \ collided
          PROVE  Secured(d)' /\ d \in answered' \cup barred'
      <3>1. Secured(d) /\ d \in Conn /\ d \in answered \cup barred
        BY <1>0, <1>3, <2>2 DEF FenceInv
      <3>2. Secured(d)'
        BY <1>0, <1>3, <3>1, SecuredKept DEF Supersedes, Keeps
      <3> QED
        BY <1>3, <3>1, <3>2, ToldKept
    <2> QED
      BY <1>3, <2>1, <2>2 DEF FenceInv
  <1>4. CASE /\ \/ Registry!RegisterUnstored(p, c, s, Scope)
                \/ Registry!RegisterRefused(p, c, s, Scope)
             /\ UNCHANGED <<session, accepted, collided>>
    <2>1. Supersedes
      BY <1>4, EnlistEffect, RefusedEffect DEF Registry!RegisterUnstored
    <2>2. /\ Registry!Told(answered) /\ UNCHANGED <<up, epoch, barred>> /\ disk' = disk /\ up
      BY <1>4 DEF Registry!RegisterUnstored, Registry!RegisterRefused, Registry!Enlist,
                  Registry!RegisterGuard, Registry!SaveFailed
    <2> QED
      BY <1>3, <1>4, <2>1, <2>2 DEF FenceInv
  <1>5. CASE /\ Registry!RegisterStored(p, c, s, Scope)
             /\ session' = [session EXCEPT ![c] = [id |-> s, publisher |-> p]]
             /\ accepted' = accepted \cup {c}
             /\ collided' = IF SharersOf(c, s) = {} THEN collided
                            ELSE collided \cup SharersOf(c, s) \cup {c}
    <2>0. PICK n \in Nat : n = Len(regs) + 1
      BY LenProperties DEF Backed, Registry!TypeOK
    <2>1. /\ Supersedes
          /\ n \in DOMAIN regs' /\ regs'[n].live
          /\ regs'[n].boot = c /\ regs'[n].session = s
          /\ \A i \in DOMAIN regs' : i \in DOMAIN regs \/ i = n
          /\ \A i \in DOMAIN regs : i < n
      BY <1>5, <2>0, EnlistEffect DEF Registry!RegisterStored
    <2>2. /\ Registry!Told(answered \cup {c} \cup fenced')
          /\ UNCHANGED <<up, epoch, barred>> /\ up
          /\ disk' = Registry!Projection(epoch, regs', fenced')
      BY <1>5 DEF Registry!RegisterStored, Registry!Enlist, Registry!RegisterGuard, Registry!Saved
    <2>3. disk'.readable
      BY <2>2 DEF Registry!Projection
    <2>4. /\ session'[c] = [id |-> s, publisher |-> p] /\ session'[c].id = s
          /\ \A d \in Conn \ {c} : session'[d] = session[d]
      BY <1>0, <1>5
    <2>5. DOMAIN regs = 1..(n - 1)
      BY <2>0, LenProperties DEF Backed, Registry!TypeOK
    <2>6. SessionsRegistered'
      BY <2>1, <2>4 DEF FenceInv, SessionsRegistered, Supersedes, RegsKept
    <2>7. ASSUME NEW d \in Conn \ {c}, session[d].id = s PROVE d \in SharersOf(c, s)
      <3>1. session[d] # NoSession
        BY <2>7 DEF NoSession
      <3>2. \E j \in DOMAIN regs : regs[j].boot = d /\ regs[j].session = s
        BY <2>7, <3>1 DEF FenceInv, SessionsRegistered
      <3> QED
        BY <2>7, <3>2 DEF SharersOf
    <2>8. ASSUME c \notin collided' PROVE Secured(c)' /\ c \in answered'
      <3>1. SharersOf(c, s) = {}
        BY <1>5, <2>8
      <3>2. \A j \in 1..(n - 1) : regs'[j].session = s => regs'[j].boot = c
        <4> SUFFICES ASSUME NEW j \in 1..(n - 1), regs'[j].session = s PROVE regs'[j].boot = c
          OBVIOUS
        <4>1. j \in DOMAIN regs
          BY <2>5
        <4>2. regs[j].session = s /\ regs'[j].boot = regs[j].boot
          BY <2>1, <4>1 DEF Supersedes, RegsKept
        <4> QED
          BY <3>1, <4>1, <4>2 DEF SharersOf
      <3>3. \A d \in Conn \ {c} : session'[d].id # s
        BY <2>4, <2>7, <3>1
      <3>4. Keeps(c, n)'
        BY <2>1, <2>4, <3>2, <3>3 DEF Keeps
      <3>5. c \in Registry!LiveBoots(regs')
        BY <2>1 DEF Registry!LiveBoots, Registry!LiveIndices
      <3> QED
        BY <1>0, <2>1, <2>2, <3>4, <3>5 DEF Secured, Registry!Told
    <2>9. ASSUME NEW d \in accepted \ collided', d # c
          PROVE  Secured(d)' /\ d \in answered' \cup barred'
      <3>1. /\ Secured(d) /\ d \in Conn /\ d \in answered \cup barred
            /\ d \notin SharersOf(c, s)
        BY <1>0, <1>5, <2>2, <2>9 DEF FenceInv
      <3>2. ASSUME NEW i \in DOMAIN regs, Keeps(d, i)
            PROVE  \/ d \in fenced'
                   \/ /\ regs'[i].live
                      /\ \A e \in Conn \ {d} : session'[e].id # regs[i].session
        <4>1. regs[i].session # s
          BY <2>9, <3>1, <3>2 DEF Keeps, SharersOf
        <4> QED
          BY <2>1, <2>4, <3>2, <4>1 DEF Keeps, Supersedes
      <3>3. session'[d] = session[d]
        BY <2>4, <2>9, <3>1
      <3>4. Secured(d)'
        BY <1>0, <2>1, <3>1, <3>2, <3>3, SecuredKept DEF Supersedes
      <3> QED
        BY <2>2, <3>1, <3>4, ToldKept
    <2> QED
      BY <1>5, <2>2, <2>3, <2>6, <2>8, <2>9 DEF FenceInv
  <1> QED
    BY <1>1, <1>2, <1>4, <1>5

\* Of a session with a live registration, boot_of_session finds the first.
LEMMA FirstExists ==
    ASSUME Backed, NEW i \in DOMAIN regs, regs[i].live
    PROVE  \E k \in Registry!FirstOf(regs[i].session) : TRUE
  <1> DEFINE S == {j \in Registry!LiveIndices(regs) : regs[j].session = regs[i].session}
  <1>1. S \in SUBSET Nat /\ i \in S
    BY LenProperties DEF Registry!LiveIndices, Backed, Registry!TypeOK
  <1>2. PICK k \in S : \A j \in S : k <= j
    <2> HIDE DEF S
    <2> QED
      BY <1>1, Least
  <1>3. k \in Registry!FirstOf(regs[i].session)
    BY <1>2 DEF Registry!FirstOf
  <1> QED
    BY <1>3

\* The first live registration of a session that c keeps is c's.
LEMMA FirstIsOwn ==
    ASSUME Backed, NEW c \in Conn, NEW i \in DOMAIN regs, Keeps(c, i),
           NEW k \in Registry!FirstOf(regs[i].session)
    PROVE  regs[k].boot = c
  <1>1. i \in Registry!LiveIndices(regs)
    BY DEF Keeps, Registry!LiveIndices
  <1>2. /\ k \in DOMAIN regs /\ regs[k].session = regs[i].session /\ k <= i
    BY <1>1 DEF Registry!FirstOf, Registry!LiveIndices
  <1>3. i \in Nat /\ k \in 1..i
    BY <1>2, LenProperties DEF Backed, Registry!TypeOK
  <1>4. k = i \/ k \in 1..(i - 1)
    BY <1>3
  <1> QED
    BY <1>2, <1>4 DEF Keeps

\* fence_on_session_loss: registrations of other sessions go only with the boot
\* that is fenced.
LEMMA LossEffect ==
    ASSUME NEW s, Backed, Registry!FenceOnSessionLoss(s)
    PROVE  /\ RegsKept /\ fenced \subseteq fenced'
           /\ \E k \in Registry!FirstOf(s) : regs[k].boot \in fenced'
           /\ \A i \in DOMAIN regs :
                 regs[i].live /\ regs[i].session # s => regs'[i].live \/ regs[i].boot \in fenced'
           /\ Registry!Told(answered)
           /\ UNCHANGED <<up, epoch, barred>>
           /\ up /\ (disk.readable => disk'.readable)
  <1>1. PICK k \in Registry!FirstOf(s) :
            /\ fenced' = fenced \cup {regs[k].boot}
            /\ regs' = Registry!WithoutSession(
                          IF regs[k].boot \in fenced THEN regs
                          ELSE Registry!WithoutBoot(regs, regs[k].boot), s)
    BY DEF Registry!FenceOnSessionLoss
  <1> DEFINE rs == IF regs[k].boot \in fenced THEN regs
                   ELSE Registry!WithoutBoot(regs, regs[k].boot)
  <1>2. \A i \in DOMAIN regs : regs[i] \in Registry!Registration
    BY LenProperties, ElementOfSeq DEF Backed, Registry!TypeOK
  <1>3. /\ DOMAIN rs = DOMAIN regs
        /\ \A i \in DOMAIN regs :
              /\ rs[i] \in Registry!Registration
              /\ rs[i].boot = regs[i].boot /\ rs[i].session = regs[i].session
              /\ rs[i].live = regs[i].live \/ regs[i].boot = regs[k].boot
    BY <1>2 DEF Registry!WithoutBoot, Registry!Registration
  <1>4. regs' = Registry!WithoutSession(rs, s)
    BY <1>1
  <1> HIDE DEF rs
  <1>5. /\ DOMAIN regs' = DOMAIN regs
        /\ \A i \in DOMAIN regs :
              /\ regs'[i].boot = regs[i].boot /\ regs'[i].session = regs[i].session
              /\ regs[i].session # s => regs'[i] = rs[i]
    BY <1>3, <1>4 DEF Registry!WithoutSession, Registry!Registration
  <1>6. /\ Registry!Told(answered) /\ UNCHANGED <<up, epoch, barred>> /\ up
        /\ disk' = disk \/ disk' = Registry!Projection(epoch, regs', fenced')
    BY DEF Registry!FenceOnSessionLoss, Registry!Saved, Registry!SaveFailed
  <1>7. disk.readable => disk'.readable
    BY <1>6 DEF Registry!Projection
  <1> QED
    BY <1>1, <1>3, <1>5, <1>6, <1>7 DEF RegsKept

\* The end of serve: the boot of the session is fenced, or the registry is full.
LEMMA FenceLeaves ==
    ASSUME NEW c \in Conn, Typed, Backed, Backed', FenceInv, Leave(c)
    PROVE  FenceInv'
  <1>0. /\ thread[c] = "leaving" /\ thread'[c] = "done" /\ session'[c] = NoSession
        /\ \A d \in Conn \ {c} : thread'[d] = thread[d] /\ session'[d] = session[d]
        /\ UNCHANGED <<accepted, collided>> /\ accepted \in SUBSET Conn
    BY DEF Leave, Goto, Typed, ThreadTypes, HistoryTypes
  <1> DEFINE s == session[c].id
  <1>1. \/ UNCHANGED registry
        \/ session[c] # NoSession /\ Registry!FenceOnSessionLoss(s)
    BY DEF Leave, LoseAuthority
  <1>2. /\ RegsKept /\ fenced \subseteq fenced'
        /\ \A i \in DOMAIN regs :
              regs[i].live /\ regs[i].session # s => regs'[i].live \/ regs[i].boot \in fenced'
        /\ answered' = answered \/ Registry!Told(answered)
        /\ UNCHANGED <<up, epoch, barred>> /\ disk'.readable
        /\ ~up => UNCHANGED registry
    <2>1. CASE UNCHANGED registry
      BY <2>1 DEF registry, RegsKept, FenceInv
    <2>2. CASE Registry!FenceOnSessionLoss(s)
      BY <2>2, LossEffect DEF FenceInv
    <2> QED
      BY <1>1, <2>1, <2>2
  <1>3. \A i \in DOMAIN regs : regs[i].session \in 1..MaxHellos
    <2>1. \A i \in DOMAIN regs : regs[i] \in Registry!Registration
      BY LenProperties, ElementOfSeq DEF Backed, Registry!TypeOK
    <2> QED
      BY <2>1 DEF Registry!Registration
  <1>4. SessionsRegistered'
    <2> SUFFICES ASSUME NEW d \in Conn, session'[d] # NoSession
                 PROVE  \E j \in DOMAIN regs' : /\ regs'[j].boot = d
                                                /\ regs'[j].session = session'[d].id
      BY DEF SessionsRegistered
    <2>1. d # c /\ session'[d] = session[d]
      BY <1>0
    <2> QED
      BY <1>2, <2>1 DEF FenceInv, SessionsRegistered, RegsKept
  <1>5. ASSUME c \in accepted \ collided, up PROVE Secured(c)'
    <2>1. CASE c \in fenced
      BY <1>2, <2>1 DEF Secured
    <2>2. CASE c \notin fenced
      <3>1. PICK i \in DOMAIN regs : Keeps(c, i)
        BY <1>5, <2>2 DEF FenceInv, Secured
      <3>2. s = regs[i].session /\ session[c] # NoSession
        BY <1>0, <1>3, <3>1 DEF Keeps, NoSession
      <3>3. PICK k \in Registry!FirstOf(s) : TRUE
        BY <3>1, <3>2, FirstExists DEF Keeps
      <3>4. \A m \in Registry!FirstOf(s) : regs[m].boot = c
        BY <3>1, <3>2, FirstIsOwn
      <3>5. CASE Registry!FenceOnSessionLoss(s)
        BY <3>4, <3>5, LossEffect DEF Secured
      <3>6. CASE UNCHANGED registry /\ ~Registry!CanFence(fenced, c)
        <4>1. Full'
          BY <3>6, FullOrFences DEF Full, registry
        <4>2. regs' = regs /\ fenced' = fenced
          BY <3>6 DEF registry
        <4>3. Keeps(c, i)'
          BY <1>0, <3>1, <4>2 DEF Keeps
        <4> QED
          BY <3>1, <4>1, <4>2, <4>3 DEF Secured
      <3> QED
        BY <3>2, <3>3, <3>4, <3>5, <3>6 DEF Leave, LoseAuthority
    <2> QED
      BY <2>1, <2>2
  <1>6. ASSUME NEW d \in accepted \ collided, d # c, up PROVE Secured(d)'
    <2>1. Secured(d) /\ d \in Conn
      BY <1>0, <1>6 DEF FenceInv
    <2>2. ASSUME NEW i \in DOMAIN regs, Keeps(d, i)
          PROVE  \/ d \in fenced'
                 \/ /\ regs'[i].live
                    /\ \A e \in Conn \ {d} : session'[e].id # regs[i].session
      <3>1. regs[i].session # s /\ regs[i].session # 0
        BY <1>3, <1>6, <2>2 DEF Keeps
      <3>2. \A e \in Conn \ {d} : session'[e].id # regs[i].session
        BY <1>0, <2>2, <3>1 DEF Keeps, NoSession
      <3> QED
        BY <1>2, <2>2, <3>1, <3>2 DEF Keeps
    <2> QED
      BY <1>0, <1>2, <1>6, <2>1, <2>2, SecuredKept
  <1>7. ASSUME NEW d \in accepted \ collided PROVE d \in answered' \cup barred'
    <2>1. d \in answered \cup barred /\ d \in Conn
      BY <1>0, <1>7 DEF FenceInv
    <2>2. CASE answered' = answered
      BY <1>2, <2>1, <2>2
    <2>3. CASE Registry!Told(answered) /\ up
      BY <1>2, <1>5, <1>6, <1>7, <2>1, <2>3, ToldKept
    <2> QED
      BY <1>2, <2>2, <2>3 DEF registry
  <1>8. ~up' => answered' = {}
    BY <1>2 DEF FenceInv, registry
  <1> QED
    BY <1>0, <1>2, <1>4, <1>5, <1>6, <1>7, <1>8 DEF FenceInv

LEMMA FenceStep == Typed /\ Backed /\ Backed' /\ FenceInv /\ [Next]_vars => FenceInv'
  <1> SUFFICES ASSUME Typed, Backed, Backed', FenceInv, [Next]_vars PROVE FenceInv'
    OBVIOUS
  <1> DEFINE Steady == /\ UNCHANGED <<registry, session, accepted, collided>>
                       /\ \A d \in Conn : thread'[d] = "done" <=> thread[d] = "done"
  <1>1. ASSUME UNCHANGED vars \/ Stop \/ Joined PROVE Steady
    BY <1>1 DEF vars, Stop, Joined, threads, history
  <1>2. ASSUME NEW c \in Conn, Client(c) PROVE Steady
    BY <1>2 DEF Client, Connect, ConnectRaw, SendRaw, Request, Vanish, Receive, Disconnected,
                threads, history
  <1>3. ASSUME NEW c \in Conn, Accept(c) \/ Spawn(c) \/ ServerReceive(c)
                               \/ ServerLosesClient(c) \/ NeedsMore(c) \/ Unframed(c)
        PROVE  Steady
    BY <1>3 DEF Accept, Spawn, ServerReceive, ServerLosesClient, NeedsMore, Unframed,
                Goto, NextTurn, history, Typed, ThreadTypes
  <1>4. ASSUME NEW c \in Conn, HandleFrame(c) PROVE Steady
    <2> DEFINE frame == Popped(buffer[c])
    <2>1. /\ \/ HandleHello(c, frame) \/ RefuseFrame(c, frame) \/ HandleMutation(c, frame)
             \/ HandleQuery(c, frame) \/ HandleHeartbeat(c, frame) \/ HandleShutdown(c, frame)
          /\ thread[c] = "handling" /\ UNCHANGED <<accepted, collided>>
      BY <1>4 DEF HandleFrame
    <2> HIDE DEF frame
    <2> QED
      BY <2>1 DEF HandleHello, RefuseFrame, HandleMutation, HandleQuery, HandleHeartbeat,
                  HandleShutdown, Goto, NextTurn, Typed, ThreadTypes
  <1>5. Steady => FenceInv'
    BY FenceSteady
  <1>6. CASE Crash
    <2>1. /\ up /\ up' = FALSE /\ barred' = barred \cup answered /\ answered' = {}
          /\ UNCHANGED <<epoch, disk, accepted, collided>>
          /\ \A d \in Conn : session'[d] = NoSession
      BY <1>6 DEF Crash, Registry!Crash, history
    <2> QED
      BY <2>1 DEF FenceInv, SessionsRegistered
  <1>7. CASE Open
    <2>1. /\ ~up /\ up' /\ epoch' = Registry!NextEpoch
          /\ disk'.readable
          /\ barred' = IF Registry!HaveState THEN barred ELSE {}
          /\ UNCHANGED <<regs, answered, session, accepted, collided>>
      BY <1>7 DEF Open, Registry!Open, Registry!Saved, Registry!Projection, threads, history
    <2>2. epoch' # 0
      <3>1. disk.epoch \in Nat
        BY DEF Backed, Registry!TypeOK, Registry!DiskImage
      <3> QED
        BY <2>1, <3>1 DEF Registry!NextEpoch, Registry!HaveState
    <2>3. SessionsRegistered'
      BY <2>1 DEF FenceInv, SessionsRegistered
    <2>4. ASSUME NEW d \in accepted \ collided PROVE d \in barred' /\ d \in fenced'
      <3>1. d \in barred
        BY <2>1, <2>4 DEF FenceInv
      <3>2. Registry!HaveState
        BY <2>4 DEF FenceInv, Backed, Registry!StoreCoversAnswers, Registry!HaveState
      <3> QED
        BY <2>1, <3>1, <3>2 DEF Backed, Registry!PreviousBootsStayFenced
    <2> QED
      BY <2>1, <2>2, <2>3, <2>4 DEF FenceInv, Secured
  <1> HIDE DEF Steady
  <1> QED
    BY <1>1, <1>2, <1>3, <1>4, <1>5, <1>6, <1>7, FenceRegisters, FenceLeaves DEF Next, Serve

LEMMA FenceInit == Init => FenceInv
  BY DEF Init, Registry!Init, Registry!NoStore, FenceInv, SessionsRegistered

\* The boot of a session is fenced once its connection is lost and serve has
\* ended, crashes and restarts of the coordinator and failed writes included,
\* unless two connections shared the session identity or the registry of fenced
\* boots is full.
THEOREM LostSessionsFenced == Spec => []LostSessionsAreFenced
  <1>1. FenceInv => LostSessionsAreFenced
    BY DEF FenceInv, LostSessionsAreFenced, Secured
  <1> QED
    BY <1>1, TypesHold, BackedHolds, FenceInit, FenceStep, PTL DEF Spec
===============================================================================

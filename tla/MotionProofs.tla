----------------------------- MODULE MotionProofs -----------------------------
(***************************************************************************)
(* Safety of the motion detection service, for every number of connections *)
(* and descriptors, every size of a frame and every number of cycles.      *)
(***************************************************************************)
EXTENDS Motion, SequenceTheorems, TLAPS

-------------------------------------------------------------------------------
(* The inductive invariant. *)

\* The object of the client and the connection that is up belong together;
\* a thread is inside a call exactly while it sends or is in recv.
Object ==
    /\ connected => Up(socket_id)
    /\ \A c \in Conns : near[c] = "up" => connected /\ c = socket_id
    /\ cpc \in {"sending", "recv"} <=> using \in Conns
    /\ part = "current" => cpc \in {"send", "sending"}

\* A cycle that is under way has a number, and one that is to start may.
Numbered ==
    /\ cpc # "idle" => cycle >= 1
    /\ should_start => cycle < MaxCycles

\* The server's end of a connection is open as long as it has a worker.
Life ==
    \A c \in Conns :
        /\ near[c] = "none" <=> far[c] = "none"
        /\ far[c] \in {"none", "backlog"} => wpc[c] = "none"
        /\ far[c] = "open" <=> Alive(c)
        /\ far[c] \in {"none", "closed"} => stream[c] = <<>> /\ arrived[c] = 0

\* No more has arrived than was sent.
Delivered == \A c \in Conns : arrived[c] <= Pieces * Len(stream[c])

\* The frames of a connection that no answer has been given to: those the
\* worker holds and those under way.
Base(k) == [cycle |-> k, kind |-> "base"]
Current(k) == [cycle |-> k, kind |-> "current"]

None(c) == stream[c] = <<>> /\ wpc[c] \notin {"current", "reply"}

One(c, f) ==
    \/ wpc[c] \in {"none", "base"} /\ stream[c] = <<f>>
    \/ wpc[c] = "current" /\ base_frame[c] = f /\ stream[c] = <<>>

Two(c, f, g) ==
    \/ wpc[c] \in {"none", "base"} /\ stream[c] = <<f, g>>
    \/ wpc[c] = "current" /\ base_frame[c] = f /\ stream[c] = <<g>>
    \/ wpc[c] = "reply" /\ base_frame[c] = f /\ frame[c] = g /\ stream[c] = <<>>

Cycles == 1 .. MaxCycles

\* They are one frame, or the two of a cycle in their order, and there are
\* none while an answer waits to be read.
Shape(c) ==
    \/ None(c) /\ (answers[c] = <<>> \/ \E k \in Cycles : answers[c] = <<k>>)
    \/ /\ answers[c] = <<>>
       /\ \E k \in Cycles :
            One(c, Base(k)) \/ One(c, Current(k)) \/ Two(c, Base(k), Current(k))

Clean(c) == None(c) /\ answers[c] = <<>>
HalfSent(c) == answers[c] = <<>> /\ (None(c) \/ One(c, Base(cycle)))

\* Everything on the connection is of the cycle that is under way.
OfCycle(c) ==
    \/ None(c) /\ answers[c] \in {<<>>, <<cycle>>}
    \/ /\ answers[c] = <<>>
       /\ \/ One(c, Base(cycle)) \/ One(c, Current(cycle))
          \/ Two(c, Base(cycle), Current(cycle))

\* What the connection in use holds at each place of the cycles thread; one
\* made while the thread is in a call on an older one holds nothing.
InUse ==
    /\ \A c \in Conns : near[c] = "none" => Clean(c)
    /\ connected =>
        /\ cpc = "idle" => Clean(socket_id)
        /\ cpc = "send" =>
            IF part = "base" THEN Clean(socket_id) ELSE HalfSent(socket_id)
        /\ cpc = "receive" => OfCycle(socket_id)
        /\ cpc \in {"sending", "recv"} /\ socket_id # using => Clean(socket_id)
    /\ cpc = "sending" =>
        IF part = "base" THEN Clean(using) ELSE HalfSent(using)
    /\ cpc = "recv" => OfCycle(using)

Traffic == (\A c \in Conns : Shape(c)) /\ InUse

Inv ==
    /\ TypeOK /\ Object /\ Numbered /\ Life /\ Delivered
    /\ OwnDescriptor /\ Traffic

-------------------------------------------------------------------------------
(* Sequences of two at the most, and the pieces of a frame. *)

LEMMA ShortSequences ==
    ASSUME NEW S, NEW f \in S, NEW g \in S
    PROVE  /\ <<>> \o <<f>> = <<f>> /\ <<f>> \o <<g>> = <<f, g>>
           /\ Head(<<f>>) = f /\ Tail(<<f>>) = <<>>
           /\ Head(<<f, g>>) = f /\ Tail(<<f, g>>) = <<g>>
           /\ <<f>> # <<>> /\ <<f, g>> # <<>> /\ Append(<<>>, f) = <<f>>
  <1>1. <<f>> \in Seq(S) /\ <<f, g>> \in Seq(S) /\ <<g>> \in Seq(S)
    OBVIOUS
  <1>2. <<>> \o <<f>> = <<f>> /\ <<f>> \o <<g>> = <<f, g>>
    <2>1. <<>> \o <<f>> = <<f>>
      OBVIOUS
    <2>2. <<f>> \o <<g>> = <<f, g>>
      <3> DEFINE s == <<f>> \o <<g>>
      <3> DEFINE t == <<f, g>>
      <3>1. s \in Seq(S) /\ t \in Seq(S) /\ Len(s) = 2 /\ Len(t) = 2
        BY <1>1
      <3>2. s[1] = t[1] /\ s[2] = t[2]
        BY <1>1
      <3> HIDE DEF s, t
      <3>3. \A i \in 1 .. Len(s) : s[i] = t[i]
        BY <3>1, <3>2
      <3>4. s = t
        BY <3>1, <3>3, SeqEqual
      <3> QED BY <3>4 DEF s, t
    <2> QED BY <2>1, <2>2
  <1>3. Head(<<f>>) = f /\ Tail(<<f>>) = <<>>
    OBVIOUS
  <1>4. Head(<<f, g>>) = f /\ Tail(<<f, g>>) = <<g>>
    OBVIOUS
  <1>5. <<f>> # <<>> /\ <<f, g>> # <<>>
    OBVIOUS
  <1>6. Append(<<>>, f) = <<f>>
    OBVIOUS
  <1> QED BY <1>2, <1>3, <1>4, <1>5, <1>6

\* One frame less has one frame's pieces less.
LEMMA OneFrameLess ==
    ASSUME NEW n \in Nat, NEW p \in Nat \ {0}, NEW a \in Nat, a <= p * n, a >= p
    PROVE  n >= 1 /\ a - p <= p * (n - 1) /\ a - p \in Nat
  <1>1. n # 0
    <2>1. n = 0 => p * n = 0
      OBVIOUS
    <2> QED BY <2>1
  <1>2. p * (n - 1) = p * n - p
    OBVIOUS
  <1> QED BY <1>1, <1>2

LEMMA OneFrameMore ==
    ASSUME NEW n \in Nat, NEW p \in Nat \ {0}, NEW a \in Nat, a <= p * n
    PROVE  a <= p * (n + 1)
  <1>1. p * (n + 1) = p * n + p
    OBVIOUS
  <1> QED BY <1>1

-------------------------------------------------------------------------------
(* What a worker and the thread in a send call do, once it is known that a *)
(* descriptor stands for the connection of its owner.                      *)

LEMMA Own ==
    ASSUME OwnDescriptor, NEW c \in Conns, Alive(c)
    PROVE  At(c) = c /\ wsocket[c] \in Fds /\ table[wsocket[c]] = c
  BY DEF OwnDescriptor, At

\* A whole frame is there to be read.
LEMMA FrameWaits ==
    ASSUME Inv, NEW c \in Conns, Alive(c), Whole(At(c))
    PROVE  /\ Len(stream[c]) >= 1 /\ stream[c] # <<>>
           /\ arrived[c] - Pieces <= Pieces * (Len(stream[c]) - 1)
           /\ arrived[c] - Pieces \in Nat
  <1>1. At(c) = c
    BY Own DEF Inv
  <1>2. /\ arrived[c] \in Nat /\ stream[c] \in Seq(Frames)
        /\ arrived[c] <= Pieces * Len(stream[c])
    BY DEF Inv, TypeOK, Delivered
  <1>3. arrived[c] >= Pieces
    BY <1>1 DEF Whole
  <1>4. Len(stream[c]) \in Nat
    BY <1>2
  <1>5. /\ Len(stream[c]) >= 1 /\ arrived[c] - Pieces \in Nat
        /\ arrived[c] - Pieces <= Pieces * (Len(stream[c]) - 1)
    BY <1>2, <1>3, <1>4, OneFrameLess, CountAssumption
  <1> QED BY <1>5

LEMMA Receives ==
    ASSUME Inv, NEW c \in Conns, ReceiveBase(c) \/ ReceiveCurrent(c)
    PROVE  /\ Len(stream[c]) >= 1 /\ stream[c] # <<>>
           /\ arrived[c] - Pieces <= Pieces * (Len(stream[c]) - 1)
           /\ arrived[c] - Pieces \in Nat
           /\ stream' = [stream EXCEPT ![c] = Tail(@)]
           /\ arrived' = [arrived EXCEPT ![c] = @ - Pieces]
           /\ \/ /\ wpc[c] = "base" /\ wpc' = [wpc EXCEPT ![c] = "current"]
                 /\ base_frame' = [base_frame EXCEPT ![c] = Head(stream[c])]
                 /\ frame' = frame
              \/ /\ wpc[c] = "current" /\ wpc' = [wpc EXCEPT ![c] = "reply"]
                 /\ frame' = [frame EXCEPT ![c] = Head(stream[c])]
                 /\ base_frame' = base_frame
           /\ UNCHANGED <<cyclesVars, clientVars, answers, acceptVars, far,
                          table, wsocket>>
  <1>1. Alive(c) /\ Whole(At(c))
    BY DEF ReceiveBase, ReceiveCurrent, Receive, Alive
  <1>2. At(c) = c
    BY <1>1, Own DEF Inv
  <1>3. /\ Len(stream[c]) >= 1 /\ stream[c] # <<>>
        /\ arrived[c] - Pieces <= Pieces * (Len(stream[c]) - 1)
        /\ arrived[c] - Pieces \in Nat
    BY <1>1, FrameWaits
  <1> QED BY <1>2, <1>3 DEF ReceiveBase, ReceiveCurrent, Receive

LEMMA Replies ==
    ASSUME Inv, NEW c \in Conns, Reply(c)
    PROVE  /\ \/ answers' =
                    [answers EXCEPT ![c] = Append(@, base_frame[c].cycle)]
              \/ answers' = answers
           /\ wpc[c] = "reply" /\ wpc' = [wpc EXCEPT ![c] = "base"]
           /\ UNCHANGED <<cyclesVars, clientVars, stream, arrived, acceptVars,
                          far, table, wsocket, base_frame, frame>>
  <1>1. At(c) = c
    BY Own DEF Inv, Reply, Alive
  <1> QED BY <1>1 DEF Reply

LEMMA Closes ==
    ASSUME Inv, NEW c \in Conns, TimeOut(c) \/ ReplyFails(c)
    PROVE  /\ Alive(c) /\ wsocket[c] \in Fds /\ table[wsocket[c]] = c
           /\ table' = [table EXCEPT ![wsocket[c]] = Free]
           /\ far' = [far EXCEPT ![c] = "closed"]
           /\ stream' = [stream EXCEPT ![c] = <<>>]
           /\ arrived' = [arrived EXCEPT ![c] = 0]
           /\ base_frame' = [base_frame EXCEPT ![c] = NoFrame]
           /\ frame' = [frame EXCEPT ![c] = NoFrame]
           /\ wpc' = [wpc EXCEPT ![c] = "ended"]
           /\ wsocket' = [wsocket EXCEPT ![c] = NoFd]
           /\ UNCHANGED <<cyclesVars, clientVars, answers, acceptVars>>
  <1>1. Alive(c)
    BY DEF TimeOut, ReplyFails, Alive
  <1>2. At(c) = c /\ wsocket[c] \in Fds /\ table[wsocket[c]] = c
    BY <1>1, Own DEF Inv
  <1>3. CloseAndEnd(c)
    BY DEF TimeOut, ReplyFails
  <1> QED BY <1>1, <1>2, <1>3 DEF CloseAndEnd, Closing

\* A worker's step is one of the three.
LEMMA WorkerSteps ==
    ASSUME NEW c \in Conns, Worker(c)
    PROVE  \/ ReceiveBase(c) \/ ReceiveCurrent(c) \/ Reply(c)
           \/ TimeOut(c) \/ ReplyFails(c)
  BY DEF Worker



-------------------------------------------------------------------------------
(* The types, in three parts: the client, what is under way, the server. *)

ClientTypes ==
    /\ cpc \in {"idle", "send", "sending", "receive", "recv"} /\ part \in Kinds
    /\ {using, socket_id} \subseteq Conns \union {NoConn}
    /\ cycle \in 0 .. MaxCycles
    /\ connected \in BOOLEAN /\ should_start \in BOOLEAN
    /\ near \in [Conns -> {"none", "up", "closed"}]

WireTypes ==
    /\ stream \in [Conns -> Seq(Frames)]
    /\ arrived \in [Conns -> Nat]
    /\ answers \in [Conns -> Seq(0 .. MaxCycles)]

ServerTypes ==
    /\ far \in [Conns -> {"none", "backlog", "open", "closed"}]
    /\ lpc \in {"listen", "accept"} /\ socket_server \in Fds \union {NoFd}
    /\ table \in [Fds -> Conns \union {Listener, Free}]
    /\ wpc \in [Conns -> {"none", "base", "current", "reply", "ended"}]
    /\ wsocket \in [Conns -> Fds \union {NoFd}]
    /\ base_frame \in [Conns -> Frames \union {NoFrame}]
    /\ frame \in [Conns -> Frames \union {NoFrame}]

LEMMA TypeParts == TypeOK <=> ClientTypes /\ WireTypes /\ ServerTypes
  BY DEF TypeOK, ClientTypes, WireTypes, ServerTypes

\* A function stays one when its value at one place is replaced.
LEMMA Put ==
    ASSUME NEW S, NEW T, NEW f \in [S -> T], NEW c, NEW v \in T
    PROVE  [f EXCEPT ![c] = v] \in [S -> T]
  OBVIOUS

\* The initial state satisfies the invariant.
LEMMA InvInit == Init => Inv
  <1> SUFFICES ASSUME Init PROVE Inv
    OBVIOUS
  <1>1. ClientTypes
    <2>1. 0 \in 0 .. MaxCycles
      BY CountAssumption
    <2> QED BY <2>1 DEF Init, ClientTypes, Kinds, NoConn
  <1>2. WireTypes
    <2>1. <<>> \in Seq(Frames) /\ <<>> \in Seq(0 .. MaxCycles)
      OBVIOUS
    <2> QED BY <2>1, SMT DEF Init, WireTypes
  <1>3. ServerTypes
    BY DEF Init, ServerTypes, NoFd
  <1>4. Object /\ Numbered
    BY ConnsAssumption DEF Init, Object, Numbered, Up, NoConn
  <1>5. Life /\ Delivered
    BY CountAssumption DEF Init, Life, Delivered, Alive
  <1>6. OwnDescriptor
    BY ConnsAssumption DEF Init, OwnDescriptor, Alive, Free, Listener
  <1>7. Traffic
    BY DEF Init, Traffic, Shape, InUse, Clean, None
  <1> QED BY <1>1, <1>2, <1>3, <1>4, <1>5, <1>6, <1>7, TypeParts DEF Inv

\* Every step of main and of the cycles thread keeps the types ...
LEMMA ClientStepsTyped == Inv /\ (MainThread \/ CyclesThread) => TypeOK'
  <1> SUFFICES ASSUME Inv, MainThread \/ CyclesThread PROVE TypeOK'
    OBVIOUS
  <1>1. ClientTypes /\ WireTypes /\ ServerTypes
    BY TypeParts DEF Inv
  <1>2. ServerTypes'
    <2>1. UNCHANGED serverVars
             \/ /\ \E c \in Conns : far' = [far EXCEPT ![c] = "backlog"]
                /\ UNCHANGED <<acceptVars, table, workerVars>>
      BY DEF MainThread, CyclesThread, Start, GiveUp, Connect, Take, Skip,
             EnterSend, Sent, Sending, SendBreaks, EnterRecv, RecvAnswer,
             RecvNothing, BreakOff, serverVars
    <2> QED BY <1>1, <2>1 DEF ServerTypes, serverVars, acceptVars, workerVars
  <1>3. WireTypes'
    <2>1. CASE UNCHANGED wireVars
      BY <1>1, <2>1 DEF WireTypes, wireVars
    <2>2. CASE Sent
      <3>1. <<ThisFrame>> \in Seq(Frames)
        BY <1>1, <2>2 DEF ClientTypes, Kinds, Inv, Numbered, Sent, Sending,
           ThisFrame, Frames
      <3>2. stream' = stream \/
              stream' = [stream EXCEPT ![using] = stream[using] \o <<ThisFrame>>]
        BY <2>2 DEF Sent, Sending
      <3>3. using \in Conns
        BY <2>2 DEF Sent, Sending, Inv, Object
      <3>4. stream[using] \o <<ThisFrame>> \in Seq(Frames)
        <4>1. stream[using] \in Seq(Frames)
          BY <1>1, <3>3 DEF WireTypes
        <4> QED BY <3>1, <4>1
      <3>5. stream' \in [Conns -> Seq(Frames)]
        BY <1>1, <3>2, <3>4, Put DEF WireTypes
      <3> QED BY <1>1, <2>2, <3>5 DEF Sent, Sending, WireTypes
    <2>3. CASE RecvAnswer
      <3>1. using \in Conns /\ answers[using] # <<>>
        BY <2>3 DEF RecvAnswer, Inv, Object
      <3>2. Tail(answers[using]) \in Seq(0 .. MaxCycles)
        <4>1. answers[using] \in Seq(0 .. MaxCycles)
          BY <1>1, <3>1 DEF WireTypes
        <4> QED BY <3>1, <4>1, HeadTailProperties
      <3>3. answers' = [answers EXCEPT ![using] = Tail(answers[using])]
        BY <2>3 DEF RecvAnswer
      <3>4. answers' \in [Conns -> Seq(0 .. MaxCycles)]
        BY <1>1, <3>2, <3>3, Put DEF WireTypes
      <3> QED BY <1>1, <2>3, <3>4 DEF RecvAnswer, WireTypes
    <2> QED BY <2>1, <2>2, <2>3
            DEF MainThread, CyclesThread, Start, GiveUp, Connect, Take, Skip,
                EnterSend, SendBreaks, EnterRecv, RecvNothing, BreakOff
  <1>4. ClientTypes'
    <2> USE <1>1 DEF ClientTypes, cyclesVars, clientVars, Kinds, NoConn
    <2>1. Disconnect => near' \in [Conns -> {"none", "up", "closed"}]
      BY DEF Disconnect
    <2>2. CASE Start
      BY <2>2 DEF Start
    <2>3. CASE GiveUp
      BY <2>1, <2>3 DEF GiveUp, Disconnect
    <2>4. CASE Connect
      BY <2>4 DEF Connect
    <2>5. CASE Take
      <3>1. cycle' \in 0 .. MaxCycles
        <4>1. should_start /\ cycle \in 0 .. MaxCycles /\ cycle' = cycle + 1
          BY <2>5 DEF Take
        <4>2. cycle < MaxCycles
          BY <4>1 DEF Inv, Numbered
        <4> HIDE DEF ClientTypes
        <4> QED BY <4>1, <4>2, CountAssumption
      <3> QED BY <2>5, <3>1 DEF Take
    <2>6. CASE Skip \/ EnterSend \/ EnterRecv
      BY <2>6 DEF Skip, EnterSend, EnterRecv
    <2>7. CASE Sent \/ RecvAnswer
      BY <2>7 DEF Sent, Sending, RecvAnswer
    <2>8. CASE SendBreaks \/ RecvNothing
      BY <2>1, <2>8 DEF SendBreaks, RecvNothing, BreakOff, Disconnect
    <2> QED BY <2>2, <2>3, <2>4, <2>5, <2>6, <2>7, <2>8
            DEF MainThread, CyclesThread
  <1> QED
    <2>1. TypeOK' <=> ClientTypes' /\ WireTypes' /\ ServerTypes'
      BY DEF TypeOK, ClientTypes, WireTypes, ServerTypes
    <2> QED BY <1>2, <1>3, <1>4, <2>1

\* ... and so does every step of the server and of the network.
ServerSteps == AcceptLoop \/ \E c \in Conns : Arrive(c) \/ Worker(c)

\* What all of them leave to the client.
LEMMA ServerLeaves ==
    ASSUME Inv, ServerSteps
    PROVE  UNCHANGED <<cyclesVars, clientVars>>
  <1>1. ASSUME NEW c \in Conns, Worker(c) PROVE UNCHANGED <<cyclesVars, clientVars>>
    BY <1>1, WorkerSteps, Receives, Replies, Closes
  <1> QED BY <1>1 DEF ServerSteps, AcceptLoop, Listen, Accept, AcceptFails, Arrive

LEMMA ServerStepsTyped == Inv /\ ServerSteps => TypeOK'
  <1> SUFFICES ASSUME Inv, ServerSteps PROVE TypeOK'
    OBVIOUS
  <1>1. ClientTypes /\ WireTypes /\ ServerTypes
    BY TypeParts DEF Inv
  <1>2. ClientTypes'
    BY <1>1, ServerLeaves DEF ClientTypes, cyclesVars, clientVars
  <1>3. WireTypes' /\ ServerTypes'
    <2>1. CASE Listen
      <3>1. WireTypes'
        BY <1>1, <2>1 DEF Listen, WireTypes, wireVars
      <3>2. ServerTypes'
        BY <1>1, <2>1 DEF Listen, ServerTypes, workerVars
      <3> QED BY <3>1, <3>2
    <2>2. CASE AcceptFails
      <3>1. <<>> \in Seq(Frames)
        OBVIOUS
      <3>2. stream' \in [Conns -> Seq(Frames)]
        <4>1. \A c \in Conns : stream[c] \in Seq(Frames)
          BY <1>1 DEF WireTypes
        <4> QED BY <2>2, <3>1, <4>1 DEF AcceptFails
      <3>3. arrived' \in [Conns -> Nat]
        BY <1>1, <2>2 DEF AcceptFails, WireTypes
      <3>4. WireTypes'
        BY <1>1, <2>2, <3>2, <3>3 DEF AcceptFails, WireTypes
      <3>5. ServerTypes'
        BY <1>1, <2>2 DEF AcceptFails, ServerTypes, workerVars
      <3> QED BY <3>4, <3>5
    <2>3. ASSUME NEW c \in Conns, Accept(c) PROVE WireTypes' /\ ServerTypes'
      <3>1. WireTypes'
        BY <1>1, <2>3 DEF Accept, WireTypes, wireVars
      <3>2. ServerTypes'
        BY <1>1, <2>3 DEF Accept, ServerTypes, acceptVars
      <3> QED BY <3>1, <3>2
    <2>4. ASSUME NEW c \in Conns, Arrive(c) PROVE WireTypes' /\ ServerTypes'
      <3>1. arrived' \in [Conns -> Nat]
        BY <1>1, <2>4 DEF Arrive, WireTypes
      <3>2. WireTypes'
        BY <1>1, <2>4, <3>1 DEF Arrive, WireTypes
      <3>3. ServerTypes'
        BY <1>1, <2>4 DEF Arrive, ServerTypes, serverVars, acceptVars, workerVars
      <3> QED BY <3>2, <3>3
    <2>5. ASSUME NEW c \in Conns, ReceiveBase(c) \/ ReceiveCurrent(c)
          PROVE  WireTypes' /\ ServerTypes'
      <3>1. stream[c] \in Seq(Frames) /\ stream[c] # <<>>
        BY <1>1, <2>5, Receives DEF WireTypes
      <3>2. /\ Head(stream[c]) \in Frames /\ Tail(stream[c]) \in Seq(Frames)
            /\ arrived[c] - Pieces \in Nat
        BY <2>5, <3>1, Receives, HeadTailProperties
      <3>3. /\ stream' = [stream EXCEPT ![c] = Tail(stream[c])]
            /\ arrived' = [arrived EXCEPT ![c] = arrived[c] - Pieces]
            /\ answers' = answers
        BY <2>5, Receives
      <3>4. WireTypes'
        BY <1>1, <3>2, <3>3, Put DEF WireTypes
      <3>5. \/ /\ wpc' = [wpc EXCEPT ![c] = "current"] /\ frame' = frame
               /\ base_frame' = [base_frame EXCEPT ![c] = Head(stream[c])]
            \/ /\ wpc' = [wpc EXCEPT ![c] = "reply"] /\ base_frame' = base_frame
               /\ frame' = [frame EXCEPT ![c] = Head(stream[c])]
        BY <2>5, Receives
      <3>6. UNCHANGED <<acceptVars, far, table, wsocket>>
        BY <2>5, Receives
      <3>7. ServerTypes'
        BY <1>1, <3>2, <3>5, <3>6 DEF ServerTypes, acceptVars
      <3> QED BY <3>4, <3>7
    <2>6. ASSUME NEW c \in Conns, Reply(c) PROVE WireTypes' /\ ServerTypes'
      <3>1. base_frame[c].cycle \in 0 .. MaxCycles
        BY <1>1, CountAssumption DEF ServerTypes, Frames, NoFrame
      <3>2. Append(answers[c], base_frame[c].cycle) \in Seq(0 .. MaxCycles)
        <4>1. answers[c] \in Seq(0 .. MaxCycles)
          BY <1>1 DEF WireTypes
        <4> QED BY <3>1, <4>1
      <3>3. /\ answers' = answers
               \/ answers' = [answers EXCEPT ![c] =
                                Append(answers[c], base_frame[c].cycle)]
            /\ UNCHANGED <<stream, arrived>>
        BY <2>6, Replies
      <3>4. WireTypes'
        BY <1>1, <3>2, <3>3, Put DEF WireTypes
      <3>5. /\ wpc' = [wpc EXCEPT ![c] = "base"]
            /\ UNCHANGED <<acceptVars, far, table, wsocket, base_frame, frame>>
        BY <2>6, Replies
      <3>6. ServerTypes'
        BY <1>1, <3>5 DEF ServerTypes, acceptVars
      <3> QED BY <3>4, <3>6
    <2>7. ASSUME NEW c \in Conns, TimeOut(c) \/ ReplyFails(c)
          PROVE  WireTypes' /\ ServerTypes'
      <3>1. /\ stream' = [stream EXCEPT ![c] = <<>>]
            /\ arrived' = [arrived EXCEPT ![c] = 0] /\ answers' = answers
        BY <2>7, Closes
      <3>2. <<>> \in Seq(Frames) /\ 0 \in Nat
        OBVIOUS
      <3>3. WireTypes'
        BY <1>1, <3>1, <3>2, Put DEF WireTypes
      <3>4. /\ table' = [table EXCEPT ![wsocket[c]] = Free]
            /\ far' = [far EXCEPT ![c] = "closed"]
            /\ base_frame' = [base_frame EXCEPT ![c] = NoFrame]
            /\ frame' = [frame EXCEPT ![c] = NoFrame]
            /\ wpc' = [wpc EXCEPT ![c] = "ended"]
            /\ wsocket' = [wsocket EXCEPT ![c] = NoFd]
            /\ UNCHANGED acceptVars
        BY <2>7, Closes
      <3>5. ServerTypes'
        BY <1>1, <3>4 DEF ServerTypes, acceptVars
      <3> QED BY <3>3, <3>5
    <2> QED BY <2>1, <2>2, <2>3, <2>4, <2>5, <2>6, <2>7, WorkerSteps
            DEF ServerSteps, AcceptLoop
  <1> QED
    <2>1. TypeOK' <=> ClientTypes' /\ WireTypes' /\ ServerTypes'
      BY DEF TypeOK, ClientTypes, WireTypes, ServerTypes
    <2> QED BY <1>2, <1>3, <2>1

-------------------------------------------------------------------------------
(* The other parts of the invariant, one by one. *)

\* Giving a connection up, by either thread, closes the one that is up.
LEMMA Disconnects ==
    ASSUME Inv, connected, Disconnect
    PROVE  /\ socket_id \in Conns /\ near[socket_id] = "up" /\ ~connected'
           /\ near' = [near EXCEPT ![socket_id] = "closed"]
           /\ \A c \in Conns : near'[c] # "up"
           /\ \A c \in Conns : near'[c] = "none" <=> near[c] = "none"
           /\ UNCHANGED <<socket_id, should_start>>
  <1>1. socket_id \in Conns /\ near[socket_id] = "up"
    BY DEF Inv, Object, Up
  <1>2. /\ near' = [near EXCEPT ![socket_id] = "closed"] /\ ~connected'
        /\ UNCHANGED <<socket_id, should_start>>
    BY <1>1 DEF Disconnect, Up
  <1>3. near \in [Conns -> {"none", "up", "closed"}]
    BY DEF Inv, TypeOK
  <1>4. \A c \in Conns : near[c] = "up" => c = socket_id
    BY DEF Inv, Object
  <1> QED BY <1>1, <1>2, <1>3, <1>4

\* A call that fails when the object is no longer connected changes nothing
\* of what is connected.
LEMMA Fails ==
    ASSUME Inv, ~connected, Disconnect
    PROVE  UNCHANGED <<connected, socket_id, near, should_start>>
  <1>1. ~Up(socket_id) /\ connected = FALSE
    BY DEF Inv, TypeOK, Object, Up
  <1> QED BY <1>1 DEF Disconnect

\* Whatever the object stands for, nothing is up after it was given up.
LEMMA NothingUp ==
    ASSUME Inv, Disconnect
    PROVE  /\ ~connected' /\ UNCHANGED <<socket_id, should_start>>
           /\ \A c \in Conns : near'[c] # "up"
           /\ \A c \in Conns : near'[c] = "none" <=> near[c] = "none"
  <1>1. CASE connected
    BY <1>1, Disconnects
  <1>2. CASE ~connected
    <2>1. UNCHANGED <<connected, socket_id, near, should_start>>
      BY <1>2, Fails
    <2> QED BY <1>2, <2>1 DEF Inv, Object
  <1> QED BY <1>1, <1>2

LEMMA ObjectKept == Inv /\ [Next]_vars => Object' /\ Numbered'
  <1> SUFFICES ASSUME Inv, [Next]_vars PROVE Object' /\ Numbered'
    OBVIOUS
  <1>1. Object /\ Numbered /\ ClientTypes
    BY TypeParts DEF Inv
  <1> USE <1>1 DEF Object, Numbered, cyclesVars, clientVars, NoConn
  <1>2. NoConn \notin Conns
    BY ConnsAssumption
  <1>3. CASE Start
    BY <1>3 DEF Start, Up
  <1>4. CASE GiveUp
    BY <1>4, NothingUp DEF GiveUp, Up
  <1>5. CASE Connect
    <2>1. PICK c \in Conns : /\ near' = [near EXCEPT ![c] = "up"]
                             /\ socket_id' = c
      BY <1>5 DEF Connect
    <2>2. \A d \in Conns : near'[d] = "up" <=> d = c
      BY <1>5, <2>1 DEF Connect, ClientTypes
    <2>3. connected' /\ UNCHANGED <<cyclesVars, should_start>>
      BY <1>5 DEF Connect
    <2> QED BY <2>1, <2>2, <2>3 DEF Up
  <1>6. CASE Take
    BY <1>6 DEF Take, Up, ClientTypes
  <1>7. CASE Skip
    BY <1>2, <1>7 DEF Skip, Up
  <1>8. CASE EnterSend
    BY <1>8 DEF EnterSend, Up
  <1>9. CASE Sent
    BY <1>2, <1>9 DEF Sent, Sending, Up
  <1>10. CASE SendBreaks \/ RecvNothing
    <2>1. /\ Disconnect /\ cpc \in {"sending", "recv"}
          /\ cpc' = "idle" /\ part' = "base" /\ using' = NoConn /\ cycle' = cycle
      BY <1>10 DEF SendBreaks, RecvNothing, BreakOff
    <2> QED BY <1>2, <2>1, NothingUp DEF Up
  <1>11. CASE EnterRecv
    BY <1>11 DEF EnterRecv, Up
  <1>12. CASE RecvAnswer
    BY <1>2, <1>12 DEF RecvAnswer, Up
  <1>13. CASE ServerSteps
    BY <1>13, ServerLeaves DEF Up
  <1>14. CASE UNCHANGED vars
    BY <1>14 DEF vars, Up
  <1> QED BY <1>3, <1>4, <1>5, <1>6, <1>7, <1>8, <1>9, <1>10, <1>11, <1>12,
             <1>13, <1>14
          DEF Next, MainThread, CyclesThread, ServerSteps

\* A stream changes only while the server's end is there to receive.
LEMMA SentChanges ==
    ASSUME Inv, Sent
    PROVE  /\ using \in Conns /\ <<ThisFrame>> \in Seq(Frames)
           /\ \/ /\ far[using] \in {"backlog", "open"}
                 /\ stream' = [stream EXCEPT ![using] =
                                    stream[using] \o <<ThisFrame>>]
              \/ far[using] \notin {"backlog", "open"} /\ stream' = stream
           /\ UNCHANGED <<cycle, clientVars, arrived, answers, serverVars>>
  <1>1. using \in Conns /\ cpc = "sending"
    BY DEF Sent, Sending, Inv, Object
  <1>2. <<ThisFrame>> \in Seq(Frames)
    BY <1>1 DEF Inv, TypeOK, Numbered, ThisFrame, Frames
  <1> QED BY <1>1, <1>2 DEF Sent, Sending

LEMMA DeliveredKept == Inv /\ [Next]_vars => Delivered'
  <1> SUFFICES ASSUME Inv, [Next]_vars PROVE Delivered'
    OBVIOUS
  <1>1. /\ \A c \in Conns : /\ stream[c] \in Seq(Frames) /\ arrived[c] \in Nat
                            /\ Len(stream[c]) \in Nat
                            /\ arrived[c] <= Pieces * Len(stream[c])
        /\ DOMAIN stream = Conns /\ DOMAIN arrived = Conns
    <2>1. stream \in [Conns -> Seq(Frames)] /\ arrived \in [Conns -> Nat]
      BY DEF Inv, TypeOK
    <2> QED BY <2>1 DEF Inv, Delivered
  <1>2. Len(<<>>) = 0 /\ Pieces * 0 = 0
    BY CountAssumption
  <1>3. CASE UNCHANGED <<stream, arrived>>
    BY <1>1, <1>3 DEF Delivered
  <1>4. CASE Sent
    <2>1. using \in Conns /\ <<ThisFrame>> \in Seq(Frames) /\ arrived' = arrived
      BY <1>4, SentChanges
    <2> DEFINE longer == stream[using] \o <<ThisFrame>>
    <2>2. Len(longer) = Len(stream[using]) + 1
      BY <1>1, <2>1
    <2>3. arrived[using] <= Pieces * (Len(stream[using]) + 1)
      BY <1>1, <2>1, OneFrameMore, CountAssumption
    <2>4. stream' = stream \/ stream' = [stream EXCEPT ![using] = longer]
      BY <1>4, SentChanges
    <2> HIDE DEF longer
    <2>5. \A c \in Conns : \/ stream'[c] = stream[c]
                           \/ c = using /\ stream'[c] = longer
      BY <1>1, <2>1, <2>4
    <2>6. ASSUME NEW c \in Conns PROVE arrived'[c] <= Pieces * Len(stream'[c])
      BY <1>1, <2>1, <2>2, <2>3, <2>5
    <2> QED BY <2>6 DEF Delivered
  <1>5. CASE AcceptFails
    BY <1>1, <1>2, <1>5 DEF AcceptFails, Delivered
  <1>6. ASSUME NEW c \in Conns, Arrive(c) PROVE Delivered'
    <2>1. /\ arrived[c] < Pieces * Len(stream[c]) /\ stream' = stream
          /\ arrived' = [arrived EXCEPT ![c] = arrived[c] + 1]
      BY <1>6 DEF Arrive
    <2>2. arrived[c] + 1 <= Pieces * Len(stream[c])
      <3>1. Pieces * Len(stream[c]) \in Nat
        BY <1>1, CountAssumption
      <3> QED BY <1>1, <2>1, <3>1
    <2> QED BY <1>1, <2>1, <2>2 DEF Delivered
  <1>7. ASSUME NEW c \in Conns, ReceiveBase(c) \/ ReceiveCurrent(c)
        PROVE  Delivered'
    <2>1. /\ stream[c] # <<>>
          /\ arrived[c] - Pieces <= Pieces * (Len(stream[c]) - 1)
          /\ stream' = [stream EXCEPT ![c] = Tail(stream[c])]
          /\ arrived' = [arrived EXCEPT ![c] = arrived[c] - Pieces]
      BY <1>7, Receives
    <2>2. Len(Tail(stream[c])) = Len(stream[c]) - 1
      BY <1>1, <2>1, HeadTailProperties
    <2> QED BY <1>1, <2>1, <2>2 DEF Delivered
  <1>8. ASSUME NEW c \in Conns, TimeOut(c) \/ ReplyFails(c) PROVE Delivered'
    <2>1. /\ stream' = [stream EXCEPT ![c] = <<>>]
          /\ arrived' = [arrived EXCEPT ![c] = 0]
      BY <1>8, Closes
    <2> QED BY <1>1, <1>2, <2>1 DEF Delivered
  <1>9. ASSUME NEW c \in Conns, Reply(c) PROVE UNCHANGED <<stream, arrived>>
    BY <1>9, Replies
  <1> QED
    BY <1>3, <1>4, <1>5, <1>6, <1>7, <1>8, <1>9, WorkerSteps
    DEF Next, MainThread, CyclesThread, AcceptLoop, Start, GiveUp, Connect, Take,
        Skip, EnterSend, SendBreaks, EnterRecv, RecvAnswer, RecvNothing, BreakOff,
        Listen, Accept, vars, wireVars

LEMMA LifeKept == Inv /\ [Next]_vars => Life'
  <1> SUFFICES ASSUME Inv, [Next]_vars PROVE Life'
    OBVIOUS
  <1>1. /\ near \in [Conns -> {"none", "up", "closed"}]
        /\ far \in [Conns -> {"none", "backlog", "open", "closed"}]
        /\ wpc \in [Conns -> {"none", "base", "current", "reply", "ended"}]
        /\ DOMAIN stream = Conns /\ DOMAIN arrived = Conns
    BY DEF Inv, TypeOK
  <1>2. Life
    BY DEF Inv
  <1> USE <1>1, <1>2 DEF Life, Alive
  <1>3. CASE Start \/ Take \/ Skip \/ EnterSend \/ EnterRecv \/ RecvAnswer
    BY <1>3 DEF Start, Take, Skip, EnterSend, EnterRecv, RecvAnswer, clientVars,
       wireVars, serverVars, workerVars
  <1>4. CASE GiveUp \/ SendBreaks \/ RecvNothing
    <2>1. Disconnect /\ UNCHANGED <<wireVars, serverVars>>
      BY <1>4 DEF GiveUp, SendBreaks, RecvNothing, BreakOff
    <2> QED BY <2>1, NothingUp DEF wireVars, serverVars, workerVars
  <1>5. CASE Connect
    BY <1>5 DEF Connect, wireVars, workerVars
  <1>6. CASE Sent
    <2>1. /\ \A c \in Conns : stream'[c] = stream[c]
                                \/ far[c] \in {"backlog", "open"}
          /\ UNCHANGED <<clientVars, arrived, serverVars>>
      BY <1>6, SentChanges
    <2> QED BY <2>1 DEF clientVars, serverVars, workerVars
  <1>7. CASE Listen
    BY <1>7 DEF Listen, clientVars, wireVars, workerVars
  <1>8. CASE AcceptFails
    BY <1>8 DEF AcceptFails, clientVars, workerVars, Waits
  <1>9. ASSUME NEW c \in Conns, Accept(c) PROVE Life'
    BY <1>9 DEF Accept, clientVars, wireVars, Waits
  <1>10. ASSUME NEW c \in Conns, Arrive(c) PROVE Life'
    BY <1>10 DEF Arrive, clientVars, serverVars, workerVars
  <1>11. ASSUME NEW c \in Conns, ReceiveBase(c) \/ ReceiveCurrent(c) PROVE Life'
    <2>1. /\ \A d \in Conns : d # c => /\ stream'[d] = stream[d]
                                       /\ arrived'[d] = arrived[d]
                                       /\ wpc'[d] = wpc[d]
          /\ wpc[c] \in {"base", "current"} /\ wpc'[c] \in {"current", "reply"}
          /\ far' = far /\ near' = near
      BY <1>11, Receives DEF clientVars
    <2> QED BY <2>1
  <1>12. ASSUME NEW c \in Conns, Reply(c) PROVE Life'
    BY <1>12, Replies DEF clientVars
  <1>13. ASSUME NEW c \in Conns, TimeOut(c) \/ ReplyFails(c) PROVE Life'
    <2>1. /\ wpc[c] \in {"base", "current", "reply"} /\ near' = near
          /\ far' = [far EXCEPT ![c] = "closed"]
          /\ stream' = [stream EXCEPT ![c] = <<>>]
          /\ arrived' = [arrived EXCEPT ![c] = 0]
          /\ wpc' = [wpc EXCEPT ![c] = "ended"]
      BY <1>13, Closes DEF clientVars
    <2> QED BY <2>1
  <1>14. CASE UNCHANGED vars
    BY <1>14 DEF vars, clientVars, wireVars, serverVars, workerVars
  <1> QED BY <1>3, <1>4, <1>5, <1>6, <1>7, <1>8, <1>9, <1>10, <1>11, <1>12,
             <1>13, <1>14, WorkerSteps
          DEF Next, MainThread, CyclesThread, AcceptLoop

LEMMA OwnDescriptorKept == Inv /\ [Next]_vars => OwnDescriptor'
  <1> SUFFICES ASSUME Inv, [Next]_vars PROVE OwnDescriptor'
    OBVIOUS
  <1>1. /\ lpc \in {"listen", "accept"} /\ socket_server \in Fds \union {NoFd}
        /\ table \in [Fds -> Conns \union {Listener, Free}]
        /\ wpc \in [Conns -> {"none", "base", "current", "reply", "ended"}]
        /\ wsocket \in [Conns -> Fds \union {NoFd}]
    BY DEF Inv, TypeOK
  <1>2. /\ \A c \in Conns : Alive(c) => wsocket[c] \in Fds /\ table[wsocket[c]] = c
        /\ lpc = "accept" =>
                socket_server \in Fds /\ table[socket_server] = Listener
        /\ \A f \in Fds :
            /\ table[f] = Listener => lpc = "accept" /\ socket_server = f
            /\ table[f] \in Conns => Alive(table[f]) /\ wsocket[table[f]] = f
    BY Own DEF Inv, OwnDescriptor
  <1>3. /\ Listener \notin Conns /\ Free \notin Conns /\ Listener # Free
    BY ConnsAssumption DEF Listener, Free
  <1> USE <1>1, <1>2, <1>3 DEF OwnDescriptor, Alive, At
  <1>4. CASE UNCHANGED <<lpc, socket_server, table, wpc, wsocket>>
    BY <1>4
  <1>5. CASE Listen
    <2>1. PICK f \in Fds : /\ table[f] = Free /\ socket_server' = f
                           /\ table' = [table EXCEPT ![f] = Listener]
      BY <1>5 DEF Listen, Lowest
    <2>2. /\ lpc = "listen" /\ lpc' = "accept" /\ wpc' = wpc
          /\ wsocket' = wsocket
      BY <1>5 DEF Listen, workerVars
    <2> QED BY <2>1, <2>2
  <1>6. CASE AcceptFails
    BY <1>6 DEF AcceptFails, workerVars
  <1>7. ASSUME NEW c \in Conns, Accept(c) PROVE OwnDescriptor'
    <2>1. PICK f \in Fds : /\ table[f] = Free
                           /\ table' = [table EXCEPT ![f] = c]
                           /\ wsocket' = [wsocket EXCEPT ![c] = f]
      BY <1>7 DEF Accept, Lowest
    <2>2. /\ wpc[c] = "none" /\ wpc' = [wpc EXCEPT ![c] = "base"]
          /\ lpc' = lpc /\ socket_server' = socket_server
      BY <1>7 DEF Accept, Waits, acceptVars, Inv, Life
    <2> QED BY <2>1, <2>2
  <1>8. ASSUME NEW c \in Conns, ReceiveBase(c) \/ ReceiveCurrent(c)
        PROVE  OwnDescriptor'
    <2>1. /\ \A d \in Conns : Alive(d)' <=> Alive(d)
          /\ UNCHANGED <<lpc, socket_server, table, wsocket>>
      BY <1>8, Receives DEF acceptVars
    <2> QED BY <2>1
  <1>9. ASSUME NEW c \in Conns, Reply(c) PROVE OwnDescriptor'
    <2>1. /\ \A d \in Conns : Alive(d)' <=> Alive(d)
          /\ UNCHANGED <<lpc, socket_server, table, wsocket>>
      BY <1>9, Replies DEF acceptVars
    <2> QED BY <2>1
  <1>10. ASSUME NEW c \in Conns, TimeOut(c) \/ ReplyFails(c) PROVE OwnDescriptor'
    <2>1. /\ Alive(c) /\ wsocket[c] \in Fds /\ table[wsocket[c]] = c
          /\ table' = [table EXCEPT ![wsocket[c]] = Free]
          /\ wpc' = [wpc EXCEPT ![c] = "ended"]
          /\ wsocket' = [wsocket EXCEPT ![c] = NoFd]
          /\ lpc' = lpc /\ socket_server' = socket_server
      BY <1>10, Closes DEF acceptVars
    <2> QED BY <2>1
  <1> QED
    BY <1>4, <1>5, <1>6, <1>7, <1>8, <1>9, <1>10, WorkerSteps
    DEF Next, MainThread, CyclesThread, AcceptLoop, Start, GiveUp, Connect, Take,
        Skip, EnterSend, Sent, Sending, SendBreaks, EnterRecv, RecvAnswer,
        RecvNothing, BreakOff, Arrive, vars, serverVars, acceptVars, workerVars

-------------------------------------------------------------------------------
(* The traffic of a connection. *)

\* What a step may leave of a connection's traffic: nothing gets worse.
NoWorse(c) ==
    /\ Shape(c) => Shape(c)'
    /\ Clean(c) => Clean(c)'
    /\ HalfSent(c) => HalfSent(c)'
    /\ OfCycle(c) => OfCycle(c)'

\* A connection whose traffic no step touches.
LEMMA Untouched ==
    ASSUME NEW c, stream'[c] = stream[c], wpc'[c] = wpc[c],
           base_frame'[c] = base_frame[c], frame'[c] = frame[c],
           answers'[c] = answers[c], cycle' = cycle
    PROVE  NoWorse(c)
  BY DEF NoWorse, Shape, Clean, HalfSent, OfCycle, None, One, Two

\* The frames and the answers of a connection that a worker ends, or that
\* dies in the backlog, are gone: only answers that were sent remain.
LEMMA Emptied ==
    ASSUME NEW c, stream'[c] = <<>>, wpc'[c] \notin {"current", "reply"},
           answers'[c] = answers[c], cycle' = cycle
    PROVE  NoWorse(c)
  BY DEF NoWorse, Shape, Clean, HalfSent, OfCycle, None

\* A worker that starts to read holds nothing yet.
LEMMA Started ==
    ASSUME NEW c, wpc[c] = "none", wpc'[c] = "base", stream'[c] = stream[c],
           answers'[c] = answers[c], cycle' = cycle
    PROVE  NoWorse(c)
  BY DEF NoWorse, Shape, Clean, HalfSent, OfCycle, None, One, Two

\* A frame that was under way is in the worker's hands.
LEMMA Moved ==
    ASSUME NEW c, stream[c] # <<>>, stream'[c] = Tail(stream[c]),
           answers'[c] = answers[c], cycle' = cycle, cycle \in Nat,
           \/ /\ wpc[c] = "base" /\ wpc'[c] = "current"
              /\ base_frame'[c] = Head(stream[c])
           \/ /\ wpc[c] = "current" /\ wpc'[c] = "reply"
              /\ base_frame'[c] = base_frame[c] /\ frame'[c] = Head(stream[c])
    PROVE  NoWorse(c)
  <1>1. ASSUME NEW f, NEW g
        PROVE  /\ Head(<<f>>) = f /\ Tail(<<f>>) = <<>>
               /\ Head(<<f, g>>) = f /\ Tail(<<f, g>>) = <<g>> /\ <<g>> # <<>>
    <2>1. f \in {f, g} /\ g \in {f, g}
      OBVIOUS
    <2> QED BY <2>1, ShortSequences
  <1>2. ASSUME NEW f, One(c, f), wpc[c] = "base" PROVE One(c, f)'
    <2>1. stream[c] = <<f>> /\ wpc'[c] = "current"
      BY <1>2 DEF One
    <2> QED BY <1>1, <2>1 DEF One
  <1>3. ASSUME NEW f, NEW g, Two(c, f, g) PROVE Two(c, f, g)'
    <2>1. CASE wpc[c] = "base"
      <3>1. stream[c] = <<f, g>> /\ wpc'[c] = "current"
        BY <1>3, <2>1 DEF Two
      <3> QED BY <1>1, <2>1, <3>1 DEF Two
    <2>2. CASE wpc[c] = "current"
      <3>1. stream[c] = <<g>> /\ wpc'[c] = "reply" /\ base_frame[c] = f
        BY <1>3, <2>2 DEF Two
      <3> QED BY <1>1, <2>2, <3>1 DEF Two
    <2> QED BY <2>1, <2>2
  <1>4. ASSUME NEW f, wpc[c] = "current" PROVE ~One(c, f)
    BY <1>4 DEF One
  <1>5. ~None(c) /\ wpc[c] \in {"base", "current"}
    BY DEF None
  <1>6. Shape(c) => Shape(c)'
    BY <1>2, <1>3, <1>4, <1>5 DEF Shape
  <1>7. Clean(c) => Clean(c)'
    BY <1>5 DEF Clean
  <1>8. HalfSent(c) => HalfSent(c)'
    <2>1. Base(cycle)' = Base(cycle)
      BY DEF Base
    <2> QED BY <1>2, <1>4, <1>5, <2>1 DEF HalfSent
  <1>9. OfCycle(c) => OfCycle(c)'
    <2>1. Base(cycle)' = Base(cycle) /\ Current(cycle)' = Current(cycle)
      BY DEF Base, Current
    <2> QED BY <1>2, <1>3, <1>4, <1>5, <2>1 DEF OfCycle
  <1> QED BY <1>6, <1>7, <1>8, <1>9 DEF NoWorse

\* The frames a worker holds are compared and the number sent, or lost.
LEMMA Answered ==
    ASSUME NEW c, wpc[c] = "reply", wpc'[c] = "base", stream'[c] = stream[c],
           cycle' = cycle,
           \/ answers'[c] = answers[c]
           \/ answers'[c] = Append(answers[c], base_frame[c].cycle)
    PROVE  NoWorse(c)
  <1>1. \A k : Append(<<>>, k) = <<k>>
    <2>1. \A k : k \in {k}
      OBVIOUS
    <2> QED BY ShortSequences
  <1>2. ~None(c) /\ ~Clean(c) /\ ~HalfSent(c) /\ \A f : ~One(c, f)
    BY DEF None, Clean, HalfSent, One
  <1>3. ASSUME NEW k, Two(c, Base(k), Current(k)), answers[c] = <<>>
        PROVE  None(c)' /\ answers'[c] \in {<<>>, <<k>>}
    <2>1. base_frame[c].cycle = k /\ stream[c] = <<>>
      BY <1>3 DEF Two, Base
    <2> QED BY <1>1, <1>3, <2>1 DEF None
  <1>4. Shape(c) => Shape(c)'
    BY <1>2, <1>3 DEF Shape
  <1>5. OfCycle(c) => OfCycle(c)'
    BY <1>2, <1>3 DEF OfCycle
  <1> QED BY <1>2, <1>4, <1>5 DEF NoWorse

\* The server and the network make no connection's traffic worse ...
LEMMA ServerTraffic ==
    ASSUME Inv, ServerSteps, NEW d \in Conns
    PROVE  NoWorse(d)
  <1>1. /\ DOMAIN stream = Conns /\ DOMAIN answers = Conns /\ DOMAIN wpc = Conns
        /\ DOMAIN base_frame = Conns /\ DOMAIN frame = Conns /\ cycle \in Nat
    BY CountAssumption DEF Inv, TypeOK
  <1>2. cycle' = cycle
    BY ServerLeaves DEF cyclesVars
  <1>3. CASE Listen
    BY <1>2, <1>3, Untouched DEF Listen, wireVars, workerVars
  <1>4. CASE AcceptFails
    <2>1. CASE Waits(d)
      <3>1. wpc[d] = "none"
        BY <2>1 DEF Waits, Inv, Life
      <3>2. stream'[d] = <<>> /\ wpc'[d] = wpc[d] /\ answers'[d] = answers[d]
        BY <1>4, <2>1 DEF AcceptFails, workerVars
      <3> QED BY <1>2, <3>1, <3>2, Emptied
    <2>2. CASE ~Waits(d)
      <3>1. stream'[d] = stream[d]
        BY <1>4, <2>2 DEF AcceptFails
      <3> QED BY <1>2, <1>4, <3>1, Untouched DEF AcceptFails, workerVars
    <2> QED BY <2>1, <2>2
  <1>5. ASSUME NEW c \in Conns, Accept(c) PROVE NoWorse(d)
    <2>1. /\ UNCHANGED <<stream, answers, base_frame, frame>>
          /\ wpc' = [wpc EXCEPT ![c] = "base"] /\ far[c] = "backlog"
      BY <1>5 DEF Accept, wireVars, Waits
    <2>2. wpc[c] = "none"
      BY <2>1 DEF Inv, Life
    <2>3. CASE d = c
      BY <1>1, <1>2, <2>1, <2>2, <2>3, Started
    <2>4. CASE d # c
      BY <1>1, <1>2, <2>1, <2>4, Untouched
    <2> QED BY <2>3, <2>4
  <1>6. ASSUME NEW c \in Conns, Arrive(c) PROVE NoWorse(d)
    BY <1>2, <1>6, Untouched DEF Arrive, serverVars, workerVars
  <1>7. ASSUME NEW c \in Conns, ReceiveBase(c) \/ ReceiveCurrent(c)
        PROVE  NoWorse(d)
    <2>1. /\ stream[c] # <<>> /\ answers' = answers
          /\ stream' = [stream EXCEPT ![c] = Tail(stream[c])]
      BY <1>7, Receives
    <2>2. \/ /\ wpc[c] = "base" /\ wpc' = [wpc EXCEPT ![c] = "current"]
             /\ base_frame' = [base_frame EXCEPT ![c] = Head(stream[c])]
             /\ frame' = frame
          \/ /\ wpc[c] = "current" /\ wpc' = [wpc EXCEPT ![c] = "reply"]
             /\ frame' = [frame EXCEPT ![c] = Head(stream[c])]
             /\ base_frame' = base_frame
      BY <1>7, Receives
    <2>3. CASE d = c
      BY <1>1, <1>2, <2>1, <2>2, <2>3, Moved
    <2>4. CASE d # c
      BY <1>1, <1>2, <2>1, <2>2, <2>4, Untouched
    <2> QED BY <2>3, <2>4
  <1>8. ASSUME NEW c \in Conns, Reply(c) PROVE NoWorse(d)
    <2>1. /\ wpc[c] = "reply" /\ wpc' = [wpc EXCEPT ![c] = "base"]
          /\ UNCHANGED <<stream, base_frame, frame>>
          /\ \/ answers' = answers
             \/ answers' =
                    [answers EXCEPT ![c] = Append(answers[c], base_frame[c].cycle)]
      BY <1>8, Replies
    <2>2. CASE d = c
      BY <1>1, <1>2, <2>1, <2>2, Answered
    <2>3. CASE d # c
      BY <1>1, <1>2, <2>1, <2>3, Untouched
    <2> QED BY <2>2, <2>3
  <1>9. ASSUME NEW c \in Conns, TimeOut(c) \/ ReplyFails(c) PROVE NoWorse(d)
    <2>1. /\ stream' = [stream EXCEPT ![c] = <<>>] /\ answers' = answers
          /\ base_frame' = [base_frame EXCEPT ![c] = NoFrame]
          /\ frame' = [frame EXCEPT ![c] = NoFrame]
          /\ wpc' = [wpc EXCEPT ![c] = "ended"]
      BY <1>9, Closes
    <2>2. CASE d = c
      BY <1>1, <1>2, <2>1, <2>2, Emptied
    <2>3. CASE d # c
      BY <1>1, <1>2, <2>1, <2>3, Untouched
    <2> QED BY <2>2, <2>3
  <1> QED BY <1>3, <1>4, <1>5, <1>6, <1>7, <1>8, <1>9, WorkerSteps
          DEF ServerSteps, AcceptLoop

\* ... and as the client does not move meanwhile, what it relies on stays.
LEMMA ServerKeepsTraffic == Inv /\ ServerSteps => Traffic'
  <1> SUFFICES ASSUME Inv, ServerSteps PROVE Traffic'
    OBVIOUS
  <1>1. \A c \in Conns : NoWorse(c)
    BY ServerTraffic
  <1>2. UNCHANGED <<cpc, part, using, cycle, connected, socket_id, near>>
    BY ServerLeaves DEF cyclesVars, clientVars
  <1>3. /\ connected => socket_id \in Conns
        /\ cpc \in {"sending", "recv"} => using \in Conns
    BY DEF Inv, Object, Up
  <1>4. (\A c \in Conns : Shape(c)) /\ InUse
    BY DEF Inv, Traffic
  <1>5. \A c \in Conns : Shape(c)'
    BY <1>1, <1>4 DEF NoWorse
  <1>6. InUse'
    BY <1>1, <1>2, <1>3, <1>4 DEF NoWorse, InUse
  <1> QED BY <1>5, <1>6 DEF Traffic

\* Both clauses of the traffic, from their parts.
LEMMA Apart ==
    ASSUME Inv
    PROVE  /\ \A c \in Conns : Shape(c)
           /\ \A c \in Conns : near[c] = "none" => Clean(c)
           /\ connected => socket_id \in Conns /\ near[socket_id] = "up"
           /\ DOMAIN stream = Conns /\ DOMAIN answers = Conns
           /\ using \in Conns <=> cpc \in {"sending", "recv"}
           /\ part = "current" => cpc \in {"send", "sending"}
           /\ part \in Kinds
  BY DEF Inv, Traffic, InUse, Object, Up, TypeOK

LEMMA CleanIsAll ==
    ASSUME NEW c, Clean(c)
    PROVE  HalfSent(c) /\ OfCycle(c)
  BY DEF Clean, HalfSent, OfCycle

\* A frame that is sent joins those of its cycle.
LEMMA FrameJoins ==
    ASSUME NEW c, wpc[c] \in {"none", "base", "current", "reply"},
           wpc'[c] = wpc[c], base_frame'[c] = base_frame[c],
           answers'[c] = answers[c], cycle \in Cycles, cycle' = cycle,
           stream'[c] = stream[c] \o <<ThisFrame>>
    PROVE  /\ part = "base" /\ Clean(c) => Shape(c)' /\ HalfSent(c)'
           /\ part = "current" /\ HalfSent(c) => Shape(c)' /\ OfCycle(c)'
  <1>1. \A f, g : <<>> \o <<f>> = <<f>> /\ <<f>> \o <<g>> = <<f, g>>
    <2>1. ASSUME NEW f, NEW g
          PROVE  <<>> \o <<f>> = <<f>> /\ <<f>> \o <<g>> = <<f, g>>
      <3>1. f \in {f, g} /\ g \in {f, g}
        OBVIOUS
      <3> QED BY <3>1, ShortSequences
    <2> QED BY <2>1
  <1>2. Base(cycle)' = Base(cycle) /\ Current(cycle)' = Current(cycle)
    BY DEF Base, Current
  <1>3. ASSUME part = "base", Clean(c) PROVE Shape(c)' /\ HalfSent(c)'
    <2>1. ThisFrame = Base(cycle)
      BY <1>3 DEF ThisFrame, Base
    <2>2. /\ stream[c] = <<>> /\ wpc[c] \in {"none", "base"} /\ answers[c] = <<>>
      BY <1>3 DEF Clean, None
    <2>3. One(c, Base(cycle))' /\ answers'[c] = <<>>
      BY <1>1, <1>2, <2>1, <2>2 DEF One
    <2> QED BY <2>3, <1>2 DEF Shape, HalfSent
  <1>4. ASSUME part = "current", HalfSent(c) PROVE Shape(c)' /\ OfCycle(c)'
    <2>1. ThisFrame = Current(cycle)
      BY <1>4 DEF ThisFrame, Current
    <2>2. answers'[c] = <<>>
      BY <1>4 DEF HalfSent
    <2>3. CASE None(c)
      <3>1. stream[c] = <<>> /\ wpc[c] \in {"none", "base"}
        BY <2>3 DEF None
      <3>2. One(c, Current(cycle))'
        BY <1>1, <1>2, <2>1, <3>1 DEF One
      <3> QED BY <2>2, <3>2, <1>2 DEF Shape, OfCycle
    <2>4. CASE One(c, Base(cycle))
      <3>1. Two(c, Base(cycle), Current(cycle))'
        BY <1>1, <1>2, <2>1, <2>4 DEF One, Two
      <3> QED BY <2>2, <3>1, <1>2 DEF Shape, OfCycle
    <2> QED BY <1>4, <2>3, <2>4 DEF HalfSent
  <1> QED BY <1>3, <1>4

LEMMA SentKeepsTraffic == Inv /\ Sent => Traffic'
  <1> SUFFICES ASSUME Inv, Sent PROVE Traffic'
    OBVIOUS
  <1>0. PICK u \in Conns : u = using
    BY SentChanges
  <1>1. /\ u = using /\ cpc = "sending" /\ part \in Kinds
        /\ UNCHANGED <<cycle, answers, wpc, base_frame, frame>>
        /\ UNCHANGED <<near, connected, socket_id>>
    BY <1>0, SentChanges, Apart
    DEF Sent, Sending, clientVars, serverVars, workerVars
  <1>2. cycle \in Cycles
    BY <1>1 DEF Inv, TypeOK, Numbered, Cycles
  <1>3. IF part = "base" THEN cpc' = "send" /\ part' = "current" /\ Clean(u)
                         ELSE /\ cpc' = "receive" /\ part' = "base"
                              /\ part = "current" /\ HalfSent(u)
    BY <1>1 DEF Sent, Sending, Inv, Traffic, InUse, Kinds
  <1>4. ASSUME NEW d \in Conns, d # u PROVE NoWorse(d)
    <2>1. stream'[d] = stream[d]
      BY <1>1, <1>4, SentChanges, Apart
    <2> QED BY <1>1, <2>1, Untouched
  <1>5. /\ Shape(u)'
        /\ part = "base" => HalfSent(u)'
        /\ part = "current" => OfCycle(u)'
    <2>1. CASE stream' = stream
      <3>1. NoWorse(u)
        BY <1>1, <2>1, Untouched
      <3> QED BY <1>1, <1>3, <3>1, Apart, CleanIsAll DEF NoWorse, Kinds, HalfSent,
              OfCycle
    <2>2. CASE /\ far[u] \in {"backlog", "open"}
               /\ stream' = [stream EXCEPT ![u] =
                                    stream[u] \o <<ThisFrame>>]
      <3>1. wpc[u] \in {"none", "base", "current", "reply"}
        BY <2>2 DEF Inv, Life, Alive
      <3>2. stream'[u] = stream[u] \o <<ThisFrame>>
        BY <1>1, <2>2, Apart
      <3> QED BY <1>1, <1>2, <1>3, <3>1, <3>2, FrameJoins DEF Kinds
    <2> QED BY <1>1, <2>1, <2>2, SentChanges
  <1>6. \A c \in Conns : Shape(c)'
    BY <1>4, <1>5, Apart DEF NoWorse
  <1>7. \A c \in Conns : near'[c] = "none" => Clean(c)'
    <2>1. near[u] = "none" => NoWorse(u)
      <3>1. near[u] = "none" => far[u] = "none"
        BY DEF Inv, Life
      <3> QED BY <1>1, <3>1, SentChanges, Untouched
    <2> QED BY <1>1, <1>4, <2>1, Apart DEF NoWorse
  <1>8. connected' => /\ cpc' = "send" => HalfSent(socket_id)'
                      /\ cpc' = "receive" => OfCycle(socket_id)'
    <2>1. CASE socket_id = u
      BY <1>1, <1>3, <1>5, <2>1 DEF Kinds
    <2>2. CASE connected /\ socket_id # u
      <3>1. Clean(socket_id) /\ socket_id \in Conns
        BY <1>1, <2>2, Apart DEF Inv, Traffic, InUse
      <3>2. Clean(socket_id)'
        BY <1>4, <2>2, <3>1, <1>1 DEF NoWorse
      <3>3. HalfSent(socket_id)' /\ OfCycle(socket_id)'
        BY <3>2 DEF Clean, HalfSent, OfCycle
      <3> QED BY <3>3
    <2> QED BY <1>1, <2>1, <2>2
  <1>9. InUse'
    BY <1>3, <1>7, <1>8 DEF InUse
  <1> QED BY <1>6, <1>9 DEF Traffic

\* An answer that is read was the last thing there was on its connection.
LEMMA AnswerRead ==
    ASSUME Inv, RecvAnswer, NEW u \in Conns, u = using
    PROVE  /\ answers[u] = <<cycle>> /\ None(u)
           /\ answers' = [answers EXCEPT ![u] = <<>>]
  <1>1. cpc = "recv" /\ answers[u] # <<>>
    BY DEF RecvAnswer
  <1>2. OfCycle(u)
    BY <1>1 DEF Inv, Traffic, InUse
  <1>3. answers[u] = <<cycle>> /\ None(u)
    BY <1>1, <1>2 DEF OfCycle
  <1>4. Tail(<<cycle>>) = <<>>
    <2>1. cycle \in {cycle}
      OBVIOUS
    <2> QED BY <2>1, ShortSequences
  <1> QED BY <1>3, <1>4 DEF RecvAnswer

LEMMA ClientKeepsTraffic == Inv /\ (MainThread \/ CyclesThread) => Traffic'
  <1> SUFFICES ASSUME Inv, MainThread \/ CyclesThread PROVE Traffic'
    OBVIOUS
  <1>1. ASSUME UNCHANGED <<wireVars, workerVars>>
        PROVE  /\ \A c \in Conns : Shape(c)'
               /\ \A c : Clean(c) => Clean(c)'
               /\ cycle' = cycle => \A c : /\ HalfSent(c) => HalfSent(c)'
                                           /\ OfCycle(c) => OfCycle(c)'
    <2>1. UNCHANGED <<stream, wpc, base_frame, frame, answers>>
      BY <1>1 DEF wireVars, workerVars
    <2>2. \A c : None(c)' = None(c)
      BY <2>1 DEF None
    <2>3. \A c : (Shape(c) => Shape(c)') /\ (Clean(c) => Clean(c)')
      BY <2>1 DEF Shape, Clean, None, One, Two, Base, Current
    <2>4. cycle' = cycle => \A c : NoWorse(c)
      BY <2>1, Untouched
    <2> QED BY <2>3, <2>4, Apart DEF NoWorse
  <1>2. InUse
    BY DEF Inv, Traffic
  <1>3. CASE Start
    <2>1. UNCHANGED <<wireVars, workerVars, cyclesVars, connected, socket_id, near>>
      BY <1>3 DEF Start, serverVars
    <2> QED BY <1>1, <1>2, <2>1 DEF Traffic, InUse, cyclesVars
  <1>4. CASE GiveUp \/ SendBreaks \/ RecvNothing
    <2>1. /\ Disconnect /\ UNCHANGED <<wireVars, workerVars, cycle>>
          /\ \/ cpc' = "idle"
             \/ UNCHANGED <<cpc, part, using>>
      BY <1>4 DEF GiveUp, SendBreaks, RecvNothing, BreakOff, serverVars, cyclesVars
    <2>2. \A c \in Conns : near'[c] = "none" => Clean(c)'
      BY <1>1, <2>1, NothingUp, Apart
    <2>3. CASE cpc' = "idle"
      BY <2>1, <2>2, <2>3, <1>1, NothingUp DEF Traffic, InUse
    <2>4. CASE UNCHANGED <<cpc, part, using>>
      <3>1. PICK u : u = using
        OBVIOUS
      <3>2. /\ cpc = "sending" =>
                IF part = "base" THEN Clean(u)' ELSE HalfSent(u)'
            /\ cpc = "recv" => OfCycle(u)'
        BY <1>1, <1>2, <2>1, <3>1 DEF InUse
      <3>3. u = using'
        BY <2>4, <3>1
      <3>4. InUse'
        BY <2>1, <2>2, <2>4, <3>2, <3>3, NothingUp DEF InUse
      <3> QED BY <1>1, <2>1, <3>4 DEF Traffic
    <2> QED BY <2>1, <2>3, <2>4
  <1>5. CASE Connect
    <2>1. PICK c \in Conns : /\ near[c] = "none" /\ socket_id' = c
                             /\ near' = [near EXCEPT ![c] = "up"]
      BY <1>5 DEF Connect
    <2>2. /\ UNCHANGED <<cyclesVars, wireVars, workerVars>>
          /\ cpc \in {"idle", "sending", "recv"}
      BY <1>5 DEF Connect
    <2>3. Clean(c)'
      BY <1>1, <2>1, <2>2, Apart
    <2>4. \A d \in Conns : near'[d] = "none" => near[d] = "none"
      BY <2>1 DEF Inv, TypeOK
    <2>5. \A d \in Conns : near'[d] = "none" => Clean(d)'
      BY <1>1, <2>2, <2>4, Apart
    <2>6. Clean(socket_id)'
      BY <2>1, <2>3
    <2>7. PICK u : u = using
      OBVIOUS
    <2>8. u = using' /\ UNCHANGED <<cpc, part, cycle>>
      BY <2>2, <2>7 DEF cyclesVars
    <2>9. /\ cpc = "sending" =>
                IF part = "base" THEN Clean(u)' ELSE HalfSent(u)'
          /\ cpc = "recv" => OfCycle(u)'
      BY <1>1, <1>2, <2>2, <2>7, <2>8 DEF InUse
    <2>10. InUse'
      BY <2>2, <2>5, <2>6, <2>8, <2>9 DEF InUse
    <2> QED BY <1>1, <2>2, <2>10 DEF Traffic
  <1>6. CASE Take
    <2>1. /\ cpc = "idle" /\ cpc' = "send"
          /\ UNCHANGED <<part, connected, socket_id, near, wireVars, workerVars>>
      BY <1>6 DEF Take, serverVars
    <2>2. part = "base"
      BY <2>1, Apart DEF Kinds
    <2>3. connected => Clean(socket_id)'
      BY <1>1, <1>2, <2>1 DEF InUse
    <2>4. InUse'
      BY <1>1, <2>1, <2>2, <2>3, Apart DEF InUse
    <2> QED BY <1>1, <2>1, <2>4 DEF Traffic
  <1>7. CASE Skip
    <2>1. /\ cpc' = "idle" /\ ~connected
          /\ UNCHANGED <<connected, near, wireVars, workerVars>>
      BY <1>7 DEF Skip, clientVars, serverVars
    <2> QED BY <1>1, <2>1, Apart DEF Traffic, InUse
  <1>8. CASE EnterSend \/ EnterRecv
    <2>1. /\ connected /\ using' = socket_id
          /\ UNCHANGED <<part, cycle, connected, socket_id, near, wireVars,
                         workerVars>>
      BY <1>8 DEF EnterSend, EnterRecv, clientVars, serverVars
    <2>2. \/ cpc = "send" /\ cpc' = "sending"
          \/ cpc = "receive" /\ cpc' = "recv"
      BY <1>8 DEF EnterSend, EnterRecv
    <2>3. PICK u : u = socket_id
      OBVIOUS
    <2>4. /\ cpc' = "sending" =>
                IF part = "base" THEN Clean(u)' ELSE HalfSent(u)'
          /\ cpc' = "recv" => OfCycle(u)'
      BY <1>1, <1>2, <2>1, <2>2, <2>3 DEF InUse
    <2>5. u = using' /\ u = socket_id'
      BY <2>1, <2>3
    <2>6. InUse'
      BY <1>1, <2>1, <2>2, <2>4, <2>5, Apart DEF InUse
    <2> QED BY <1>1, <2>1, <2>6 DEF Traffic
  <1>9. CASE Sent
    BY <1>9, SentKeepsTraffic
  <1>10. CASE RecvAnswer
    <2>1. PICK u \in Conns : u = using
      BY <1>10, Apart DEF RecvAnswer
    <2>2. /\ answers[u] = <<cycle>> /\ None(u)
          /\ answers' = [answers EXCEPT ![u] = <<>>]
      BY <1>10, <2>1, AnswerRead
    <2>3. /\ cpc' = "idle" /\ cpc = "recv"
          /\ UNCHANGED <<cycle, connected, socket_id, near, stream, wpc,
                         base_frame, frame>>
      BY <1>10 DEF RecvAnswer, clientVars, serverVars, workerVars
    <2>4. None(u)' /\ answers'[u] = <<>>
      BY <2>2, <2>3, Apart DEF None
    <2>5. Clean(u)' /\ Shape(u)'
      BY <2>4 DEF Clean, Shape
    <2>6. \A d \in Conns : d # u => NoWorse(d)
      BY <2>2, <2>3, Untouched
    <2>7. \A d \in Conns : Shape(d)'
      BY <2>5, <2>6, Apart DEF NoWorse
    <2>8. \A d \in Conns : Clean(d) => Clean(d)'
      BY <2>5, <2>6 DEF NoWorse
    <2>9. connected => Clean(socket_id)'
      <3>1. PICK s : s = socket_id
        OBVIOUS
      <3>2. connected => s \in Conns /\ (s # u => Clean(s))
        BY <1>2, <2>1, <2>3, <3>1, Apart DEF InUse
      <3>3. connected => Clean(s)'
        BY <2>5, <2>8, <3>2
      <3> QED BY <2>3, <3>1, <3>3
    <2>10. InUse'
      BY <2>3, <2>8, <2>9, Apart DEF InUse
    <2> QED BY <2>7, <2>10 DEF Traffic
  <1> QED BY <1>3, <1>4, <1>5, <1>6, <1>7, <1>8, <1>9, <1>10
          DEF MainThread, CyclesThread

LEMMA UnchangedKeepsTraffic == Inv /\ UNCHANGED vars => Traffic'
  <1> SUFFICES ASSUME Inv, UNCHANGED vars PROVE Traffic'
    OBVIOUS
  <1>1. /\ UNCHANGED <<cyclesVars, connected, socket_id, near>>
        /\ UNCHANGED <<stream, answers, wpc, base_frame, frame>>
    BY DEF vars, clientVars, wireVars, serverVars, workerVars
  <1>2. \A c : NoWorse(c)
    BY <1>1, Untouched DEF cyclesVars
  <1>3. \A c \in Conns : Shape(c)'
    BY <1>2, Apart DEF NoWorse
  <1>4. InUse'
    BY <1>1, <1>2 DEF Inv, Traffic, InUse, NoWorse, cyclesVars
  <1> QED BY <1>3, <1>4 DEF Traffic

-------------------------------------------------------------------------------
(* What is proved. *)

LEMMA InvStep == Inv /\ [Next]_vars => Inv'
  <1> SUFFICES ASSUME Inv, [Next]_vars PROVE Inv'
    OBVIOUS
  <1>1. \/ MainThread \/ CyclesThread
        \/ ServerSteps
        \/ UNCHANGED vars
    BY DEF Next, ServerSteps
  <1>2. TypeOK'
    <2>1. CASE UNCHANGED vars
      BY <2>1 DEF Inv, TypeOK, vars, cyclesVars, clientVars, wireVars,
         serverVars, acceptVars, workerVars
    <2> QED BY <1>1, <2>1, ClientStepsTyped, ServerStepsTyped
  <1>3. Traffic'
    BY <1>1, ClientKeepsTraffic, ServerKeepsTraffic, UnchangedKeepsTraffic
  <1> QED BY <1>2, <1>3, ObjectKept, LifeKept, DeliveredKept, OwnDescriptorKept
          DEF Inv

LEMMA Invariant == Spec => []Inv
  BY InvInit, InvStep, PTL DEF Spec

\* Every variable keeps its type: in particular no worker takes a frame from
\* a connection that has none.
THEOREM TypeCorrect == Spec => []TypeOK
  <1>1. Inv => TypeOK
    BY DEF Inv
  <1> QED BY <1>1, Invariant, PTL

\* A worker's descriptor number stands for the connection it was made for as
\* long as the worker lives, and no number stays taken when nobody owns it,
\* whatever numbers accept and socket hand out again.
THEOREM DescriptorsOwned == Spec => []OwnDescriptor
  <1>1. Inv => OwnDescriptor
    BY DEF Inv
  <1> QED BY <1>1, Invariant, PTL

\* The two frames a worker compares are the base frame and the current frame
\* of one cycle.
THEOREM FramesPaired == Spec => []Paired
  <1>1. Inv => Paired
    <2> SUFFICES ASSUME Inv, NEW c \in Conns, wpc[c] = "reply"
                 PROVE  /\ base_frame[c].kind = "base"
                        /\ frame[c].kind = "current"
                        /\ base_frame[c].cycle = frame[c].cycle
      BY DEF Paired
    <2>1. Shape(c)
      BY DEF Inv, Traffic
    <2>2. PICK k \in Cycles : Two(c, Base(k), Current(k))
      BY <2>1 DEF Shape, None, One
    <2>3. base_frame[c] = Base(k) /\ frame[c] = Current(k)
      BY <2>2 DEF Two
    <2> QED BY <2>3 DEF Base, Current
  <1> QED BY <1>1, Invariant, PTL

\* The answer a cycle reads is the answer to the frames of that cycle: an
\* answer leaves a connection only when the cycles thread reads it, and then
\* everything on the connection is of the cycle under way.
THEOREM AnswersInStep == Spec => AnswerInStep
  <1>1. ASSUME Inv, [Next]_vars, NEW c \in Conns,
               Len(answers'[c]) < Len(answers[c])
        PROVE  Head(answers[c]) = cycle
    <2>1. answers \in [Conns -> Seq(0 .. MaxCycles)] /\ Len(answers[c]) \in Nat
      BY <1>1 DEF Inv, TypeOK
    <2>2. answers' # answers
      BY <1>1, <2>1
    <2>3. ASSUME NEW d \in Conns, Reply(d) PROVE FALSE
      <3>1. answers' = [answers EXCEPT ![d] =
                            Append(answers[d], base_frame[d].cycle)]
        BY <1>1, <2>2, <2>3, Replies
      <3>2. c = d /\ answers'[c] = Append(answers[c], base_frame[c].cycle)
        BY <1>1, <2>1, <3>1
      <3>3. base_frame[c].cycle \in 0 .. MaxCycles
        BY <1>1, CountAssumption DEF Inv, TypeOK, Frames, NoFrame
      <3>4. Len(answers'[c]) = Len(answers[c]) + 1
        BY <2>1, <3>2, <3>3
      <3> QED BY <1>1, <2>1, <3>4
    <2>4. ASSUME NEW d \in Conns, Worker(d), ~Reply(d) PROVE answers' = answers
      BY <1>1, <2>4, WorkerSteps, Receives, Closes
    <2>5. RecvAnswer
      BY <1>1, <2>2, <2>3, <2>4
      DEF Next, MainThread, CyclesThread, AcceptLoop, Start, GiveUp, Connect, Take,
          Skip, EnterSend, Sent, Sending, SendBreaks, EnterRecv, RecvNothing,
          BreakOff, Listen, Accept, AcceptFails, Arrive, vars, wireVars
    <2>6. PICK u \in Conns : u = using
      BY <1>1, <2>5, Apart DEF RecvAnswer
    <2>7. answers[u] = <<cycle>> /\ answers' = [answers EXCEPT ![u] = <<>>]
      BY <1>1, <2>5, <2>6, AnswerRead
    <2>8. c = u
      BY <1>1, <2>1, <2>7
    <2>9. Head(<<cycle>>) = cycle
      OBVIOUS
    <2> QED BY <2>7, <2>8, <2>9
  <1>2. Inv /\ [Next]_vars =>
          [\A c \in Conns :
              Len(answers'[c]) < Len(answers[c]) => Head(answers[c]) = cycle]_vars
    BY <1>1
  <1> QED BY <1>2, Invariant, PTL DEF Spec, AnswerInStep
===============================================================================

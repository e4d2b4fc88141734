-------------------------------- MODULE Motion --------------------------------
(***************************************************************************)
(* The motion detection service: a server process                          *)
(* (src/src/server/server.cpp over ServerTCP::multithread_listen_on), with *)
(* a worker thread for every connection it accepts, and a client whose     *)
(* application (src/src/client/motion_detection_application) sends it two  *)
(* frames a cycle, the base frame and the current one, and reads back the  *)
(* number of contours that differ.                                         *)
(*                                                                         *)
(* A frame is larger than a segment: it arrives piece by piece.  The       *)
(* server holds a descriptor table of its own; a worker knows its          *)
(* connection by a descriptor number only, and close() frees the number    *)
(* whatever the table holds there.  The client is that of ClientLoop, its  *)
(* main thread reduced to what the cycles thread sees of it: it starts     *)
(* cycles, gives the connection up at any moment and makes a new one after *)
(* a second's sleep, by when the cycles thread has got through every step  *)
(* that does not block.                                                    *)
(***************************************************************************)
EXTENDS Integers, Sequences, FiniteSets

CONSTANTS
    Conns,          \* the connections the client makes, in turn
    Fds,            \* the server's descriptors that are not open for good
    Pieces,         \* pieces a frame arrives in
    MaxCycles       \* bound on the cycles of the client

ASSUME ConnsAssumption == Conns \subseteq Nat \ {0}
ASSUME FdsAssumption == Fds \subseteq Nat \ {0}
ASSUME CountAssumption == Pieces \in Nat \ {0} /\ MaxCycles \in Nat

VARIABLES
    \* client: the cycles thread and what it shares with the main thread
    \* (part is the frame to send next, using the socket of the send or recv
    \* the cycles thread is inside)
    cpc, part, using, cycle, connected, socket_id, should_start,
    \* the client's end and the server's end of each connection
    near, far,
    \* what is under way: frames, pieces of them that have arrived, answers
    stream, arrived, answers,
    \* server: the accept loop, the descriptor table and the workers
    lpc, socket_server, table, wpc, wsocket, base_frame, frame

cyclesVars == <<cpc, part, using, cycle>>
clientVars == <<connected, socket_id, should_start, near>>
wireVars == <<stream, arrived, answers>>
acceptVars == <<lpc, socket_server>>
workerVars == <<wpc, wsocket, base_frame, frame>>
serverVars == <<acceptVars, far, table, workerVars>>
vars == <<cyclesVars, clientVars, wireVars, serverVars>>

NoConn == 0
NoFd == 0
Free == -1          \* what the table holds at a number that is not open
Listener == 0       \* ... and at the number of the listening socket

Kinds == {"base", "current"}
Frames == [cycle : 1 .. MaxCycles, kind : Kinds]
NoFrame == [cycle |-> 0, kind |-> "none"]

Init ==
    /\ cpc = "idle" /\ part = "base" /\ using = NoConn /\ cycle = 0
    /\ connected = FALSE /\ socket_id = NoConn /\ should_start = FALSE
    /\ near = [c \in Conns |-> "none"] /\ far = [c \in Conns |-> "none"]
    /\ stream = [c \in Conns |-> <<>>] /\ arrived = [c \in Conns |-> 0]
    /\ answers = [c \in Conns |-> <<>>]
    /\ lpc = "listen" /\ socket_server = NoFd
    /\ table = [f \in Fds |-> Free]
    /\ wpc = [c \in Conns |-> "none"] /\ wsocket = [c \in Conns |-> NoFd]
    /\ base_frame = [c \in Conns |-> NoFrame]
    /\ frame = [c \in Conns |-> NoFrame]

-------------------------------------------------------------------------------
(* The client's main thread. *)

Start ==
    /\ connected /\ ~should_start /\ cycle < MaxCycles
    /\ should_start' = TRUE
    /\ UNCHANGED <<cyclesVars, connected, socket_id, near, wireVars,
                   serverVars>>

Up(c) == c \in Conns /\ near[c] = "up"

\* disconnect, by either thread: the flag and the connection the object
\* stands for now.
Disconnect ==
    /\ connected' = FALSE
    /\ near' = IF Up(socket_id)
               THEN [near EXCEPT ![socket_id] = "closed"] ELSE near
    /\ UNCHANGED <<socket_id, should_start>>

GiveUp ==
    /\ connected
    /\ Disconnect
    /\ UNCHANGED <<cyclesVars, wireVars, serverVars>>

\* sleep(1), then connect_to: the kernel of the server completes the
\* connection while the process listens, before accept returns it.
Connect ==
    /\ ~connected /\ lpc = "accept"
    /\ cpc \in {"sending", "recv"} \/ (cpc = "idle" /\ ~should_start)
    /\ \E c \in Conns :
        /\ near[c] = "none" /\ \A d \in Conns : near[d] = "none" => c <= d
        /\ near' = [near EXCEPT ![c] = "up"]
        /\ far' = [far EXCEPT ![c] = "backlog"]
        /\ socket_id' = c
    /\ connected' = TRUE
    /\ UNCHANGED <<cyclesVars, should_start, wireVars, acceptVars, table,
                   workerVars>>

MainThread == Start \/ GiveUp \/ Connect

-------------------------------------------------------------------------------
(* The client's cycles thread: run_one_cycle. *)

Take ==
    /\ cpc = "idle" /\ should_start
    /\ should_start' = FALSE
    /\ cpc' = "send" /\ cycle' = cycle + 1
    /\ UNCHANGED <<part, using, connected, socket_id, near, wireVars,
                   serverVars>>

\* The cycle, a send_data or receive_data finds the object disconnected.
Skip ==
    /\ cpc \in {"send", "receive"} /\ ~connected
    /\ cpc' = "idle" /\ part' = "base"
    /\ UNCHANGED <<using, cycle, clientVars, wireVars, serverVars>>

\* send may block while the buffers are full; the other thread goes on, and
\* may close the connection under it.
EnterSend ==
    /\ cpc = "send" /\ connected
    /\ cpc' = "sending" /\ using' = socket_id
    /\ UNCHANGED <<part, cycle, clientVars, wireVars, serverVars>>

Sending(frames) ==
    /\ cpc = "sending"
    /\ stream' = IF far[using] \in {"backlog", "open"}
                 THEN [stream EXCEPT ![using] = @ \o frames] ELSE stream
    /\ using' = NoConn
    /\ IF part = "base" THEN cpc' = "send" /\ part' = "current"
                        ELSE cpc' = "receive" /\ part' = "base"
    /\ UNCHANGED <<cycle, clientVars, arrived, answers, serverVars>>

ThisFrame == [cycle |-> cycle, kind |-> part]

\* Mutant of Sent: a frame that does not fit the buffers ends the cycle and
\* keeps the connection.
SentOrSkipped ==
    \/ Sending(<<ThisFrame>>)
    \/ /\ cpc = "sending" /\ cpc' = "idle" /\ part' = "base" /\ using' = NoConn
       /\ UNCHANGED <<cycle, clientVars, wireVars, serverVars>>

\* The frame is on its way, or lost with a connection the server has closed.
Sent == Sending(<<ThisFrame>>)

\* The call fails: the connection the object stands for now is closed, which
\* need not be the one the call was made on.
BreakOff ==
    /\ Disconnect
    /\ cpc' = "idle" /\ part' = "base" /\ using' = NoConn
    /\ UNCHANGED <<cycle, wireVars, serverVars>>

SendBreaks == cpc = "sending" /\ far[using] = "closed" /\ BreakOff

\* Mutant of EnterRecv: a receive may give up when its time limit has passed.
EnterRecvInTime ==
    /\ cpc = "receive" /\ connected
    /\ \/ cpc' = "recv" /\ using' = socket_id
       \/ cpc' = "idle" /\ UNCHANGED using
    /\ UNCHANGED <<part, cycle, clientVars, wireVars, serverVars>>

\* The answer is ready or the time limit has passed: either way recv.
EnterRecv ==
    /\ cpc = "receive" /\ connected
    /\ cpc' = "recv" /\ using' = socket_id
    /\ UNCHANGED <<part, cycle, clientVars, wireVars, serverVars>>

RecvAnswer ==
    /\ cpc = "recv" /\ answers[using] # <<>>
    /\ answers' = [answers EXCEPT ![using] = Tail(@)]
    /\ cpc' = "idle" /\ using' = NoConn
    /\ UNCHANGED <<part, cycle, clientVars, stream, arrived, serverVars>>

RecvNothing ==
    /\ cpc = "recv" /\ answers[using] = <<>> /\ far[using] = "closed"
    /\ BreakOff

CyclesThread ==
    \/ Take \/ Skip \/ EnterSend \/ Sent \/ SendBreaks
    \/ EnterRecv \/ RecvAnswer \/ RecvNothing

\* The network delivers one more piece to the server's host.
Arrive(c) ==
    /\ far[c] \in {"backlog", "open"}
    /\ arrived[c] < Pieces * Len(stream[c])
    /\ arrived' = [arrived EXCEPT ![c] = @ + 1]
    /\ UNCHANGED <<cyclesVars, clientVars, stream, answers, serverVars>>

-------------------------------------------------------------------------------
(* The server's main thread: multithread_listen_on, again and again. *)

Lowest(f) == table[f] = Free /\ \A g \in Fds : table[g] = Free => f <= g
Waits(c) == far[c] = "backlog"
Full == \A f \in Fds : table[f] # Free

\* Without a free number socket() fails and main tries again.
Listen ==
    /\ lpc = "listen" /\ lpc' = "accept"
    /\ \E f \in Fds :
        /\ Lowest(f)
        /\ socket_server' = f
        /\ table' = [table EXCEPT ![f] = Listener]
    /\ UNCHANGED <<cyclesVars, clientVars, wireVars, far, workerVars>>

Accept(c) ==
    /\ lpc = "accept" /\ Waits(c)
    /\ \E f \in Fds :
        /\ Lowest(f)
        /\ table' = [table EXCEPT ![f] = c]
        /\ wsocket' = [wsocket EXCEPT ![c] = f]
    /\ far' = [far EXCEPT ![c] = "open"]
    /\ wpc' = [wpc EXCEPT ![c] = "base"]
    /\ UNCHANGED <<cyclesVars, clientVars, wireVars, acceptVars,
                   base_frame, frame>>

\* The process has as many descriptors as it may: the listening socket is
\* closed, with the connections that wait in its backlog.
AcceptFails ==
    /\ lpc = "accept" /\ Full
    /\ lpc' = "listen"
    /\ table' = [table EXCEPT ![socket_server] = Free]
    /\ socket_server' = NoFd
    /\ far' = [c \in Conns |-> IF Waits(c) THEN "closed" ELSE far[c]]
    /\ stream' = [c \in Conns |-> IF Waits(c) THEN <<>> ELSE stream[c]]
    /\ arrived' = [c \in Conns |-> IF Waits(c) THEN 0 ELSE arrived[c]]
    /\ UNCHANGED <<cyclesVars, clientVars, answers, workerVars>>

AcceptLoop == Listen \/ AcceptFails \/ \E c \in Conns : Accept(c)

-------------------------------------------------------------------------------
(* A worker: motion_application_thread, for the connection c it was made for; *)
(* s is the connection its number stands for.                                 *)

At(c) == IF wsocket[c] \in Fds THEN table[wsocket[c]] ELSE Free
Alive(c) == wpc[c] \in {"base", "current", "reply"}

\* What a closed connection had received is dropped, and the thread's frames.
Closing(c) ==
    /\ table' = [table EXCEPT ![wsocket[c]] = Free]
    /\ IF At(c) \in Conns
       THEN /\ far' = [far EXCEPT ![At(c)] = "closed"]
            /\ stream' = [stream EXCEPT ![At(c)] = <<>>]
            /\ arrived' = [arrived EXCEPT ![At(c)] = 0]
       ELSE UNCHANGED <<far, stream, arrived>>
    /\ base_frame' = [base_frame EXCEPT ![c] = NoFrame]
    /\ frame' = [frame EXCEPT ![c] = NoFrame]
    /\ UNCHANGED <<cyclesVars, clientVars, answers, acceptVars>>

\* Mutant of CloseAndEnd: the connection object is deleted after it has been
\* disconnected, and its destructor disconnects again; the number may be
\* another's by then.
CloseAndDelete(c) ==
    /\ Closing(c) /\ UNCHANGED wsocket
    /\ wpc' = [wpc EXCEPT ![c] = IF At(c) = c THEN "reply" ELSE "ended"]

\* disconnect, and the loop of the thread ends; nobody keeps the number.
CloseAndEnd(c) ==
    /\ Closing(c)
    /\ wpc' = [wpc EXCEPT ![c] = "ended"]
    /\ wsocket' = [wsocket EXCEPT ![c] = NoFd]

\* Mutant of Whole: anything that has arrived is read.
Some(s) == s \in Conns /\ arrived[s] >= 1

\* receive_data_exact_size waits until a whole frame is there to be read.
Whole(s) == s \in Conns /\ arrived[s] >= Pieces

Receive(c, into) ==
    /\ wpc[c] = into /\ Whole(At(c))
    /\ stream' = [stream EXCEPT ![At(c)] = Tail(@)]
    /\ arrived' = [arrived EXCEPT ![At(c)] = @ - Pieces]
    /\ UNCHANGED <<cyclesVars, clientVars, answers, acceptVars, far,
                   table, wsocket>>

ReceiveBase(c) ==
    /\ Receive(c, "base")
    /\ base_frame' = [base_frame EXCEPT ![c] = Head(stream[At(c)])]
    /\ wpc' = [wpc EXCEPT ![c] = "current"]
    /\ UNCHANGED frame

ReceiveCurrent(c) ==
    /\ Receive(c, "current")
    /\ frame' = [frame EXCEPT ![c] = Head(stream[At(c)])]
    /\ wpc' = [wpc EXCEPT ![c] = "reply"]
    /\ UNCHANGED base_frame

\* Mutant of TimeOut: as in receive_data_exact_size_no_timeout, a worker
\* waits for the frame for ever.
TimeOutNever(c) == Alive(c) /\ ~(At(c) \in Conns) /\ CloseAndEnd(c)

\* The frame is not whole in time: connection given up.
TimeOut(c) ==
    /\ wpc[c] \in {"base", "current"} /\ ~Whole(At(c))
    /\ CloseAndEnd(c)

\* The contours of the two frames are counted and the number sent, in vain
\* if the client has closed its end.
Reply(c) ==
    /\ wpc[c] = "reply" /\ At(c) \in Conns
    /\ answers' =
            IF Up(At(c)) \/ using = At(c)
            THEN [answers EXCEPT ![At(c)] = Append(@, base_frame[c].cycle)]
            ELSE answers
    /\ wpc' = [wpc EXCEPT ![c] = "base"]
    /\ UNCHANGED <<cyclesVars, clientVars, stream, arrived, acceptVars,
                   far, table, wsocket, base_frame, frame>>

\* The client's end is closed and the send of the answer fails.
ReplyFails(c) ==
    /\ wpc[c] = "reply"
    /\ At(c) \in Conns => near[At(c)] = "closed"
    /\ CloseAndEnd(c)

Worker(c) ==
    \/ ReceiveBase(c) \/ ReceiveCurrent(c) \/ TimeOut(c)
    \/ Reply(c) \/ ReplyFails(c)

-------------------------------------------------------------------------------
Next ==
    \/ MainThread \/ CyclesThread \/ AcceptLoop
    \/ \E c \in Conns : Arrive(c) \/ Worker(c)

Spec == Init /\ [][Next]_vars

\* Threads of the server are scheduled: a worker that can go on does, and
\* its time limit passes.  Nothing is assumed of the client or the network.
FairSpec == Spec /\ \A c \in Conns : WF_vars(Worker(c))

-------------------------------------------------------------------------------
(* What the service promises. *)

\* Every variable keeps its type.
TypeOK ==
    /\ cpc \in {"idle", "send", "sending", "receive", "recv"} /\ part \in Kinds
    /\ {using, socket_id} \subseteq Conns \union {NoConn}
    /\ cycle \in 0 .. MaxCycles
    /\ connected \in BOOLEAN /\ should_start \in BOOLEAN
    /\ near \in [Conns -> {"none", "up", "closed"}]
    /\ far \in [Conns -> {"none", "backlog", "open", "closed"}]
    /\ stream \in [Conns -> Seq(Frames)]
    /\ arrived \in [Conns -> Nat]
    /\ answers \in [Conns -> Seq(0 .. MaxCycles)]
    /\ lpc \in {"listen", "accept"} /\ socket_server \in Fds \union {NoFd}
    /\ table \in [Fds -> Conns \union {Listener, Free}]
    /\ wpc \in [Conns -> {"none", "base", "current", "reply", "ended"}]
    /\ wsocket \in [Conns -> Fds \union {NoFd}]
    /\ base_frame \in [Conns -> Frames \union {NoFrame}]
    /\ frame \in [Conns -> Frames \union {NoFrame}]

\* A descriptor number stands for one connection as long as its owner may use
\* it, and for none when nobody does: no worker reads from, answers on or
\* closes the connection of another, and none leaves its number open.
OwnDescriptor ==
    /\ \A c \in Conns : Alive(c) => wsocket[c] \in Fds /\ At(c) = c
    /\ lpc = "accept" =>
            socket_server \in Fds /\ table[socket_server] = Listener
    /\ \A f \in Fds :
        /\ table[f] = Listener => lpc = "accept" /\ socket_server = f
        /\ table[f] \in Conns => Alive(table[f]) /\ wsocket[table[f]] = f

\* The two frames a worker compares are the base frame and the current frame
\* of one cycle, however the connection was lost and made while the client
\* sent them by two calls.
Paired ==
    \A c \in Conns : wpc[c] = "reply" =>
        /\ base_frame[c].kind = "base" /\ frame[c].kind = "current"
        /\ base_frame[c].cycle = frame[c].cycle

\* The answer a cycle reads is the answer to the frames of that cycle.
AnswerInStep ==
    [][\A c \in Conns :
        Len(answers'[c]) < Len(answers[c]) => Head(answers[c]) = cycle]_vars

\* A worker whose client has closed the connection ends, and gives its
\* descriptor back, though nobody tells it that the client is gone.
WorkerEnds ==
    \A c \in Conns : near[c] = "closed" /\ Alive(c) ~> ~Alive(c)
===============================================================================

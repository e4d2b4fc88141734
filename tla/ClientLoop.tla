------------------------------ MODULE ClientLoop ------------------------------
(***************************************************************************)
(* One client (src/src/client/client.cpp) with its simulated application   *)
(* (src/src/client/simulated_application/application.cpp).  The main       *)
(* thread asks the master, connects to a server, starts cycles and scores  *)
(* them; the cycles thread exchanges one request and one answer with the   *)
(* server per cycle.  Both use the same ClientTCP object, of which only    *)
(* the members `connected' and `socket_id' are kept here: every call reads *)
(* them anew, and a thread that is inside send or recv stays on the socket *)
(* it made the call on, even after the other thread has closed it.         *)
(*                                                                         *)
(* Deadlines and time limits pass at any moment, with one exception: while *)
(* the main thread sleeps a second before it asks the master, the cycles   *)
(* thread gets through every step that does not block (Awake).             *)
(*                                                                         *)
(* The servers are those of src/src/server/old/server_simulated: they      *)
(* answer a request with one byte and close a connection that has been     *)
(* quiet for two seconds.                                                  *)
(***************************************************************************)
EXTENDS Integers

CONSTANTS
    Sockets,        \* open file descriptions the kernel has for this object
    MaxScore        \* max_connection_score

ASSUME SocketsAssumption == Sockets \subseteq Nat \ {0} /\ Sockets # {}
ASSUME ScoreAssumption == MaxScore \in Nat /\ MaxScore >= 2

VARIABLES
    \* main thread
    mpc, connection_score, connection_first_loop, disconnection_first_loop,
    missed_latest_end_time,
    \* cycles thread; using is the socket of the send or recv it is inside
    cpc, using,
    \* shared by the two
    connected, socket_id, should_start, finished,
    \* kernel and server, per socket
    state, peer, due, inbox,
    \* which start() the cycle under way belongs to, and whether a cycle of
    \* the last start() got its answer: observers, read by no step
    own, answered

mainVars == <<mpc, connection_score, connection_first_loop,
              disconnection_first_loop, missed_latest_end_time>>
cyclesVars == <<cpc, using>>
appVars == <<should_start, finished>>
tcpVars == <<connected, socket_id>>
netVars == <<state, peer, due, inbox>>
obsVars == <<own, answered>>
vars == <<mainVars, cyclesVars, appVars, tcpVars, netVars, obsVars>>

NoSocket == 0

Init ==
    /\ mpc = "loop" /\ connection_score = 0
    /\ connection_first_loop = TRUE /\ disconnection_first_loop = TRUE
    /\ missed_latest_end_time = FALSE
    /\ cpc = "idle" /\ using = NoSocket
    /\ should_start = FALSE /\ finished = TRUE
    /\ connected = FALSE /\ socket_id = NoSocket
    /\ state = [s \in Sockets |-> "free"]
    /\ peer = [s \in Sockets |-> "gone"]
    /\ due = [s \in Sockets |-> 0]
    /\ inbox = [s \in Sockets |-> 0]
    /\ own = FALSE /\ answered = FALSE

-------------------------------------------------------------------------------
(* ClientTCP. *)

\* The description of a closed socket lives on while a call is inside it.
Released(s) == IF cpc \in {"sending", "recv"} /\ using = s THEN "orphan" ELSE "free"

\* disconnect: the flag and the descriptor the object holds now, whoever
\* calls it and whatever for.
Disconnect(released) ==
    /\ connected' = FALSE
    /\ IF socket_id \in Sockets /\ state[socket_id] \in {"connecting", "up"}
       THEN state' = [state EXCEPT ![socket_id] = released]
       ELSE UNCHANGED state
    /\ UNCHANGED <<socket_id, peer, due, inbox>>

Open(s) == s \in Sockets /\ state[s] \in {"connecting", "up"}

-------------------------------------------------------------------------------
(* The main thread. *)

\* The branch without a connection; the first pass logs the score.
LoopDisconnected ==
    /\ mpc = "loop" /\ ~connected
    /\ mpc' = "sleep"
    /\ connection_first_loop' = TRUE
    /\ disconnection_first_loop' = FALSE
    /\ connection_score' = IF disconnection_first_loop THEN 0 ELSE connection_score
    /\ UNCHANGED <<missed_latest_end_time, cyclesVars, appVars, tcpVars,
                   netVars, obsVars>>

\* sleep(1): by now the cycles thread waits for a start or is inside a call.
Awake ==
    /\ mpc = "sleep"
    /\ cpc \in {"sending", "recv"} \/ (cpc = "idle" /\ ~should_start)
    /\ mpc' = "ask"
    /\ UNCHANGED <<connection_score, connection_first_loop,
                   disconnection_first_loop, missed_latest_end_time,
                   cyclesVars, appVars, tcpVars, netVars, obsVars>>

\* No answer of the master, port 0, or no such host.
NoServer ==
    /\ mpc = "ask" /\ mpc' = "loop"
    /\ UNCHANGED <<connection_score, connection_first_loop,
                   disconnection_first_loop, missed_latest_end_time,
                   cyclesVars, appVars, tcpVars, netVars, obsVars>>

\* The master names a server: connect_to creates a socket.
Dial ==
    /\ mpc = "ask" /\ ~connected
    /\ \E s \in Sockets :
        /\ state[s] = "free"
        /\ socket_id' = s
        /\ state' = [state EXCEPT ![s] = "connecting"]
        /\ peer' = [peer EXCEPT ![s] = "gone"]
        /\ due' = [due EXCEPT ![s] = 0]
        /\ inbox' = [inbox EXCEPT ![s] = 0]
    /\ mpc' = "connect"
    /\ UNCHANGED <<connection_score, connection_first_loop,
                   disconnection_first_loop, missed_latest_end_time,
                   cyclesVars, appVars, connected, obsVars>>

\* The last thing connect_to does is to raise `connected', whatever another
\* thread did to the descriptor in between.
ConnectSucceeds ==
    /\ mpc = "connect"
    /\ mpc' = "loop"
    /\ connected' = TRUE
    /\ state' = [state EXCEPT ![socket_id] = IF Open(socket_id) THEN "up" ELSE @]
    /\ peer' = [peer EXCEPT ![socket_id] = "serving"]
    /\ UNCHANGED <<connection_score, connection_first_loop,
                   disconnection_first_loop, missed_latest_end_time,
                   cyclesVars, appVars, socket_id, due, inbox, obsVars>>

\* No host, no answer in 5 s, refused, or closed under our feet.  The
\* descriptor is left open and lost; its number is not used here again.
ConnectFails ==
    /\ mpc = "connect" /\ mpc' = "loop"
    /\ state' = [state EXCEPT ![socket_id] = Released(socket_id)]
    /\ UNCHANGED <<connection_score, connection_first_loop,
                   disconnection_first_loop, missed_latest_end_time,
                   cyclesVars, appVars, tcpVars, peer, due, inbox, obsVars>>

\* The branch with a connection; start() first raises should_start ...
LoopConnected ==
    /\ mpc = "loop" /\ connected
    /\ mpc' = "start"
    /\ should_start' = TRUE
    /\ own' = FALSE /\ answered' = FALSE
    /\ UNCHANGED <<connection_score, connection_first_loop,
                   disconnection_first_loop, missed_latest_end_time,
                   cyclesVars, finished, tcpVars, netVars>>

\* ... and then lowers finished.  A new connection starts at half the score.
Started ==
    /\ mpc = "start" /\ mpc' = "wait"
    /\ finished' = FALSE
    /\ disconnection_first_loop' = TRUE
    /\ connection_first_loop' = FALSE
    /\ connection_score' = IF connection_first_loop
                           THEN MaxScore \div 2 ELSE connection_score
    /\ missed_latest_end_time' = FALSE
    /\ UNCHANGED <<cyclesVars, should_start, tcpVars, netVars, obsVars>>

SeeFinished ==
    /\ mpc = "wait" /\ finished /\ mpc' = "judge"
    /\ UNCHANGED <<connection_score, connection_first_loop,
                   disconnection_first_loop, missed_latest_end_time,
                   cyclesVars, appVars, tcpVars, netVars, obsVars>>

\* Mutant of Judge: the score may exceed its maximum by one.
JudgeOffByOne ==
    /\ mpc = "judge" /\ mpc' = "loop"
    /\ connection_score' =
            IF connected /\ ~missed_latest_end_time /\ connection_score <= MaxScore
            THEN connection_score + 1 ELSE connection_score
    /\ UNCHANGED <<connection_first_loop, disconnection_first_loop,
                   missed_latest_end_time, cyclesVars, appVars, tcpVars,
                   netVars, obsVars>>

\* "application finished successfully": the score rises if no deadline was
\* missed meanwhile.
Judge ==
    /\ mpc = "judge" /\ mpc' = "loop"
    /\ connection_score' =
            IF connected /\ ~missed_latest_end_time /\ connection_score < MaxScore
            THEN connection_score + 1 ELSE connection_score
    /\ UNCHANGED <<connection_first_loop, disconnection_first_loop,
                   missed_latest_end_time, cyclesVars, appVars, tcpVars,
                   netVars, obsVars>>

\* Mutant of MissDeadline: the score is lowered once per cycle only.
MissDeadlineOnce ==
    /\ mpc = "wait" /\ ~finished /\ connection_score > 1
    /\ connection_score' = IF missed_latest_end_time THEN connection_score
                           ELSE connection_score - 1
    /\ missed_latest_end_time' = TRUE
    /\ UNCHANGED <<mpc, connection_first_loop, disconnection_first_loop,
                   cyclesVars, appVars, tcpVars, netVars, obsVars>>

\* A latest end time passes before the application has finished.
MissDeadline ==
    /\ mpc = "wait" /\ ~finished /\ connection_score > 1
    /\ connection_score' = connection_score - 1
    /\ missed_latest_end_time' = TRUE
    /\ UNCHANGED <<mpc, connection_first_loop, disconnection_first_loop,
                   cyclesVars, appVars, tcpVars, netVars, obsVars>>

\* Mutant of GiveUp: the wait goes on after the connection is given up.
GiveUpWaiting ==
    /\ mpc = "wait" /\ ~finished /\ connection_score <= 1
    /\ connection_score' = connection_score - 1
    /\ missed_latest_end_time' = TRUE
    /\ Disconnect(Released(socket_id))
    /\ UNCHANGED <<mpc, connection_first_loop, disconnection_first_loop,
                   cyclesVars, appVars, obsVars>>

\* The last one: "delay is too large, disconnecting".
GiveUp ==
    /\ mpc = "wait" /\ ~finished /\ connection_score <= 1
    /\ connection_score' = connection_score - 1
    /\ missed_latest_end_time' = TRUE
    /\ Disconnect(Released(socket_id))
    /\ mpc' = "loop"
    /\ UNCHANGED <<connection_first_loop, disconnection_first_loop,
                   cyclesVars, appVars, obsVars>>

MainThread ==
    \/ LoopDisconnected \/ Awake \/ NoServer \/ Dial
    \/ ConnectSucceeds \/ ConnectFails
    \/ LoopConnected \/ Started \/ SeeFinished \/ Judge
    \/ MissDeadline \/ GiveUp

-------------------------------------------------------------------------------
(* The cycles thread. *)

Take ==
    /\ cpc = "idle" /\ should_start
    /\ should_start' = FALSE
    /\ cpc' = "send"
    /\ own' = TRUE
    /\ UNCHANGED <<mainVars, using, finished, tcpVars, netVars, answered>>

\* run_one_cycle, send_data or receive_data find the object disconnected.
SkipCycle ==
    /\ cpc \in {"send", "receive"} /\ ~connected
    /\ cpc' = "finish"
    /\ UNCHANGED <<mainVars, using, appVars, tcpVars, netVars, obsVars>>

\* send on a descriptor the other thread has closed.
SendRefused ==
    /\ cpc = "send" /\ connected /\ ~Open(socket_id)
    /\ Disconnect("free")
    /\ cpc' = "finish"
    /\ UNCHANGED <<mainVars, using, appVars, obsVars>>

\* send blocks while the buffers of the connection are full.
EnterSend ==
    /\ cpc = "send" /\ connected /\ Open(socket_id)
    /\ cpc' = "sending"
    /\ using' = socket_id
    /\ UNCHANGED <<mainVars, appVars, tcpVars, netVars, obsVars>>

\* What becomes of a socket a call returns from: an orphan is released.
Leave(s) == IF state[s] = "orphan" THEN "free" ELSE state[s]

Sent ==
    /\ cpc = "sending"
    /\ due' = [due EXCEPT ![using] = IF peer[using] = "serving" THEN @ + 1 ELSE @]
    /\ state' = [state EXCEPT ![using] = Leave(using)]
    /\ cpc' = "receive" /\ using' = NoSocket
    /\ UNCHANGED <<mainVars, appVars, tcpVars, peer, inbox, obsVars>>

\* A send or recv fails, or recv returns nothing: the call leaves its socket,
\* and disconnect closes the one the object stands for now.
BreakOff ==
    /\ connected' = FALSE
    /\ state' = [s \in Sockets |-> IF s \in {using, socket_id} THEN "free" ELSE state[s]]
    /\ cpc' = "finish" /\ using' = NoSocket
    /\ UNCHANGED <<mainVars, appVars, socket_id, peer, due, inbox, obsVars>>

SendBreaks == cpc = "sending" /\ peer[using] = "gone" /\ BreakOff

EnterReceive ==
    /\ cpc = "receive" /\ connected
    /\ cpc' = "poll"
    /\ UNCHANGED <<mainVars, using, appVars, tcpVars, netVars, obsVars>>

\* ioctl on a descriptor the other thread has closed.
PollFails ==
    /\ cpc = "poll" /\ ~Open(socket_id)
    /\ Disconnect("free")
    /\ cpc' = "finish"
    /\ UNCHANGED <<mainVars, using, appVars, obsVars>>

\* Mutant of EnterRecv: a receive may give up when its time limit has passed.
EnterRecvInTime ==
    /\ cpc = "poll" /\ Open(socket_id)
    /\ \/ cpc' = "recv" /\ using' = socket_id
       \/ inbox[socket_id] = 0 /\ cpc' = "finish" /\ UNCHANGED using
    /\ UNCHANGED <<mainVars, appVars, tcpVars, netVars, obsVars>>

\* The answer is ready or the time limit has passed: either way recv.
EnterRecv ==
    /\ cpc = "poll" /\ Open(socket_id)
    /\ cpc' = "recv"
    /\ using' = socket_id
    /\ UNCHANGED <<mainVars, appVars, tcpVars, netVars, obsVars>>

RecvAnswer ==
    /\ cpc = "recv" /\ inbox[using] > 0
    /\ inbox' = [inbox EXCEPT ![using] = @ - 1]
    /\ state' = [state EXCEPT ![using] = Leave(using)]
    /\ cpc' = "finish" /\ using' = NoSocket
    /\ answered' = own
    /\ UNCHANGED <<mainVars, appVars, tcpVars, peer, due, own>>

\* The server has closed the connection recv is waiting on.
RecvNothing ==
    /\ cpc = "recv" /\ inbox[using] = 0 /\ peer[using] = "gone"
    /\ BreakOff

Finish ==
    /\ cpc = "finish" /\ cpc' = "idle"
    /\ finished' = TRUE
    /\ UNCHANGED <<mainVars, using, should_start, tcpVars, netVars, obsVars>>

CyclesThread ==
    \/ Take \/ SkipCycle \/ SendRefused \/ EnterSend \/ Sent \/ SendBreaks
    \/ EnterReceive \/ PollFails \/ EnterRecv \/ RecvAnswer \/ RecvNothing \/ Finish

-------------------------------------------------------------------------------
(* The server at the other end of a socket. *)

ServerAnswers(s) ==
    /\ peer[s] = "serving" /\ due[s] > 0
    /\ due' = [due EXCEPT ![s] = @ - 1]
    /\ inbox' = [inbox EXCEPT ![s] = IF state[s] = "free" THEN @ ELSE @ + 1]
    /\ UNCHANGED <<mainVars, cyclesVars, appVars, tcpVars, state, peer, obsVars>>

\* It has waited too long for a request, or stops.
ServerCloses(s) ==
    /\ peer[s] = "serving"
    /\ peer' = [peer EXCEPT ![s] = "gone"]
    /\ due' = [due EXCEPT ![s] = 0]
    /\ UNCHANGED <<mainVars, cyclesVars, appVars, tcpVars, state, inbox, obsVars>>

Server == \E s \in Sockets : ServerAnswers(s) \/ ServerCloses(s)

-------------------------------------------------------------------------------
Next == MainThread \/ CyclesThread \/ Server

Spec == Init /\ [][Next]_vars

\* The main thread is never blocked for good while it waits: sleeps end and
\* deadlines pass.
FairSpec == Spec /\ WF_vars(MainThread)

-------------------------------------------------------------------------------
(* What the client promises. *)

\* Every variable keeps its type; the score never becomes negative.
TypeOK ==
    /\ mpc \in {"loop", "sleep", "ask", "connect", "start", "wait", "judge"}
    /\ connection_score \in Nat
    /\ {connection_first_loop, disconnection_first_loop,
        missed_latest_end_time} \subseteq BOOLEAN
    /\ cpc \in {"idle", "send", "sending", "receive", "poll", "recv", "finish"}
    /\ {using, socket_id} \subseteq Sockets \union {NoSocket}
    /\ {should_start, finished, connected, own, answered} \subseteq BOOLEAN
    /\ state \in [Sockets -> {"free", "connecting", "up", "orphan"}]
    /\ peer \in [Sockets -> {"serving", "gone"}]
    /\ due \in [Sockets -> Nat] /\ inbox \in [Sockets -> Nat]

\* The score stays between 0 and its maximum, and it has not reached 0 while
\* the client waits for a cycle: a connection that is kept has a positive
\* score, whichever thread lost or found a connection meanwhile.
ScoreInRange ==
    /\ connection_score \in 0 .. MaxScore
    /\ mpc \in {"wait", "judge"} => connection_score >= 1
    /\ mpc = "loop" /\ connected /\ ~connection_first_loop => connection_score >= 1

\* Requests and answers stay in step: between two cycles of a connection the
\* server owes no answer and none lies unread, so the answer a cycle reads is
\* the answer to its own request.
InStep ==
    cpc = "idle" /\ connected => due[socket_id] + inbox[socket_id] = 0

\* A client that waits for a cycle stops waiting, even if the completion of
\* the cycle got lost between the two flags of start(): the score runs out.
WaitEnds == mpc = "wait" ~> mpc = "loop"

\* client.cpp:315 reads "finished and still connected" as "application
\* finished successfully": the cycle just started has got its answer.
FinishedMeansServed == mpc = "judge" /\ connected => answered
===============================================================================

----------------------------- MODULE ClientProofs -----------------------------
(***************************************************************************)
(* What is proved about a client, for every number of sockets and every    *)
(* maximal score: the types, the range of the score, and that requests and *)
(* answers stay in step.                                                   *)
(***************************************************************************)
EXTENDS ClientLoop, TLAPS

\* The score while nobody waits: a client without a connection will start
\* the next one at half the score.
ScoreInv ==
    /\ ScoreInRange
    /\ mpc \in {"sleep", "ask", "connect"} => connection_first_loop
    /\ mpc = "start" /\ ~connection_first_loop => connection_score >= 1

Owed(s) == due[s] + inbox[s]

\* A socket with a call inside it is not free.
CallHolds ==
    cpc \in {"sending", "recv"} => using \in Sockets /\ state[using] # "free"

\* Nothing polls while the main thread asks or connects, and the object is
\* not connected then.
Quiet ==
    /\ mpc \in {"sleep", "ask", "connect"} => ~connected
    /\ mpc \in {"ask", "connect"} => cpc # "poll"

\* A socket being connected is new: no call is inside it, nothing is owed.
Fresh ==
    mpc = "connect" =>
        /\ socket_id \in Sockets
        /\ Owed(socket_id) = 0
        /\ cpc \in {"sending", "recv"} => using # socket_id

\* What is owed on the current connection at each point of a cycle.
Owing ==
    connected =>
        /\ socket_id \in Sockets
        /\ Owed(socket_id) <= 1
        /\ cpc \in {"idle", "send", "sending", "finish"} => Owed(socket_id) = 0
        /\ cpc = "recv" /\ using # socket_id => Owed(socket_id) = 0

Inv == TypeOK /\ ScoreInv /\ CallHolds /\ Quiet /\ Fresh /\ Owing

-------------------------------------------------------------------------------
\* Half the maximal score is a positive score that does not exceed it.
LEMMA Half == MaxScore \div 2 \in 1 .. MaxScore
  BY ScoreAssumption

\* The initial state satisfies the inductive invariant.
LEMMA InvInit == Init => Inv
  <1> SUFFICES ASSUME Init PROVE Inv
    OBVIOUS
  <1>1. TypeOK
    BY DEF Init, TypeOK, NoSocket
  <1>2. ScoreInv
    BY ScoreAssumption DEF Init, ScoreInv, ScoreInRange
  <1>3. CallHolds /\ Quiet /\ Fresh /\ Owing
    BY DEF Init, CallHolds, Quiet, Fresh, Owing
  <1> QED BY <1>1, <1>2, <1>3 DEF Inv

\* Types are preserved.
LEMMA TypeNext == Inv /\ [Next]_vars => TypeOK'
  <1> SUFFICES ASSUME Inv, [Next]_vars PROVE TypeOK'
    OBVIOUS
  <1> USE DEF TypeOK, mainVars, cyclesVars, appVars, tcpVars, netVars, obsVars
  <1>1. TypeOK /\ ScoreInRange /\ CallHolds /\ Fresh /\ Owing
    BY DEF Inv, ScoreInv
  <1>2. CASE MainThread
    <2>1. CASE LoopDisconnected BY <1>1, <2>1 DEF LoopDisconnected
    <2>2. CASE Awake BY <1>1, <2>2 DEF Awake
    <2>3. CASE NoServer BY <1>1, <2>3 DEF NoServer
    <2>4. CASE Dial BY <1>1, <2>4 DEF Dial
    <2>5. CASE ConnectSucceeds BY <1>1, <2>5 DEF ConnectSucceeds, Open
    <2>6. CASE ConnectFails BY <1>1, <2>6 DEF ConnectFails, Released
    <2>7. CASE LoopConnected BY <1>1, <2>7 DEF LoopConnected
    <2>8. CASE Started
      <3>1. connection_score' \in Nat
        BY <1>1, <2>8, Half, ScoreAssumption DEF Started
      <3> QED BY <1>1, <2>8, <3>1 DEF Started
    <2>9. CASE SeeFinished BY <1>1, <2>9 DEF SeeFinished
    <2>10. CASE Judge BY <1>1, <2>10 DEF Judge
    <2>11. CASE MissDeadline BY <1>1, <2>11 DEF MissDeadline
    <2>12. CASE GiveUp
      <3>1. connection_score' \in Nat
        BY <1>1, <2>12 DEF GiveUp, ScoreInRange
      <3>2. state' \in [Sockets -> {"free", "connecting", "up", "orphan"}]
        BY <1>1, <2>12 DEF GiveUp, Disconnect, Released
      <3> QED BY <1>1, <2>12, <3>1, <3>2 DEF GiveUp, Disconnect
    <2> QED BY <1>2, <2>1, <2>2, <2>3, <2>4, <2>5, <2>6, <2>7, <2>8, <2>9,
               <2>10, <2>11, <2>12 DEF MainThread
  <1>3. CASE CyclesThread
    <2>1. CASE Take BY <1>1, <2>1 DEF Take
    <2>2. CASE SkipCycle BY <1>1, <2>2 DEF SkipCycle
    <2>3. CASE SendRefused BY <1>1, <2>3 DEF SendRefused, Disconnect
    <2>4. CASE EnterSend BY <1>1, <2>4 DEF EnterSend
    <2>5. CASE Sent BY <1>1, <2>5 DEF Sent, Leave, CallHolds
    <2>6. CASE SendBreaks BY <1>1, <2>6 DEF SendBreaks, BreakOff
    <2>7. CASE EnterReceive BY <1>1, <2>7 DEF EnterReceive
    <2>8. CASE PollFails BY <1>1, <2>8 DEF PollFails, Disconnect
    <2>9. CASE EnterRecv BY <1>1, <2>9 DEF EnterRecv
    <2>10. CASE RecvAnswer BY <1>1, <2>10 DEF RecvAnswer, Leave, CallHolds
    <2>11. CASE RecvNothing BY <1>1, <2>11 DEF RecvNothing, BreakOff
    <2>12. CASE Finish BY <1>1, <2>12 DEF Finish
    <2> QED BY <1>3, <2>1, <2>2, <2>3, <2>4, <2>5, <2>6, <2>7, <2>8, <2>9,
               <2>10, <2>11, <2>12 DEF CyclesThread
  <1>4. CASE Server
    <2>1. PICK s \in Sockets : ServerAnswers(s) \/ ServerCloses(s)
      BY <1>4 DEF Server
    <2>2. CASE ServerAnswers(s) BY <1>1, <2>2 DEF ServerAnswers
    <2>3. CASE ServerCloses(s) BY <1>1, <2>3 DEF ServerCloses
    <2> QED BY <2>1, <2>2, <2>3
  <1>5. CASE UNCHANGED vars
    BY <1>1, <1>5 DEF vars
  <1> QED BY <1>2, <1>3, <1>4, <1>5 DEF Next

\* The bounds of the score are preserved: only GiveUp lowers it to 0, and it
\* disconnects.
LEMMA ScoreNext == Inv /\ [Next]_vars => ScoreInv'
  <1> SUFFICES ASSUME Inv, [Next]_vars PROVE ScoreInv'
    OBVIOUS
  <1> USE DEF TypeOK, ScoreInv, ScoreInRange, mainVars, cyclesVars, appVars, tcpVars,
             netVars, obsVars
  <1>1. TypeOK /\ ScoreInv /\ Quiet
    BY DEF Inv
  <1>2. CASE MainThread
    <2>1. CASE LoopDisconnected BY <1>1, <2>1, ScoreAssumption DEF LoopDisconnected
    <2>2. CASE Awake BY <1>1, <2>2 DEF Awake
    <2>3. CASE NoServer BY <1>1, <2>3 DEF NoServer
    <2>4. CASE Dial BY <1>1, <2>4 DEF Dial
    <2>5. CASE ConnectSucceeds BY <1>1, <2>5 DEF ConnectSucceeds, Open
    <2>6. CASE ConnectFails BY <1>1, <2>6 DEF ConnectFails, Released
    <2>7. CASE LoopConnected BY <1>1, <2>7 DEF LoopConnected
    <2>8. CASE Started BY <1>1, <2>8, Half, ScoreAssumption DEF Started
    <2>9. CASE SeeFinished BY <1>1, <2>9 DEF SeeFinished
    <2>10. CASE Judge BY <1>1, <2>10, ScoreAssumption DEF Judge
    <2>11. CASE MissDeadline BY <1>1, <2>11, ScoreAssumption DEF MissDeadline
    <2>12. CASE GiveUp BY <1>1, <2>12, ScoreAssumption DEF GiveUp, Disconnect
    <2> QED BY <1>2, <2>1, <2>2, <2>3, <2>4, <2>5, <2>6, <2>7, <2>8, <2>9,
               <2>10, <2>11, <2>12 DEF MainThread
  <1>3. CASE CyclesThread
    <2>1. CASE Take BY <1>1, <2>1 DEF Take
    <2>2. CASE SkipCycle BY <1>1, <2>2 DEF SkipCycle
    <2>3. CASE SendRefused BY <1>1, <2>3 DEF SendRefused, Disconnect
    <2>4. CASE EnterSend BY <1>1, <2>4 DEF EnterSend, Open
    <2>5. CASE Sent BY <1>1, <2>5 DEF Sent, Leave
    <2>6. CASE SendBreaks BY <1>1, <2>6 DEF SendBreaks, BreakOff
    <2>7. CASE EnterReceive BY <1>1, <2>7 DEF EnterReceive
    <2>8. CASE PollFails BY <1>1, <2>8 DEF PollFails, Disconnect, Open
    <2>9. CASE EnterRecv BY <1>1, <2>9 DEF EnterRecv, Open
    <2>10. CASE RecvAnswer BY <1>1, <2>10 DEF RecvAnswer, Leave
    <2>11. CASE RecvNothing BY <1>1, <2>11 DEF RecvNothing, BreakOff
    <2>12. CASE Finish BY <1>1, <2>12 DEF Finish
    <2> QED BY <1>3, <2>1, <2>2, <2>3, <2>4, <2>5, <2>6, <2>7, <2>8, <2>9,
               <2>10, <2>11, <2>12 DEF CyclesThread
  <1>4. CASE Server
    <2>1. PICK s \in Sockets : ServerAnswers(s) \/ ServerCloses(s)
      BY <1>4 DEF Server
    <2>2. CASE ServerAnswers(s) BY <1>1, <2>2 DEF ServerAnswers
    <2>3. CASE ServerCloses(s) BY <1>1, <2>3 DEF ServerCloses
    <2> QED BY <2>1, <2>2, <2>3
  <1>5. CASE UNCHANGED vars
    BY <1>1, <1>5 DEF vars
  <1> QED BY <1>2, <1>3, <1>4, <1>5 DEF Next

\* A socket is released only when no call is inside it.
LEMMA CallNext == Inv /\ [Next]_vars => CallHolds'
  <1> SUFFICES ASSUME Inv, [Next]_vars PROVE CallHolds'
    OBVIOUS
  <1> USE DEF CallHolds,
             TypeOK, mainVars, cyclesVars, appVars, tcpVars, netVars, obsVars
  <1>1. TypeOK /\ CallHolds /\ Quiet /\ Fresh /\ Owing
    BY DEF Inv
  <1>2. CASE MainThread
    <2>1. CASE LoopDisconnected BY <1>1, <2>1 DEF LoopDisconnected
    <2>2. CASE Awake BY <1>1, <2>2 DEF Awake
    <2>3. CASE NoServer BY <1>1, <2>3 DEF NoServer
    <2>4. CASE Dial BY <1>1, <2>4 DEF Dial
    <2>5. CASE ConnectSucceeds BY <1>1, <2>5 DEF ConnectSucceeds, Open
    <2>6. CASE ConnectFails BY <1>1, <2>6 DEF ConnectFails, Released
    <2>7. CASE LoopConnected BY <1>1, <2>7 DEF LoopConnected
    <2>8. CASE Started BY <1>1, <2>8 DEF Started
    <2>9. CASE SeeFinished BY <1>1, <2>9 DEF SeeFinished
    <2>10. CASE Judge BY <1>1, <2>10 DEF Judge
    <2>11. CASE MissDeadline BY <1>1, <2>11 DEF MissDeadline
    <2>12. CASE GiveUp BY <1>1, <2>12 DEF GiveUp, Disconnect, Released
    <2> QED BY <1>2, <2>1, <2>2, <2>3, <2>4, <2>5, <2>6, <2>7, <2>8, <2>9,
               <2>10, <2>11, <2>12 DEF MainThread
  <1>3. CASE CyclesThread
    <2>1. CASE Take BY <1>1, <2>1 DEF Take
    <2>2. CASE SkipCycle BY <1>1, <2>2 DEF SkipCycle
    <2>3. CASE SendRefused BY <1>1, <2>3 DEF SendRefused, Disconnect
    <2>4. CASE EnterSend BY <1>1, <2>4 DEF EnterSend, Open
    <2>5. CASE Sent BY <1>1, <2>5 DEF Sent, Leave
    <2>6. CASE SendBreaks BY <1>1, <2>6 DEF SendBreaks, BreakOff
    <2>7. CASE EnterReceive BY <1>1, <2>7 DEF EnterReceive
    <2>8. CASE PollFails BY <1>1, <2>8 DEF PollFails, Disconnect, Open
    <2>9. CASE EnterRecv BY <1>1, <2>9 DEF EnterRecv, Open
    <2>10. CASE RecvAnswer BY <1>1, <2>10 DEF RecvAnswer, Leave
    <2>11. CASE RecvNothing BY <1>1, <2>11 DEF RecvNothing, BreakOff
    <2>12. CASE Finish BY <1>1, <2>12 DEF Finish
    <2> QED BY <1>3, <2>1, <2>2, <2>3, <2>4, <2>5, <2>6, <2>7, <2>8, <2>9,
               <2>10, <2>11, <2>12 DEF CyclesThread
  <1>4. CASE Server
    <2>1. PICK s \in Sockets : ServerAnswers(s) \/ ServerCloses(s)
      BY <1>4 DEF Server
    <2>2. CASE ServerAnswers(s) BY <1>1, <2>2 DEF ServerAnswers
    <2>3. CASE ServerCloses(s) BY <1>1, <2>3 DEF ServerCloses
    <2> QED BY <2>1, <2>2, <2>3
  <1>5. CASE UNCHANGED vars
    BY <1>1, <1>5 DEF vars
  <1> QED BY <1>2, <1>3, <1>4, <1>5 DEF Next

\* The cycles thread cannot start to poll without a connection.
LEMMA QuietNext == Inv /\ [Next]_vars => Quiet'
  <1> SUFFICES ASSUME Inv, [Next]_vars PROVE Quiet'
    OBVIOUS
  <1> USE DEF Quiet,
             TypeOK, mainVars, cyclesVars, appVars, tcpVars, netVars, obsVars
  <1>1. TypeOK /\ CallHolds /\ Quiet /\ Fresh /\ Owing
    BY DEF Inv
  <1>2. CASE MainThread
    <2>1. CASE LoopDisconnected BY <1>1, <2>1 DEF LoopDisconnected
    <2>2. CASE Awake BY <1>1, <2>2 DEF Awake
    <2>3. CASE NoServer BY <1>1, <2>3 DEF NoServer
    <2>4. CASE Dial BY <1>1, <2>4 DEF Dial
    <2>5. CASE ConnectSucceeds BY <1>1, <2>5 DEF ConnectSucceeds, Open
    <2>6. CASE ConnectFails BY <1>1, <2>6 DEF ConnectFails, Released
    <2>7. CASE LoopConnected BY <1>1, <2>7 DEF LoopConnected
    <2>8. CASE Started BY <1>1, <2>8 DEF Started
    <2>9. CASE SeeFinished BY <1>1, <2>9 DEF SeeFinished
    <2>10. CASE Judge BY <1>1, <2>10 DEF Judge
    <2>11. CASE MissDeadline BY <1>1, <2>11 DEF MissDeadline
    <2>12. CASE GiveUp BY <1>1, <2>12 DEF GiveUp, Disconnect, Released
    <2> QED BY <1>2, <2>1, <2>2, <2>3, <2>4, <2>5, <2>6, <2>7, <2>8, <2>9,
               <2>10, <2>11, <2>12 DEF MainThread
  <1>3. CASE CyclesThread
    <2>1. CASE Take BY <1>1, <2>1 DEF Take
    <2>2. CASE SkipCycle BY <1>1, <2>2 DEF SkipCycle
    <2>3. CASE SendRefused BY <1>1, <2>3 DEF SendRefused, Disconnect
    <2>4. CASE EnterSend BY <1>1, <2>4 DEF EnterSend, Open
    <2>5. CASE Sent BY <1>1, <2>5 DEF Sent, Leave
    <2>6. CASE SendBreaks BY <1>1, <2>6 DEF SendBreaks, BreakOff
    <2>7. CASE EnterReceive BY <1>1, <2>7 DEF EnterReceive
    <2>8. CASE PollFails BY <1>1, <2>8 DEF PollFails, Disconnect, Open
    <2>9. CASE EnterRecv BY <1>1, <2>9 DEF EnterRecv, Open
    <2>10. CASE RecvAnswer BY <1>1, <2>10 DEF RecvAnswer, Leave
    <2>11. CASE RecvNothing BY <1>1, <2>11 DEF RecvNothing, BreakOff
    <2>12. CASE Finish BY <1>1, <2>12 DEF Finish
    <2> QED BY <1>3, <2>1, <2>2, <2>3, <2>4, <2>5, <2>6, <2>7, <2>8, <2>9,
               <2>10, <2>11, <2>12 DEF CyclesThread
  <1>4. CASE Server
    <2>1. PICK s \in Sockets : ServerAnswers(s) \/ ServerCloses(s)
      BY <1>4 DEF Server
    <2>2. CASE ServerAnswers(s) BY <1>1, <2>2 DEF ServerAnswers
    <2>3. CASE ServerCloses(s) BY <1>1, <2>3 DEF ServerCloses
    <2> QED BY <2>1, <2>2, <2>3
  <1>5. CASE UNCHANGED vars
    BY <1>1, <1>5 DEF vars
  <1> QED BY <1>2, <1>3, <1>4, <1>5 DEF Next

\* Nothing happens on a socket that is being connected.
LEMMA FreshNext == Inv /\ [Next]_vars => Fresh'
  <1> SUFFICES ASSUME Inv, [Next]_vars PROVE Fresh'
    OBVIOUS
  <1> USE DEF Fresh, Owed,
             TypeOK, mainVars, cyclesVars, appVars, tcpVars, netVars, obsVars
  <1>1. TypeOK /\ CallHolds /\ Quiet /\ Fresh /\ Owing
    BY DEF Inv
  <1>2. CASE MainThread
    <2>1. CASE LoopDisconnected BY <1>1, <2>1 DEF LoopDisconnected
    <2>2. CASE Awake BY <1>1, <2>2 DEF Awake
    <2>3. CASE NoServer BY <1>1, <2>3 DEF NoServer
    <2>4. CASE Dial
      <3>1. PICK s \in Sockets :
                /\ state[s] = "free" /\ socket_id' = s
                /\ due' = [due EXCEPT ![s] = 0] /\ inbox' = [inbox EXCEPT ![s] = 0]
        BY <2>4 DEF Dial
      <3>2. due'[s] = 0 /\ inbox'[s] = 0
        BY <1>1, <3>1
      <3>3. cpc \in {"sending", "recv"} => using # s
        BY <1>1, <3>1 DEF CallHolds
      <3> QED BY <1>1, <2>4, <3>1, <3>2, <3>3 DEF Dial
    <2>5. CASE ConnectSucceeds BY <1>1, <2>5 DEF ConnectSucceeds, Open
    <2>6. CASE ConnectFails BY <1>1, <2>6 DEF ConnectFails, Released
    <2>7. CASE LoopConnected BY <1>1, <2>7 DEF LoopConnected
    <2>8. CASE Started BY <1>1, <2>8 DEF Started
    <2>9. CASE SeeFinished BY <1>1, <2>9 DEF SeeFinished
    <2>10. CASE Judge BY <1>1, <2>10 DEF Judge
    <2>11. CASE MissDeadline BY <1>1, <2>11 DEF MissDeadline
    <2>12. CASE GiveUp BY <1>1, <2>12 DEF GiveUp, Disconnect, Released
    <2> QED BY <1>2, <2>1, <2>2, <2>3, <2>4, <2>5, <2>6, <2>7, <2>8, <2>9,
               <2>10, <2>11, <2>12 DEF MainThread
  <1>3. CASE CyclesThread
    <2>1. CASE Take BY <1>1, <2>1 DEF Take
    <2>2. CASE SkipCycle BY <1>1, <2>2 DEF SkipCycle
    <2>3. CASE SendRefused BY <1>1, <2>3 DEF SendRefused, Disconnect
    <2>4. CASE EnterSend BY <1>1, <2>4 DEF EnterSend, Quiet
    <2>5. CASE Sent BY <1>1, <2>5 DEF Sent, Leave
    <2>6. CASE SendBreaks BY <1>1, <2>6 DEF SendBreaks, BreakOff
    <2>7. CASE EnterReceive BY <1>1, <2>7 DEF EnterReceive
    <2>8. CASE PollFails BY <1>1, <2>8 DEF PollFails, Disconnect, Open
    <2>9. CASE EnterRecv BY <1>1, <2>9 DEF EnterRecv, Quiet
    <2>10. CASE RecvAnswer BY <1>1, <2>10 DEF RecvAnswer, Leave
    <2>11. CASE RecvNothing BY <1>1, <2>11 DEF RecvNothing, BreakOff
    <2>12. CASE Finish BY <1>1, <2>12 DEF Finish
    <2> QED BY <1>3, <2>1, <2>2, <2>3, <2>4, <2>5, <2>6, <2>7, <2>8, <2>9,
               <2>10, <2>11, <2>12 DEF CyclesThread
  <1>4. CASE Server
    <2>1. PICK s \in Sockets : ServerAnswers(s) \/ ServerCloses(s)
      BY <1>4 DEF Server
    <2>2. CASE ServerAnswers(s) BY <1>1, <2>2 DEF ServerAnswers
    <2>3. CASE ServerCloses(s) BY <1>1, <2>3 DEF ServerCloses
    <2> QED BY <2>1, <2>2, <2>3
  <1>5. CASE UNCHANGED vars
    BY <1>1, <1>5 DEF vars
  <1> QED BY <1>2, <1>3, <1>4, <1>5 DEF Next

\* One request at a time, and its answer is read in the same cycle.
LEMMA OwingNext == Inv /\ [Next]_vars => Owing'
  <1> SUFFICES ASSUME Inv, [Next]_vars PROVE Owing'
    OBVIOUS
  <1> USE DEF Owing, Owed,
             TypeOK, mainVars, cyclesVars, appVars, tcpVars, netVars, obsVars
  <1>1. TypeOK /\ CallHolds /\ Quiet /\ Fresh /\ Owing
    BY DEF Inv
  <1>2. CASE MainThread
    <2>1. CASE LoopDisconnected BY <1>1, <2>1 DEF LoopDisconnected
    <2>2. CASE Awake BY <1>1, <2>2 DEF Awake
    <2>3. CASE NoServer BY <1>1, <2>3 DEF NoServer
    <2>4. CASE Dial BY <1>1, <2>4 DEF Dial
    <2>5. CASE ConnectSucceeds BY <1>1, <2>5 DEF ConnectSucceeds, Fresh
    <2>6. CASE ConnectFails BY <1>1, <2>6 DEF ConnectFails, Released
    <2>7. CASE LoopConnected BY <1>1, <2>7 DEF LoopConnected
    <2>8. CASE Started BY <1>1, <2>8 DEF Started
    <2>9. CASE SeeFinished BY <1>1, <2>9 DEF SeeFinished
    <2>10. CASE Judge BY <1>1, <2>10 DEF Judge
    <2>11. CASE MissDeadline BY <1>1, <2>11 DEF MissDeadline
    <2>12. CASE GiveUp BY <1>1, <2>12 DEF GiveUp, Disconnect, Released
    <2> QED BY <1>2, <2>1, <2>2, <2>3, <2>4, <2>5, <2>6, <2>7, <2>8, <2>9,
               <2>10, <2>11, <2>12 DEF MainThread
  <1>3. CASE CyclesThread
    <2>1. CASE Take BY <1>1, <2>1 DEF Take
    <2>2. CASE SkipCycle BY <1>1, <2>2 DEF SkipCycle
    <2>3. CASE SendRefused BY <1>1, <2>3 DEF SendRefused, Disconnect
    <2>4. CASE EnterSend BY <1>1, <2>4 DEF EnterSend, Open
    <2>5. CASE Sent BY <1>1, <2>5 DEF Sent, Leave
    <2>6. CASE SendBreaks BY <1>1, <2>6 DEF SendBreaks, BreakOff
    <2>7. CASE EnterReceive BY <1>1, <2>7 DEF EnterReceive
    <2>8. CASE PollFails BY <1>1, <2>8 DEF PollFails, Disconnect, Open
    <2>9. CASE EnterRecv BY <1>1, <2>9 DEF EnterRecv, Open
    <2>10. CASE RecvAnswer BY <1>1, <2>10 DEF RecvAnswer, Leave
    <2>11. CASE RecvNothing BY <1>1, <2>11 DEF RecvNothing, BreakOff
    <2>12. CASE Finish BY <1>1, <2>12 DEF Finish
    <2> QED BY <1>3, <2>1, <2>2, <2>3, <2>4, <2>5, <2>6, <2>7, <2>8, <2>9,
               <2>10, <2>11, <2>12 DEF CyclesThread
  <1>4. CASE Server
    <2>1. PICK s \in Sockets : ServerAnswers(s) \/ ServerCloses(s)
      BY <1>4 DEF Server
    <2>2. CASE ServerAnswers(s) BY <1>1, <2>2 DEF ServerAnswers
    <2>3. CASE ServerCloses(s) BY <1>1, <2>3 DEF ServerCloses
    <2> QED BY <2>1, <2>2, <2>3
  <1>5. CASE UNCHANGED vars
    BY <1>1, <1>5 DEF vars
  <1> QED BY <1>2, <1>3, <1>4, <1>5 DEF Next

-------------------------------------------------------------------------------
\* The inductive invariant holds in every reachable state.
THEOREM Invariance == Spec => []Inv
  <1>1. Inv /\ [Next]_vars => Inv'
    BY TypeNext, ScoreNext, CallNext, QuietNext, FreshNext, OwingNext DEF Inv
  <1> QED BY InvInit, <1>1, PTL DEF Spec

\* Every variable keeps its type.
THEOREM TypeCorrect == Spec => []TypeOK
  <1>1. Inv => TypeOK
    BY DEF Inv
  <1> QED BY Invariance, <1>1, PTL

\* The score stays in its range whatever the deadlines and the two threads do.
THEOREM ScoreBounded == Spec => []ScoreInRange
  <1>1. Inv => ScoreInRange
    BY DEF Inv, ScoreInv
  <1> QED BY Invariance, <1>1, PTL

\* Requests and answers stay in step on every connection.
THEOREM Synchronous == Spec => []InStep
  <1>1. Inv => InStep
    BY DEF Inv, Owing, Owed, InStep
  <1> QED BY Invariance, <1>1, PTL
===============================================================================

------------------------------- MODULE Exchange -------------------------------
(***************************************************************************)
(* The messages of a client, byte by byte, and the buffer they are built   *)
(* in: the main thread's request to the master and the master's answer     *)
(* (connect_to_server, src/src/client/client.cpp), and the log entries of  *)
(* logger_thread.  Both threads of the client use the one global `buffer'  *)
(* and `buffer_size' and hold no lock.  The master                         *)
(* (src/src/master/master.cpp) has one buffer for the requests it receives *)
(* and the answers it sends, and never clears it.                          *)
(*                                                                         *)
(* A message of this size travels in one segment: a receive returns all of *)
(* it, or as much as it has been given room for.  Serializing is one step; *)
(* any step of the other thread may come between it and the send, and      *)
(* between the receive and the reading of what was received.               *)
(***************************************************************************)
EXTENDS Wire, FiniteSets

CONSTANTS
    Self,           \* this client's request
    Others,         \* requests of other clients
    Hosts,          \* texts the master may answer with
    Port,           \* the port of the servers of an application
    Garbage,        \* what an uninitialized port may be
    FileName,       \* the name the entries are logged under
    Numbers,        \* what may be queued: times and scores
    Capacity,       \* bytes a connection to the logger holds in each direction
    Known           \* the most clients the master comes to know

Requests ==
    [type : Bytes, application_id : Nat, name : Texts,
     user_equipment_name : Texts]

ASSUME ExchangeAssumption ==
    /\ {Self} \union Others \subseteq Requests
    /\ \A r \in {Self} \union Others :
        /\ request_size(r) <= Size
        /\ r.application_id \in DOMAIN Port /\ r.application_id < Radix * Radix
    /\ \A a \in DOMAIN Port : Port[a] \in 1 .. Radix * Radix - 1
    /\ Garbage \subseteq 0 .. Radix * Radix - 1
    /\ Hosts \subseteq Texts /\ \A h \in Hosts : Len(h) + 3 <= Size
    /\ FileName \in Texts /\ Len(FileName) + 1 <= Size
    /\ Numbers \subseteq Nat /\ Capacity \in Nat /\ Known \in Nat
    /\ \A n \in Numbers : Shifted(n)[EntrySize] = 0

VARIABLES
    \* client: the global buffer, the two threads, what main has parsed
    buffer, buffer_size, mpc, lpc, server,
    \* the front of the queue of logger_thread
    front,
    \* the master's buffer and its clients; the file the logger has opened
    master_buffer, clients, file_name,
    \* what is under way: the request and the response, the bytes sent to the
    \* logger that it has not read, the confirmations it has sent
    request, response, stream, confirmations,
    \* observers, read by no step: what the master read and what it answered,
    \* the entries stored since one was last taken off the queue, whether each
    \* thread has had the buffer for itself since it last used it, whether main
    \* had when it sent its request, and logger_thread at every send on its
    \* present connection
    read, answer, stored, main_alone, logger_alone, sent_alone, undisturbed

bufferVars == <<buffer, buffer_size>>
masterVars == <<master_buffer, clients>>
messageVars == <<request, response>>
logVars == <<file_name, stream, confirmations, stored, undisturbed>>
mainVars == <<mpc, server>>
loggerVars == <<lpc, front>>
readVars == <<read, answer>>
aloneVars == <<main_alone, logger_alone, sent_alone>>
vars == <<bufferVars, masterVars, messageVars, logVars, mainVars, loggerVars,
          readVars, aloneVars>>

NoMessage == <<>>
NoServer == [port |-> 0, hostname |-> <<>>]
NoRequest ==
    [type |-> 0, application_id |-> 0, name |-> <<>>,
     user_equipment_name |-> <<>>]

\* The master's buffer is on the stack of main and is not initialized.
Init ==
    /\ buffer = [k \in Offsets |-> 0] /\ buffer_size = 0
    /\ mpc = "idle" /\ lpc = "connect" /\ server = NoServer
    /\ front \in Numbers /\ file_name = <<>>
    /\ \E b \in Bytes : master_buffer = [k \in Offsets |-> b]
    /\ clients = {}
    /\ request = NoMessage /\ response = NoMessage
    /\ stream = NoMessage /\ confirmations = 0 /\ stored = <<>>
    /\ read = NoRequest /\ answer = NoServer
    /\ main_alone = TRUE /\ logger_alone = TRUE /\ sent_alone = FALSE
    /\ undisturbed = FALSE

-------------------------------------------------------------------------------
(* The client's main thread: connect_to_server. *)

\* A thread writes to the buffer: the other has it no longer for itself.
MainWrites == main_alone' = TRUE /\ logger_alone' = FALSE
LoggerWrites ==
    logger_alone' = TRUE /\ main_alone' = FALSE /\ UNCHANGED sent_alone

SerializeRequest ==
    /\ mpc = "idle" /\ mpc' = "send"
    /\ buffer' = serialize_request(buffer, Self)
    /\ buffer_size' = request_size(Self)
    /\ MainWrites
    /\ UNCHANGED <<server, sent_alone, loggerVars, masterVars, messageVars,
                   logVars, readVars>>

\* send_data, and the whole buffer as room for the answer.
SendRequest ==
    /\ mpc = "send" /\ mpc' = "receive"
    /\ request' = Message(buffer, buffer_size)
    /\ buffer_size' = Size
    /\ sent_alone' = main_alone
    /\ MainWrites
    /\ UNCHANGED <<buffer, server, response, loggerVars, masterVars, logVars,
                   readVars>>

Least(m, n) == IF m <= n THEN m ELSE n
Received(b, message) == Written(b, 0, message)

\* The answer, or as much of it as buffer_size has room for by now.
ReceiveResponse ==
    /\ mpc = "receive" /\ response # NoMessage /\ mpc' = "parse"
    /\ buffer_size' = Least(Len(response), buffer_size)
    /\ buffer' = Received(buffer, SubSeq(response, 1, buffer_size'))
    /\ response' = NoMessage
    /\ logger_alone' = FALSE
    /\ UNCHANGED <<server, request, main_alone, sent_alone, loggerVars,
                   masterVars, logVars, readVars>>

\* main turns to the master again: nothing of the last exchange is looked at.
AskAgain ==
    /\ mpc' = "idle" /\ server' = NoServer
    /\ request' = NoMessage /\ response' = NoMessage
    /\ read' = NoRequest /\ answer' = NoServer /\ sent_alone' = FALSE
    /\ UNCHANGED <<main_alone, logger_alone, bufferVars, loggerVars, masterVars,
                   logVars>>

\* Nothing comes, or the connection is lost.
MasterFails == mpc \in {"send", "receive"} /\ AskAgain

ParseResponse ==
    /\ mpc = "parse" /\ mpc' = "parsed"
    /\ server' = deserialize_response(buffer)
    /\ UNCHANGED <<bufferVars, loggerVars, masterVars, messageVars, logVars,
                   readVars, aloneVars>>

\* Port 0: no server, and main asks again in a second.  Else it connects,
\* and asks again when the connection is lost.
NoAvailableServer == mpc = "parsed" /\ server.port = 0 /\ AskAgain
ConnectAndServe == mpc = "parsed" /\ server.port # 0 /\ AskAgain

MainThread ==
    \/ SerializeRequest \/ SendRequest \/ ReceiveResponse \/ MasterFails
    \/ ParseResponse \/ NoAvailableServer \/ ConnectAndServe

-------------------------------------------------------------------------------
(* The master: receive, deserialize, choose, serialize and send. *)

\* get_or_create_client: a client is found by its name, and keeps the
\* application it first asked for.
Namesakes(r) == {c \in clients : c.name = r.name}
Client(r) == [name |-> r.name, application_id |-> r.application_id]

\* Mutant of Registering: the client is created without looking for it.
RegisteringAnew(r) == clients \union {Client(r)}

Registering(r) ==
    clients \union (IF Namesakes(r) = {} THEN {Client(r)} ELSE {})

\* The port of an application the program does not know is not initialized.
Ports(a) == IF a \in DOMAIN Port THEN {Port[a]} ELSE Garbage

\* No node, or one that serves the application the client is registered with;
\* the port is that of the application in the request.
Served(r) ==
    \A c \in Registering(r) : c.name = r.name => c.application_id \in DOMAIN Port
Answers(r) ==
    {NoServer} \union
        {s \in [port : Ports(r.application_id), hostname : Hosts] : Served(r)}

ServeSelf ==
    /\ request # NoMessage
    /\ LET heard == Received(master_buffer, request)
       IN /\ read' = deserialize_request(heard)
          /\ read'.type = 0
          /\ answer' \in Answers(read')
          /\ master_buffer' = serialize_response(heard, answer')
    /\ clients' = Registering(read') /\ Cardinality(clients') <= Known
    /\ response' = Message(master_buffer', response_size(answer'))
    /\ request' = NoMessage
    /\ UNCHANGED <<bufferVars, mainVars, loggerVars, logVars, aloneVars>>

\* "does not specify an entity": the connection is closed without an answer.
IgnoreRequest ==
    /\ request # NoMessage
    /\ master_buffer' = Received(master_buffer, request)
    /\ master_buffer'[0] # 0
    /\ request' = NoMessage
    /\ UNCHANGED <<clients, response, bufferVars, mainVars, loggerVars, logVars,
                   readVars, aloneVars>>

\* The request of another client leaves its traces in the buffer.
Request(r) == Message(serialize_request(master_buffer, r), request_size(r))
ServeOther ==
    /\ \E r \in Others : \E answered \in Answers(r) :
        /\ clients' = Registering(r) /\ Cardinality(clients') <= Known
        /\ master_buffer' =
            serialize_response(Received(master_buffer, Request(r)), answered)
    /\ UNCHANGED <<bufferVars, mainVars, loggerVars, messageVars, logVars,
                   readVars, aloneVars>>

Master == ServeSelf \/ IgnoreRequest \/ ServeOther

-------------------------------------------------------------------------------
(* The client's logger_thread, and the logger. *)

SerializeName ==
    /\ lpc = "connect" /\ lpc' = "send name"
    /\ buffer' = serialize_logger_start(buffer, FileName)
    /\ buffer_size' = logger_start_size(FileName)
    /\ LoggerWrites
    /\ UNCHANGED <<front, logVars, mainVars, masterVars, messageVars, readVars>>

\* The logger reads the name into a buffer of its own, which is not initialized.
Stack == [k \in Offsets |-> Radix - 1]
SendName ==
    /\ lpc = "send name" /\ lpc' = "rest"
    /\ file_name' =
            deserialize_logger_start(
                Received(Stack, Message(buffer, buffer_size)))
    /\ undisturbed' = logger_alone
    /\ UNCHANGED <<front, stream, confirmations, stored, bufferVars, mainVars,
                   masterVars, messageVars, readVars, aloneVars>>

SerializeEntry ==
    /\ lpc = "rest" /\ lpc' = "send"
    /\ buffer' = serialize_logger_time_point(buffer, front)
    /\ buffer_size' = EntrySize
    /\ LoggerWrites
    /\ UNCHANGED <<front, logVars, mainVars, masterVars, messageVars, readVars>>

\* send_data, and the whole buffer as room for the confirmation.  What is sent
\* joins what the logger has not read.
SendEntry ==
    /\ lpc = "send" /\ lpc' = "confirm"
    /\ Len(stream) + buffer_size <= Capacity
    /\ stream' = stream \o Message(buffer, buffer_size)
    /\ buffer_size' = Size
    /\ undisturbed' = (undisturbed /\ logger_alone)
    /\ LoggerWrites
    /\ UNCHANGED <<buffer, front, file_name, confirmations, stored, mainVars,
                   masterVars, messageVars, readVars>>

\* The logger waits for the bytes of an entry, takes these and no more, stores
\* them and confirms them with a zero byte.
Confirm ==
    /\ Len(stream) >= EntrySize /\ confirmations < Capacity
    /\ stored' = Append(stored, SubSeq(stream, 1, EntrySize))
    /\ stream' = SubSeq(stream, EntrySize + 1, Len(stream))
    /\ confirmations' = confirmations + 1
    /\ UNCHANGED <<file_name, undisturbed, bufferVars, mainVars, loggerVars,
                   masterVars, messageVars, readVars, aloneVars>>

\* One receive takes all the confirmations buffer_size has room for; none is
\* taken for the end of the connection.
ReceiveConfirmation ==
    /\ lpc = "confirm" /\ confirmations > 0 /\ lpc' = "check"
    /\ buffer_size' = Least(confirmations, buffer_size) /\ buffer_size' > 0
    /\ buffer' = Received(buffer, [i \in 1 .. buffer_size' |-> 0])
    /\ confirmations' = confirmations - buffer_size'
    /\ LoggerWrites
    /\ UNCHANGED <<front, file_name, stream, stored, undisturbed, mainVars,
                   masterVars, messageVars, readVars>>

\* The entry is taken off the queue, and another one is at its front.
Pop ==
    /\ lpc = "check" /\ buffer[0] = 0 /\ lpc' = "rest"
    /\ front' \in Numbers /\ stored' = <<>>
    /\ UNCHANGED <<file_name, stream, confirmations, undisturbed, bufferVars,
                   mainVars, masterVars, messageVars, readVars, aloneVars>>

\* Disconnect, connect anew and send the name again.  What the logger makes of
\* what is left of the old connection is no concern of the new one.
Reconnect ==
    /\ lpc' = "connect" /\ stream' = NoMessage /\ confirmations' = 0
    /\ undisturbed' = FALSE /\ stored' = <<>> /\ file_name' = <<>>
    /\ UNCHANGED <<front, bufferVars, mainVars, masterVars,
                   messageVars, readVars, aloneVars>>

NotConfirmed == lpc = "check" /\ buffer[0] # 0 /\ Reconnect

\* A send or a receive fails.
LoggerFails == lpc \in {"send name", "send", "confirm"} /\ Reconnect

LoggerThread ==
    \/ SerializeName \/ SendName \/ SerializeEntry \/ SendEntry \/ Confirm
    \/ ReceiveConfirmation \/ Pop \/ NotConfirmed \/ LoggerFails

-------------------------------------------------------------------------------
Next == MainThread \/ Master \/ LoggerThread
Spec == Init /\ [][Next]_vars

-------------------------------------------------------------------------------
(* What the exchange promises. *)

\* Every variable keeps its type; every byte is a byte, and the master knows
\* no two clients of a name.
TypeOK ==
    /\ buffer \in Buffers /\ master_buffer \in Buffers
    /\ buffer_size \in 0 .. Size
    /\ mpc \in {"idle", "send", "receive", "parse", "parsed"}
    /\ lpc \in {"connect", "send name", "rest", "send", "confirm", "check"}
    /\ server.port \in 0 .. Radix * Radix - 1 /\ server.hostname \in Texts
    /\ front \in Numbers /\ file_name \in Texts
    /\ {request, response, stream} \subseteq Seq(Bytes)
    /\ confirmations \in 0 .. Capacity /\ stored \in Seq(Seq(Bytes))
    /\ read \in Requests
    /\ clients \subseteq [name : Texts, application_id : Nat]
    /\ \A c, d \in clients : c.name = d.name => c = d
    /\ {main_alone, logger_alone, sent_alone, undisturbed} \subseteq BOOLEAN

\* The master reads the request the client made, whatever an earlier message
\* or the stack left in its buffer, as long as the client's other thread kept
\* its hands off the buffer the request was made in.
Understood == response # NoMessage /\ sent_alone => read = Self

\* The client reads the answer the master gave, under the same condition.
Answered == mpc = "parsed" /\ main_alone => server = answer

\* On a connection on which main kept off the buffer until each message was
\* sent the logger has opened the file the client named, and when an entry is
\* taken off the queue it has been stored, once and nothing else with it: the
\* reader of the file finds the number that was queued.  One send that main
\* disturbed spoils the connection: what a message has too much or too little
\* stays in the stream and shifts every later entry.
LogIntact ==
    undisturbed =>
        /\ file_name = FileName
        /\ lpc = "check" => Len(stored) = 1 /\ Value(stored[1]) = front

\* client.cpp:205 reads port 0 as "no available servers": the master had none.
PortZeroMeansNoServer ==
    mpc = "parsed" /\ server.port = 0 => answer = NoServer
===============================================================================

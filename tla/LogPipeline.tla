----------------------------- MODULE LogPipeline -----------------------------
(***************************************************************************)
(* The score log of one client: main queues a time and a score, the thread *)
(* logger_thread (src/src/client/client.cpp) sends the entries one by one  *)
(* and waits for a confirmation of each, and the logger                    *)
(* (src/src/logger/logger.cpp) runs one file_writer_thread per connection, *)
(* all of which append to the same file, the one named by the client.      *)
(*                                                                         *)
(* An entry is its number in the order of queueing: odd for a time, even   *)
(* for a score.  Connections are numbered in the order they are made.      *)
(* The bytes of an entry travel together; what two messages the network    *)
(* may join is the subject of Separate.  The byte buffer the thread shares *)
(* with main is not modelled here: an entry is what was queued.            *)
(***************************************************************************)
EXTENDS Integers, Sequences, SequencesExt

CONSTANTS
    Connections,    \* bound: connections made during the run
    Entries,        \* bound: entries queued during the run, two at a time
    BufferSize,     \* entries a file stream holds back before it writes
    Separate        \* BOOLEAN: the name has been read when the first entry comes,
                    \* the client waits 10 ms for that (client.cpp:113), and
                    \* a further second before it looks at its queue

ASSUME LogAssumption ==
    /\ Connections \in Nat \ {0} /\ Entries \in Nat
    /\ BufferSize \in Nat /\ Separate \in BOOLEAN

Ids == 1 .. Connections
NoConnection == 0
Name == 0           \* the first message of a connection

VARIABLES
    \* client: entries queued so far, output_queue, and logger_thread
    pushed, queue, lpc, conn,
    \* connections: not reset by either side; bytes on their way and back
    alive, inbox, acks,
    \* logger: the thread of each connection, what its stream holds back
    wpc, held, should_end,
    \* the file
    file,
    \* observers, read by no step: whose thread wrote each entry of the file,
    \* entries that were confirmed to the client, entries a killed logger held
    writer, confirmed, killed

clientVars == <<pushed, queue, lpc, conn>>
netVars == <<alive, inbox, acks>>
loggerVars == <<wpc, held, should_end, file, writer>>
obsVars == <<confirmed, killed>>
vars == <<clientVars, netVars, loggerVars, obsVars>>

Init ==
    /\ pushed = 0 /\ queue = <<>>
    /\ lpc = "connect" /\ conn = NoConnection
    /\ alive = [k \in Ids |-> FALSE]
    /\ inbox = [k \in Ids |-> <<>>]
    /\ acks = [k \in Ids |-> 0]
    /\ wpc = [k \in Ids |-> "none"]
    /\ held = [k \in Ids |-> <<>>]
    /\ should_end = FALSE
    /\ file = <<>> /\ writer = <<>>
    /\ confirmed = {} /\ killed = {}

-------------------------------------------------------------------------------
(* The client. *)

\* queue_data: both entries under one lock.
QueueData ==
    /\ pushed + 2 <= Entries
    /\ pushed' = pushed + 2
    /\ queue' = queue \o <<pushed + 1, pushed + 2>>
    /\ UNCHANGED <<lpc, conn, netVars, loggerVars, obsVars>>

\* connect_to; the logger starts a thread for the connection.  Attempts that
\* fail change nothing and are followed by another one.
Connect ==
    /\ lpc = "connect" /\ conn < Connections /\ ~should_end
    /\ lpc' = "name" /\ conn' = conn + 1
    /\ alive' = [alive EXCEPT ![conn + 1] = TRUE]
    /\ wpc' = [wpc EXCEPT ![conn + 1] = "name"]
    /\ UNCHANGED <<pushed, queue, inbox, acks, held, should_end, file, writer,
                   obsVars>>

\* A message on the current connection; on a broken one it comes to nothing.
Transmit(message) ==
    inbox' = IF alive[conn] THEN [inbox EXCEPT ![conn] = Append(@, message)]
             ELSE inbox

SendName ==
    /\ lpc = "name" /\ lpc' = "rest"
    /\ Transmit(Name)
    /\ UNCHANGED <<pushed, queue, conn, alive, acks, loggerVars, obsVars>>

\* Mutant of SendEntry: the newest entry is sent, not the oldest.
SendNewest ==
    /\ lpc = "rest" /\ queue # <<>>
    /\ Separate /\ alive[conn] => wpc[conn] # "name"
    /\ lpc' = "confirm"
    /\ Transmit(Last(queue))
    /\ UNCHANGED <<pushed, queue, conn, alive, acks, loggerVars, obsVars>>

\* Mutant of SendEntry: the front leaves the queue when it is sent.
SendTaking ==
    /\ lpc = "rest" /\ queue # <<>>
    /\ Separate /\ alive[conn] => wpc[conn] # "name"
    /\ lpc' = "confirm" /\ queue' = Tail(queue)
    /\ Transmit(Head(queue))
    /\ UNCHANGED <<pushed, conn, alive, acks, loggerVars, obsVars>>

\* The front of the queue stays in it until it is confirmed.
SendEntry ==
    /\ lpc = "rest" /\ queue # <<>>
    /\ Separate /\ alive[conn] => wpc[conn] # "name"
    /\ lpc' = "confirm"
    /\ Transmit(Head(queue))
    /\ UNCHANGED <<pushed, queue, conn, alive, acks, loggerVars, obsVars>>

\* send_data fails: connect anew.
SendFails ==
    /\ \/ lpc = "name"
       \/ lpc = "rest" /\ queue # <<>>
    /\ ~alive[conn]
    /\ lpc' = "connect"
    /\ UNCHANGED <<pushed, queue, conn, netVars, loggerVars, obsVars>>

Confirmed ==
    /\ lpc = "confirm" /\ acks[conn] > 0
    /\ lpc' = "pop"
    /\ acks' = [acks EXCEPT ![conn] = @ - 1]
    /\ UNCHANGED <<pushed, queue, conn, alive, inbox, loggerVars, obsVars>>

\* Mutant of ConfirmFails: the entry is given up with the connection.
ConfirmFailsPopping ==
    /\ lpc = "confirm" /\ ~alive[conn]
    /\ lpc' = "pop"
    /\ UNCHANGED <<pushed, queue, conn, netVars, loggerVars, obsVars>>

\* Mutant of ConfirmFails: the lost connection goes unnoticed.
ConfirmFailsSilently ==
    /\ lpc = "confirm" /\ ~alive[conn]
    /\ UNCHANGED vars

\* receive_data fails.
ConfirmFails ==
    /\ lpc = "confirm" /\ ~alive[conn]
    /\ lpc' = "connect"
    /\ UNCHANGED <<pushed, queue, conn, netVars, loggerVars, obsVars>>

Pop ==
    /\ lpc = "pop" /\ lpc' = "rest"
    /\ queue' = Tail(queue)
    /\ confirmed' = confirmed \union {Head(queue)}
    /\ UNCHANGED <<pushed, conn, netVars, loggerVars, killed>>

LoggerThread ==
    \/ Connect \/ SendName \/ SendEntry \/ SendFails
    \/ Confirmed \/ ConfirmFails \/ Pop

\* simulate.sh deletes the pods of all clients: the queue is lost.
RestartClient ==
    /\ conn < Connections
    /\ lpc' = "connect" /\ queue' = <<>>
    /\ alive' = [k \in Ids |-> FALSE]
    /\ UNCHANGED <<pushed, conn, inbox, acks, loggerVars, obsVars>>

-------------------------------------------------------------------------------
(* The logger. *)

\* receive_data returns what has come so far, up to its whole buffer; the
\* name is its beginning, the rest is not looked at.
ReadName(k) ==
    /\ wpc[k] = "name" /\ inbox[k] # <<>>
    /\ wpc' = [wpc EXCEPT ![k] = "entry"]
    /\ inbox' = [inbox EXCEPT ![k] = <<>>]
    /\ UNCHANGED <<clientVars, alive, acks, held, should_end, file, writer,
                   obsVars>>

\* The connection goes before the name comes.
NoName(k) ==
    /\ wpc[k] = "name" /\ inbox[k] = <<>> /\ ~alive[k]
    /\ wpc' = [wpc EXCEPT ![k] = "closed"]
    /\ UNCHANGED <<clientVars, netVars, held, should_end, file, writer,
                   obsVars>>

\* The thread of connection k puts entries at the end of the file.
Put(k, entries) ==
    /\ file' = file \o entries
    /\ writer' = writer \o [i \in DOMAIN entries |-> k]

\* One entry is read and written to the stream, which passes on all it holds
\* when it is full.
Write(k) ==
    /\ wpc[k] = "entry" /\ inbox[k] # <<>>
    /\ LET all == Append(held[k], Head(inbox[k])) IN
        IF Len(held[k]) = BufferSize
        THEN Put(k, all) /\ held' = [held EXCEPT ![k] = <<>>]
        ELSE held' = [held EXCEPT ![k] = all] /\ UNCHANGED <<file, writer>>
    /\ inbox' = [inbox EXCEPT ![k] = Tail(@)]
    /\ wpc' = [wpc EXCEPT ![k] = "confirm"]
    /\ UNCHANGED <<clientVars, alive, acks, should_end, obsVars>>

\* Mutant of Confirm: the confirmation may be sent again.
ConfirmTwice(k) ==
    /\ wpc[k] = "confirm"
    /\ wpc' \in {wpc, [wpc EXCEPT ![k] = "entry"]}
    /\ acks' = IF alive[k] THEN [acks EXCEPT ![k] = @ + 1] ELSE acks
    /\ UNCHANGED <<clientVars, alive, inbox, held, should_end, file, writer,
                   obsVars>>

Confirm(k) ==
    /\ wpc[k] = "confirm"
    /\ wpc' = [wpc EXCEPT ![k] = "entry"]
    /\ acks' = IF alive[k] THEN [acks EXCEPT ![k] = @ + 1] ELSE acks
    /\ UNCHANGED <<clientVars, alive, inbox, held, should_end, file, writer,
                   obsVars>>

\* The thread ends: its stream is closed and written.
Close(k) ==
    /\ wpc' = [wpc EXCEPT ![k] = "closed"]
    /\ Put(k, held[k])
    /\ held' = [held EXCEPT ![k] = <<>>]
    /\ UNCHANGED <<clientVars, netVars, should_end, obsVars>>

ConfirmationFails(k) == wpc[k] = "confirm" /\ ~alive[k] /\ Close(k)

\* should_end is seen between two entries, on timeouts too.
End(k) == wpc[k] = "entry" /\ should_end /\ Close(k)

Writer(k) ==
    \/ ReadName(k) \/ NoName(k) \/ Write(k) \/ Confirm(k)
    \/ ConfirmationFails(k) \/ End(k)

\* A key is pressed; only a logger that has a thread is worth stopping.
Stop ==
    /\ ~should_end /\ conn < Connections
    /\ \E k \in Ids : wpc[k] \notin {"none", "closed"}
    /\ should_end' = TRUE
    /\ UNCHANGED <<clientVars, netVars, wpc, held, file, writer, obsVars>>

\* main has joined its threads, the process ends and is started again.
RestartLogger ==
    /\ should_end /\ \A k \in Ids : wpc[k] \in {"none", "closed"}
    /\ should_end' = FALSE
    /\ alive' = [k \in Ids |-> FALSE]
    /\ UNCHANGED <<clientVars, inbox, acks, wpc, held, file, writer,
                   obsVars>>

\* The process is killed: what the streams hold is lost.
KillLogger ==
    /\ conn < Connections
    /\ wpc' = [k \in Ids |-> IF wpc[k] = "none" THEN "none" ELSE "closed"]
    /\ killed' = killed \union UNION {Range(held[k]) : k \in Ids}
    /\ held' = [k \in Ids |-> <<>>]
    /\ alive' = [k \in Ids |-> FALSE]
    /\ should_end' = FALSE
    /\ UNCHANGED <<clientVars, inbox, acks, file, writer, confirmed>>

\* The network resets a connection; bytes on their way may be lost with it.
Break(k) ==
    /\ alive[k] /\ k < Connections
    /\ alive' = [alive EXCEPT ![k] = FALSE]
    /\ inbox' \in {inbox, [inbox EXCEPT ![k] = <<>>]}
    /\ UNCHANGED <<clientVars, acks, loggerVars, obsVars>>

-------------------------------------------------------------------------------
Next ==
    \/ QueueData \/ LoggerThread \/ RestartClient
    \/ \E k \in Ids : Writer(k) \/ Break(k)
    \/ Stop \/ RestartLogger \/ KillLogger

Spec == Init /\ [][Next]_vars

\* Threads that are not blocked go on, and a stopped logger is started again.
FairSpec ==
    /\ Spec
    /\ WF_vars(LoggerThread) /\ WF_vars(RestartLogger)
    /\ \A k \in Ids : WF_vars(Writer(k))

-------------------------------------------------------------------------------
(* What the log promises. *)

Messages == 0 .. Entries

\* Every variable keeps its type; at most one confirmation is under way.
TypeOK ==
    /\ pushed \in 0 .. Entries /\ queue \in Seq(Messages)
    /\ lpc \in {"connect", "name", "rest", "confirm", "pop"}
    /\ conn \in Ids \union {NoConnection}
    /\ alive \in [Ids -> BOOLEAN]
    /\ inbox \in [Ids -> Seq(Messages)]
    /\ acks \in [Ids -> 0 .. 1]
    /\ wpc \in [Ids -> {"none", "name", "entry", "confirm", "closed"}]
    /\ held \in [Ids -> Seq(Messages)] /\ should_end \in BOOLEAN
    /\ file \in Seq(Messages)
    /\ writer \in Seq(Ids) /\ Len(writer) = Len(file)
    /\ confirmed \in SUBSET Messages /\ killed \in SUBSET Messages

\* What is in the file, is held by a stream that will write it, or was held
\* by one when the logger was killed.
Recorded == Range(file) \union killed \union UNION {Range(held[k]) : k \in Ids}

\* An entry that was confirmed to the client is in the file or held by a
\* stream that will write it, unless the logger was killed while it held it:
\* breaking, restarting and stopping lose nothing that was confirmed.
NothingLost == confirmed \subseteq Recorded

\* In the file the entries of one connection stand in the order they were
\* queued, and those of a later connection are not older, wherever they stand:
\* the later one goes back by one entry at most, the one whose confirmation was
\* lost.  So the file itself is out of order only where the thread of an
\* earlier connection wrote last, what its stream had held back or what came
\* late; read_score_file.m:5-9, which takes the entries two by two as they
\* stand, does not allow for that.
OrderKept ==
    \A i, j \in DOMAIN file :
        /\ writer[i] = writer[j] /\ i < j => file[i] < file[j]
        /\ writer[i] < writer[j] => file[i] <= file[j]

\* The log implements its promise: whatever connections and processes do, an
\* entry leaves the queue from the front, and only when it is recorded, and
\* none is recorded before its turn (logger_thread sends the front and pops
\* it when it was confirmed).
Log == INSTANCE AtLeastOnce
       WITH pending <- queue, recorded <- Recorded, acknowledged <- confirmed
KeepsPromise == Log!Spec

\* The queue is sent: an entry does not wait for ever, although connections
\* break and either process is restarted (client.cpp:113, "make sure that
\* packets are separate").
Drains == queue # <<>> ~> queue = <<>>
===============================================================================

# A verification project for ResourceAllocationE2EL

The repository is a testbed for allocating edge resources to clients: a *master*
hands out nodes, *clients* run a periodic application against *servers* on those
nodes and leave when deadlines are missed, a *logger* collects what the clients
measured, and the network emulator AdvantEDGE (not part of the repository) moves
the user equipments around. This directory models that program in TLA+, checks
the models with TLC on small instances, and proves with TLAPS every safety property
the passing runs check, for every value of the constants. Paths below are relative to
`src/src/` unless they say otherwise.

## 1. The system

| part | files | state it keeps | operations |
|---|---|---|---|
| master | `master/master.cpp`, `node.*`, `client.*` | `clients` (name, application, location, node), `nodes` (list of clients), `history_scores`, output file | main loop: accept, receive a request, register, locate, score, select, reply; simulation thread: move a user equipment, refresh its location |
| client | `client/client.cpp`, `client_lab/client_lab.cpp` | score, connection, queue of log entries | ask the master, connect to a server, run cycles, score them, disconnect, queue the score |
| application | `client/*_application/application.cpp`, `client_lab/application_lab.cpp` | schedule of thresholds, `should_start`, `finished`, deadlines | cycles thread: one request to the server and its answer per cycle |
| logger | `logger/logger.cpp` and `logger_thread` of the clients | a file per client | receive a name, then 8-byte entries, each acknowledged by one byte |
| TCP | `TCP/clientTCP.*`, `TCP/serverTCP.*` | socket, `connected`, threads | connect/listen with time limits, send, receive, receive an exact size, disconnect |
| serializer | `serializer/serializer.*` | none | byte layout of request, response and log entries |
| server | `server/server.cpp`, `server_lab/server.cpp` | one thread per connection | receive two frames of a known size, compare them, send the answer |
| emulator | external | place of every user equipment | HTTP: location of a user, mobility event |

Interactions: client -> master is one request and one response per connection;
client -> server is a long-lived connection over which the cycles thread and the
main thread of the client share one `ClientTCP`; client -> logger is a long-lived
connection fed from a queue by a thread of its own; master -> emulator is HTTP
from two threads. Nothing is guarded by a lock except the queue of log entries.

What is hard in this code: two threads of the master share the registry; two
threads of the client share a connection, the deadlines and a byte buffer;
receives wait with a time limit in one loop and then block in `recv`; a receive
may return part of a message; the master keeps everything in memory and
`master/simulate.sh` kills and restarts it while the clients are restarted too;
log entries are sent again after a lost acknowledgement.

What makes each part correct:

* master: the node list and the node pointer of a client agree; a client is only
  on a node of its application; the reply names the node it was put on; the node
  chosen is one with the best score; the output file counts what is served;
  every request that has been read is answered.
* client: the score stays in range and follows the deadlines; a disconnected
  client asks again; log entries are queued in pairs of time and score.
* application: the threshold index stays in the list and is the row of its time; a
  cycle is finished once per start; the answer a cycle reads is its own.
* server: a worker compares the two frames of one cycle, uses no connection but its
  own, and ends when its client is gone.
* logger: every entry that is confirmed is kept, unless the logger is killed with it in
  a stream; the entries of one connection are in the file in the order they were queued,
  and a new connection repeats one at most. The file as a whole has no such order: what an
  old connection's writer holds back is written when that writer ends.
* TCP: a descriptor stands for one connection as long as its owner may use it.
* serializer: what was serialized is what is deserialized, whatever the buffers of
  both sides held before.

## 2. Modules

| module | what it is | code |
|---|---|---|
| `Selection` | pure operators: distance, network score, winner of a scored list | `master/master.cpp` 567-800 |
| `Master` | state machine of the master's two threads; `Spec`, `FairSpec` | `master/master.cpp`, `node.cpp`, `client.cpp` |
| `Allocation` | abstract specification: who is on which node | what `Master` promises |
| `MasterProofs` | proofs about `Master`: the registry and what it implements | |
| `PlacementProofs` | proofs about `Master`: which node a client gets | |
| `ClientLoop` | a client: main thread, cycles thread, sockets, servers | `client/client.cpp`, `client/simulated_application/application.cpp`, `TCP/clientTCP.cpp` |
| `ClientProofs` | proofs about `ClientLoop` | |
| `Deadlines` | the schedule of thresholds, the deadlines, the score and its time stamps, against a clock | both `application.cpp`, `client/client.cpp` 258-380 |
| `DeadlineProofs` | proofs about `Deadlines` | |
| `NumberLemmas` | remainders, least elements, induction, repeated steps | |
| `Motion` | a client that sends two frames a cycle, and a server with a thread per connection and a table of descriptors | `client/motion_detection_application/application.cpp`, `server/server.cpp`, `server_lab/server.cpp`, `TCP/serverTCP.cpp` |
| `MotionProofs` | proofs about `Motion` | |
| `Wire` | pure operators: the layout of every message | `serializer/serializer.cpp` |
| `Exchange` | a client's messages to the master and the logger, byte by byte, in the buffer its two threads share | `client/client.cpp` 84-215, `master/master.cpp` 186-230 and 303-365, `logger/logger.cpp` |
| `ExchangeProofs` | proofs about `Wire` and `Exchange` | |
| `LogPipeline` | the queue of log entries, `logger_thread`, connections, writer threads, the file | `client/client.cpp` 84-170, `logger/logger.cpp` |
| `AtLeastOnce` | abstract specification: what is taken off the queue, and when | what `LogPipeline` promises |
| `LogProofs` | proofs about `LogPipeline` | |
| `MCMaster`, `MCClient`, `MCDeadlines`, `MCMotion`, `MCExchange`, `MCLog` | instances for TLC | `master/limits.txt`, `real-motion.yaml` |

`Master` instantiates `Allocation`, and `LogPipeline` instantiates `AtLeastOnce`, under a
refinement mapping; `Exchange` composes the
client, the master and the logger over `Wire`; `Motion` composes a client and a
server. `PROJECT.json` maps every definition to its lines. An operator whose comment
begins with "Mutant" is a definition as a plausible bug would have it; no
specification uses it, and `PROJECT.json` names the property it breaks.

### Master

The main loop is cut where another thread can act on what it uses: at calls that
leave the process (accept, receive, HTTP), at each of the two location setters, and
at each node of the scoring loop. `pc` names the place: `listen`, `receive`,
`register`, `locate`, `poa`, `zone`, `scan`, `reply`. The actions are `Accept`,
`Receive`/`ReceiveNothing`, `Register` (get or create the client and take it off
its node), `Locate` (GET of the location, which may throw), `StorePoa`, `StoreZone`,
`ScanNode`, `SelectNone`/`SelectNode` and `Reply`. The simulation thread
has `spc` and walks through `Events`: `Fire`/`FireUnknown`, `Post`, the GET, and the
same two setters. `members[n][c]` is how often client `c` occurs in the list of
node `n`; `cnode[c]` is the client's pointer; `scores` is the list `select_node`
is given. `RANDOM`, `NEAREST` and `SCORE` are all there; `Score` is the weighted sum of
history, hardware, network and distance. `rand() % 100`, elapsed times and
what an unassigned `server_port` holds are drawn from constants.

### Client

`mpc` is the place of `main`: `loop` (its `if` on `is_connected`), `sleep`, `ask`,
`connect`, `start` (between the two flags of `Application::start`), `wait`, `judge`.
`cpc` is the place of the cycles thread. Both threads call the same `ClientTCP`
object, so every call reads `connected` and `socket_id` anew, but a thread already
inside `send` or `recv` stays on its socket (`using`) although the other thread
closes it; such a socket is `orphan` until the call returns. `due` and `inbox` count
the requests a server has not answered and the answers not read. `own` and
`answered` are observers.

The cycles thread is not allowed to stand still for the second `main` sleeps before
it asks the master (`Awake`): without that, every step of the thread could be delayed past
the next connection, which no scheduler does for a second.

### Deadlines

`ClientLoop` lets a deadline pass at any moment; `Deadlines` says when. `Lines` are the
rows of `data.txt` that are separated by commas, each with a minimum, a maximum and the
end of its interval. `correct_threshold_index` is cut in two, because it has a loop:
`LookUp` reads the clock, folds it onto the first period (`Relative`) and rewinds
(`Rewound`), for which the code reads the end of the row before the last; with one row this is
the element before the list, and `EndsBeforeLast` has outcomes on both sides of the
comparison; `Advance` is one turn of the loop; `Found` ends it. `main` looks up the
minimum and the maximum of a cycle separately, and the maximum again at each deadline it
misses (`LookUpMin`, `LookUpMax`, `MissDeadline`). `Tick` moves the clock by any amount
between any two steps, so every delay of the machine is there. `time_now`
and `stamp` are the time `main` has read last and the time of the score it queued last.
`before`, `last_end`, `last_look` and `regular` are observers.

### Motion

The client is that of `ClientLoop`, its main thread reduced to what the cycles thread
sees of it: it starts cycles, gives the connection up at any moment and makes a new one a
second later. `run_one_cycle` sends the base frame and the current frame by two calls;
each reads `connected` and `socket_id` anew, so the second could go to another
connection. A frame is larger than a segment: it arrives in `Pieces` (`Arrive`), and
`receive_data_exact_size` waits until a whole frame can be read (`Whole`). The server has
the accept loop (`Listen`, `Accept`, `AcceptFails` when the table is full, which closes the
listening socket and its backlog) and a worker for each connection, which knows it by
`wsocket`, a number in `table`: what the worker reads, answers or closes is whatever the
table holds there (`At`). `socket`, `accept` and `close` take the lowest free number and
give it back, as the kernel does. The worker's places are `base`, `current` and `reply`.

### Wire and Exchange

A text is a sequence of bytes other than zero; `Written` and `TextAt` are `memcpy`,
`strcpy` and the reading of a C string, and the operators named for the functions of
the serializer are built from them. `Exchange` keeps three buffers: the
global `buffer` of the client with `buffer_size`, used by `main` (`mpc`) and by
`logger_thread` (`lpc`) without a lock; the master's, which it never clears and uses for
the requests of all clients; and the logger's, on the stack. `clients` is the master's
registry as far as an answer depends on it: a client keeps the application it first asked
for, and no node serves one that has no port. Each serializing, sending,
receiving and parsing is a step, so the other thread can come between any two. A receive
takes as much as `buffer_size` has room for at that moment. What `logger_thread` sends is a
`stream` of bytes, of which the logger takes eight at a time: a send whose `buffer_size`
`main` has enlarged leaves bytes that the logger takes for the next entry, and
`confirmations` beyond the one that is waited for. `main_alone`,
`logger_alone` and `sent_alone` observe whether the other thread kept its hands off the
buffer, `undisturbed` whether `main` did at every send of the present connection to the
logger; `read` and `answer` what the master read and answered, `stored` the entries stored
since one was last taken off the queue.

### Log

`logger_thread` of the client and one writer per connection of the logger, with
everything that may come between: connections break with or without the bytes under
way, the client's pod is deleted, the logger is stopped with a key or killed.
`held` is what a writer's `fstream` has not passed on; `file` is in the order in which the
streams pass on what they hold. `writer` (which connection each entry of the file came
over), `confirmed` and `killed` are observers.

`AtLeastOnce` forgets connections and threads: what is left is the queue, what is recorded and
what was taken off. `Write` is its `Record`, `Pop` its `Acknowledge`, `RestartClient` its
`Forget`, every other step but `QueueData` a stutter. What counts as recorded is in the file,
held by a stream, or was held by one that was killed (`Recorded`).

## 3. What the runs check

Eight runs pass:

* `master_moving`: RANDOM over nodes of two applications, two clients that ask again at
  any moment, three moves over and over, every HTTP call may fail. The registry is
  consistent at every step (`MutualRegistration`), the allocator is implemented
  (`Allocates`), a node's load is part of its traffic (`LoadWithinTraffic`) and a request
  that has been read is answered (`EveryRequestFinishes`, under fairness).
* `master_still`: NEAREST without moves, with HTTP failures. One client is restarted under
  another application, the other under one that no node serves. The node chosen is a
  nearest one as seen from the stored location (`NearestChosen`), clients are only on nodes
  of their application (`ServesApplication`), the output file counts what is served
  (`OutputCurrent`) and the reply names the node the client was put on
  (`ReplyIdentifiesNode`).
* `master_balance`: SCORE with the hardware factor alone, five clients over two
  applications: nodes of one application differ by one client at most (`LoadBalanced`).
* `client_safe`: three sockets, score up to 4: the score stays in range
  (`ScoreInRange`), requests and answers stay in step (`InStep`), waiting ends although
  a completion can be lost between the flags of `start()` (`WaitEnds`).
* `deadlines`: three rows of different lengths, looked up at any time over more than two
  periods. The walk stays in the list (`IndexInRange`: the loop at
  `simulated_application/application.cpp:171` has no other bound), the row found is the row
  of its time if look-ups are closer than the last row is long (`RightInterval`: the rewind
  at 161 happens only during that row), k points are never taken for less than k deadlines
  (`NeverOvercharged`) and a score that rises is stamped after the cycle before
  (`StampFollowsCycle`).
* `motion`: a client that reconnects twice, a server whose table two workers and the
  listening socket fill. A number stands for one connection while its owner may use it
  (`OwnDescriptor`), frames of different cycles are never compared (`Paired`), no cycle
  reads the answer of another (`AnswerInStep`), and a worker whose client is gone ends
  and gives its number back although nobody tells it (`WorkerEnds`, under fairness).
* `exchange`: every interleaving of the two threads, with a second client at the master.
  If the other thread kept its hands off the buffer, the master reads the request
  that was made (`Understood`), the client reads the answer that was given (`Answered`), the
  logger opens the file that was named, and an entry taken off the queue has been stored once,
  alone, with the number that was queued (`LogIntact`). For the log the condition is on every
  send since the connection was made: one disturbed send shifts all later entries.
* `log_safe`: three connections, four entries: what was confirmed is kept, a stream of a
  killed logger excepted (`NothingLost`), what one connection brought is in the file in order
  and a new connection repeats one entry at most (`OrderKept`), an entry is taken off the
  queue only when it is recorded and none is recorded before its turn (`KeepsPromise`), the
  queue drains (`Drains`).

Four runs look for a violation and find it. They record where the code disagrees
with what its comments say:

* `master_mid_scan` (`NearestFromSomewhere`): the location is read anew for every node of the
  scoring loop. A move in between mixes two places, and the node chosen is nearest from
  neither.
* `client_stale` (`FinishedMeansServed`): a `recv` that outlives its connection raises
  `finished` for a cycle of the next one, which is scored as a success.
* `exchange_shared` (`PortZeroMeansNoServer`): the answer has been received, then
  `logger_thread` serializes a log entry into the shared buffer, whose first two bytes are
  zero, and `deserialize_response` reads port 0, "no available servers", although the master put
  the client on a node and said so.
* `log_joined` (`Drains`): if the first entry arrives together with the name it is dropped and
  the client waits for its confirmation for ever. The code sleeps 10 ms and then a further
  second between the two, so a name delayed or sent again by TCP for that long is what it takes.

### Bounds, and why they are enough

* Master: two clients are what it takes for one to be traffic for the other; four
  to six nodes contain two of one application in one zone, a zone node and a node of another
  zone. The balance run has five clients so that three share an application with
  three nodes. Three moves bring a client away and back while the other one moves. Scores
  and factors are small integers; `Decay`, `Lags` and `Elapsed` are one and zero because
  history is not weighed in these runs; the two outcomes of `rand()` are the ends of its range.
* Client: an orphan `recv`, the connection in use and a third one being dialled need
  three sockets. A maximum of 4 gives a first score of 2, so that one miss is survived and two
  are not, and rises are cut off at the top.
* Deadlines: three rows have a first, an inner and a last one; lengths and deadlines differ,
  so a wrong row shows. `Horizon` is two periods and two: the index is rewound twice, and a
  gap between look-ups can skip the last row. A fourth row of the file is not separated by
  commas and must be left out.
* Motion: three connections are one whose worker still waits for its time limit, one in
  use and one more to be accepted in a full table of three numbers; a frame of two pieces can be
  there in part; two cycles are what it takes to confuse two.
* Exchange: bytes of three values make a port and a number that need two bytes and texts that
  differ; seven bytes are room for the longest message, and for more than an entry, so that an
  over-long send leaves something in the stream. `Capacity` lets one such send in at a time,
  `Known` is as many clients as there are. The other client's request is longer than this
  one's, and an answer with a host longer than one without, so that what an earlier message
  leaves behind would be read. The number queued begins with two zero bytes, as every time and
  score of the program does.
* Log: two restarts need three connections; four entries are two pairs, of which the
  second can be queued while the first is under way. A stream that holds one entry
  back shows what one that holds back more would. `Connections` bounds breaks and restarts, too.

Symmetry is not used: the runs that could use it check liveness or order their clients by
application.

### Fairness, and why the code justifies it

* `WF(Serve)` of the master: once a request has been read the main thread only makes calls
  that return (HTTP with a time limit, sends of a few bytes), so it goes on. Accepting and
  receiving are not assumed to happen.
* `WF(MainThread)` of `ClientLoop`: sleeps end and deadlines pass. Nothing is assumed of
  the cycles thread or of a server.
* `WF(Worker(c))` of `Motion`: threads of the server are scheduled, and the two seconds of
  `receive_data_exact_size` end. Nothing is assumed of the client, of the network or of the
  accept loop.
* `WF(LoggerThread)`, `WF(Writer(k))` and `WF(RestartLogger)` of the log: threads that are not
  blocked run; a logger that was stopped is started again, as `README.md` tells the user to.
  Breaks and restarts are not fair and can happen only as often as there are connections.

Deadlock is checked in the runs of the master, the client and the exchange. The others may
stop: the clock reaches its horizon, the client has made its connections and cycles, all
entries are sent or all connections used up.

## 4. What is proved

For every value of the constants, with TLAPS:

* `MasterProofs`: `TypeCorrect`, `Mutual` (`MutualRegistration`), `RightApplication`
  (`ServesApplication`), `OutputIsCurrent` (`OutputCurrent`) and `Implements` (`Allocates`: the
  master implements `Allocation`, steps that touch no registry being stutters).
  Assumptions: a finite set of clients, a finite list of nodes, and the kinds of the
  other constants. The inductive invariant `Inv` adds what the code relies on
  between its calls: the simulation thread has an event from `Fire` to its last
  setter, the client of a request is known and on no node from `Register` to
  `SelectNode` (`ClientOff`, without which adding it to a list would make it occur
  twice), and only nodes of its application are in the list of scores.
* `PlacementProofs`, on top of `Inv`:
  * `LoadIsTraffic` (`LoadWithinTraffic`): the load is a sum over the list of a node, the traffic
    the size of a set of clients. Each client is at most once in a list, so the sum is the size
    of a set (`SumOfOnes`), and every client in it crosses the node's zone by being served there.
  * `ReplyNamesNode` (`ReplyIdentifiesNode`), if no application has two nodes at one place
    (`OneNodeAPlace`, true of `limits.txt`): the host name is made of the place.
  * `NearestWithoutMoves` (`NearestChosen`), if `simulation.txt` is empty. `master_mid_scan`
    shows that this is needed. `NearestInv` says that the list holds the distance of every
    node of its application already passed (`ListComplete`), from the location it has now.
  * `LoadStaysBalanced` (`LoadBalanced`), if the hardware score is all that counts and more load
    is worse (`LoadAlone`, the factors of `master_balance`); the simulation file is any.
    `LoadBalanced` speaks of the time between two requests. During a request the client is
    counted nowhere, and the loads may differ by two: `NearlyEven` says that they are even
    once the client is counted on the node it has left, and `EvenAgain` that
    counting it on a least loaded node instead keeps them even. That the node chosen is least
    loaded is `ScoredByLoad`: no load changes while the list is made.
* `ClientProofs`: `TypeCorrect`, `ScoreBounded` (`ScoreInRange`) and `Synchronous`
  (`InStep`), for any set of sockets and any maximum of at least 2 (with 1 the first score
  would be 0). `Inv` is the type and five parts: the score by place of `main`
  (`ScoreInv`); a socket with a call inside it is not free (`CallHolds`); while `main` asks
  or connects, the object is not connected and nobody polls it (`Quiet`); a socket being
  connected is new, so nothing is owed on it and no call is inside it (`Fresh`); and what
  is owed on the current connection at each point of a cycle (`Owing`). `InStep` speaks of
  a cycle at rest only and is not inductive: it holds because a call that outlives its
  connection is on another socket than the one in use, which is what `Fresh` and the clause
  of `Owing` about `using` carry from step to step.
* `DeadlineProofs`: `TypeCorrect`, `WalkStaysInList` (`IndexInRange`), `RightRow`
  (`RightInterval`), `ChargedFairly` (`NeverOvercharged`) and `StampsFollow`
  (`StampFollowsCycle`), for every schedule with a row (a single one, too) and a positive last
  end, every maximum of at least 2 and every course of the clock. The walk stays in the list
  because a folded time is before the last end (`WithinPeriod`), sorted or not. `RightRow`
  alone assumes that the ends are sorted (`Sorted`): an unsorted `data.txt` is walked past
  rows it should stop at. Its strengthening says where the index may be while the walk is
  under way, and rests on `NumberLemmas`: two times less than a period apart fold onto the
  same period or onto successive ones. `ChargedFairly` is an induction over the deadlines,
  carried by an invariant that bounds the pushed deadline from below by a multiple of the
  least `max` of the schedule.
* `LogProofs`: `TypeCorrect`, `KeepsEntries` (`NothingLost`) and `KeepsOrder` (`OrderKept`),
  for any number of connections, of entries and of entries held back, whether or not the name
  is read separately. `IInv` says that the queue is the run of numbers up to the last one
  queued (`Queued`), connections that are not made yet are untouched (`Fresh`) and at most one
  message and confirmation is under way on the current one (`OneUnderWay`). `NothingLost`
  needs `FrontSafe`: when a confirmation is under way or has come, what it confirms is the
  front of the queue, and is safe already. `OrderKept` speaks of the entries of one connection
  in `file` (`Of`), which every writer appends to. Its strengthening goes beyond the file to
  what the writers hold: the entries of one connection are in a row, those in the file first
  (`InRow`), those of a later connection are not older (`Across`), none is beyond the front of
  the queue (`Behind`), and what is under way on any connection, old ones included, fits
  between what was recorded before and after it (`InPlace`). `Implements` (`KeepsPromise`) is
  the refinement, action by action: `FrontSafe` makes a `Pop` an `Acknowledge`, `InPlace` and
  `Genuine` (what waits to be read was pushed) make a `Write` a `Record`, and `RecordedNext`
  says that nothing else changes what is recorded.
* `MotionProofs`: `TypeCorrect`, `DescriptorsOwned` (`OwnDescriptor`), `FramesPaired`
  (`Paired`) and `AnswersInStep` (`AnswerInStep`), for any number of connections, descriptors,
  pieces and cycles. `OwnDescriptor` is carried by `Life` (the server's end of a
  connection is open exactly as long as it has a worker), because `close` is called once, by
  that worker. `Paired` and `AnswerInStep` need to know which frames are on a connection:
  `Shape` lists what may be there that no answer was given to (nothing, one frame, or
  the base and the current frame of one cycle, under way or with the worker), on connections
  long given up, too. `InUse` ties it to the place of the cycles thread: a thread about to
  send finds the connection clean, or with the base frame of its cycle, *or clean
  because it was made between the two calls*, when the current frame goes out alone and is
  never paired: the worker takes it for a base frame and waits for another. A thread in a
  call on an older connection than the one in use leaves the latter clean.
* `ExchangeProofs`, about `Wire`: `RequestDelivered`, `ResponseDelivered` and `NameDelivered`:
  what fits the buffers is read as it was written, for any buffer size and any radix, whatever
  both buffers held before. The sizes are part of the statement: the bytes sent are those the
  size operator counts, and the ending zero is among them. `NumberRecovered`: the reader of
  the log finds the number that was written, if it has no more digits than an entry has bytes.
* `ExchangeProofs`, about `Exchange`: `TypeCorrect`, `RequestUnderstood` (`Understood`),
  `ResponseAnswered` (`Answered`) and `LogUnderstood` (`LogIntact`), for any messages that fit
  (`ExchangeAssumption`) and any interleaving. `Inv` says what the buffer holds at each place
  of a thread that has had it for itself (`RequestMade`, `AnswerMade`, `NameMade`,
  `EntryMade`). `LogIntact` needs more: on an undisturbed connection the stream and the
  confirmations hold what the place of `logger_thread` says and nothing else, that is one
  entry or its confirmation after a send, and neither at rest. `TypeCorrect` has no such
  condition: what a thread reads from a buffer the other one has overwritten is still a
  request, a response or a number.

The invariants that strengthen a property were checked by TLC before they were proved. Where a
definition is recursive (a number shifted by one byte after the other, the sum over a list),
its proof exhibits a function that satisfies the recursion and compares it with the definition
by a least counterexample (`LeastExists`, `Induction`, `Iterates` in `NumberLemmas`), because
the library's induction theorems take an operator as a parameter, which the provers cannot
instantiate.

The prover is given no axiom; the assumptions are those the modules name, and TLC
evaluates them for every instance.

Only model-checked: `EveryRequestFinishes`, `WaitEnds`, `WorkerEnds` and `Drains`. They are
liveness properties under fairness, and this prover does not handle ENABLED, which fairness is
defined by. The theorems with a hypothesis of their own are checked by TLC on instances that
satisfy it; the four violations are of properties that do not hold, and there is nothing to
prove.

## 5. What is not modelled

* Races on memory: the `clients` vector of the master, which the simulation thread
  searches while main appends; strings written while they are read; the list of threads the
  logger walks while one is added. Any outcome is possible there, and the models take the
  whole operation as one step.
* A small message that is split: `receive_data` returns what has come after 5 ms of silence.
  A request, a response and the name of a log are one segment each, and `Exchange` takes them
  whole; entries are a stream of bytes there. A
  `send` that takes part of its data is not modelled either.
* Descriptors of the client: `ClientLoop` identifies a socket with its open description, so a
  second `close` of a number that has been reused is not seen, nor are descriptors that a
  failed connection leaves open. `Motion` has the numbers of the server.
* The master over its restart by `simulate.sh`: every client is restarted with it, and the
  empty registry is where the runs of `Master` begin.
* Clocks that are set back, and the average delay, which is printed and never used.
* `client_advanced.cpp` and `client_lab/`, which do not compile at this commit;
  `server_simple.cpp` and `client_simple.cpp`, early experiments nobody talks to;
  `master/server.cpp` and the messages of servers to the master, which are commented out;
  `deserialize_logger_time_point` and `receive_data_exact_size_no_timeout`, which nobody
  calls. The rectangle `server_lab` sends back is an answer without contents.
* Printing, log files that cannot be opened, image processing, most of the Matlab scripts,
  build and deployment files. `PROJECT.json` gives the reason for each component.

## 6. What could follow

1. A `Receive` that returns part of a small message, under `Exchange`: which prefixes a
   parser takes for a message, and what it makes of the rest.
2. Client and master over restarts by `simulate.sh`, from the allocation of a node to the
   connection, with what the client believes about its node.
3. Proofs: that the registry, the placement and the reply of `Master` together implement an
   allocator that chooses by a given order of the nodes, for each algorithm; a bound on the
   imbalance when history or distance are weighed, too.

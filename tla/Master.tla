-------------------------------- MODULE Master --------------------------------
(***************************************************************************)
(* The master (src/src/master/master.cpp): its main thread serves one      *)
(* connection after the other and decides which node a client gets; its    *)
(* simulation thread moves user equipments through the network emulator    *)
(* and refreshes the locations the main thread decides on.  The two share  *)
(* the registry of clients and the stored locations without a lock, so the *)
(* model interleaves them at every call that leaves the process, at every  *)
(* setter of a location and at every node of the scoring loop.             *)
(***************************************************************************)
EXTENDS Selection, Functions

CONSTANTS
    Algorithm,      \* first word of parameters.txt
    Factors,        \* [history, hardware, network, distance] of parameters.txt
    Decay,          \* history_decay_factor, in units of the smallest score
    Lags,           \* ms from the start of a scoring pass to a new history entry
    Elapsed,        \* ms between two scoring passes of one client
    RandomScores,   \* outcomes of rand() % 100
    RequestApps,    \* application ids a client may be started with
    GarbagePorts,   \* what an unassigned server_port can hold
    ZoneOf,         \* the zone of every point of access in the emulator
    InitialPlaces,  \* where the user equipments may start
    Events,         \* <<[client, poa], ...>>, the moves of simulation.txt
    HttpMayFail     \* whether a request to the emulator can throw

VARIABLES
    \* main thread
    pc, req, found, scan, scores, response,
    \* objects shared by the threads
    clients, app, cnode, members, loc, history, output,
    \* simulation thread
    spc, ev, sfound,
    \* the emulator: the point of access every user equipment is attached to
    place

mainVars == <<pc, req, found, scan, scores, response>>
registryVars == <<clients, app, cnode, members, output>>
simVars == <<spc, ev, sfound>>
vars == <<mainVars, registryVars, loc, history, simVars, place>>

ASSUME AppsAssumption == RequestApps \in [Clients -> SUBSET Nat]

ASSUME TimesAssumption ==
    /\ Decay \in Nat /\ Lags \subseteq Nat /\ Elapsed \subseteq Nat
    /\ RandomScores \subseteq Nat
    /\ GarbagePorts \subseteq 0 .. 65535

ASSUME EmulatorAssumption ==
    /\ InitialPlaces \subseteq [Clients -> DOMAIN ZoneOf]
    /\ \A e \in DOMAIN Events : Events[e].poa \in DOMAIN ZoneOf

Nowhere == [poa |-> "", zone |-> ""]
NoHistory == -1
NoRequest == [client |-> "", app |-> 0]
NoResponse == [host |-> <<>>, port |-> 0]

-------------------------------------------------------------------------------
\* Operators of the scoring loop, of the reply and of the output file.

\* Node::get_clients_count: the length of the node's list of clients.
ClientsCount(n) == SumFunction(members[n])

\* The score a node keeps of a client's past; a new entry is stamped later
\* than the pass that creates it, so its first decay is negative.
HistoryAfter(c, n) ==
    IF history[c][n] = NoHistory
    THEN {lag * Decay : lag \in Lags}
    ELSE {IF history[c][n] < e * Decay THEN 0 ELSE history[c][n] - e * Decay
            : e \in Elapsed}

\* Mutant: the load of the node is not weighed.
ScoreWithoutLoad(c, n, past) ==
    Factors.history * past
    + Factors.network * NetworkScore(c, n, clients, loc, cnode)
    + Factors.distance * Distance(loc[c], n)

Score(c, n, past) ==
    Factors.history * past
    + Factors.hardware * ClientsCount(n)
    + Factors.network * NetworkScore(c, n, clients, loc, cnode)
    + Factors.distance * Distance(loc[c], n)

\* Mutant: the point of access is left out of every host name.
HostOfZone(n) == <<"server", Nodes[n].zone>>

Host(n) ==
    IF IsZoneNode(n)
    THEN <<"server", Nodes[n].zone>>
    ELSE <<"server", Nodes[n].zone, Nodes[n].poa>>

\* The port follows the application id of the request, which only a new
\* client hands on to the registry; for other ids nothing is assigned.
Ports(a) == CASE a = 1 -> {2500}
              [] a = 2 -> {2501}
              [] OTHER -> GarbagePorts

Connected(known, node) == Cardinality({c \in known : node[c] # NoNode})

-------------------------------------------------------------------------------
Init ==
    /\ pc = "listen" /\ req = NoRequest /\ found = Nowhere
    /\ scan = 1 /\ scores = <<>> /\ response = NoResponse
    /\ clients = {}
    /\ app = [c \in Clients |-> 0]
    /\ cnode = [c \in Clients |-> NoNode]
    /\ members = [n \in NodeIds |-> [c \in Clients |-> 0]]
    /\ loc = [c \in Clients |-> Nowhere]
    /\ history = [c \in Clients |-> [n \in NodeIds |-> NoHistory]]
    /\ output = 0
    /\ spc = "wait" /\ ev = 1 /\ sfound = Nowhere
    /\ place \in InitialPlaces

-------------------------------------------------------------------------------
(* The main thread. *)

\* listen_on accepts a connection; on its timeout the loop tries again.
Accept ==
    /\ pc = "listen" /\ pc' = "receive"
    /\ UNCHANGED <<req, found, scan, scores, response, registryVars, loc,
                   history, simVars, place>>

\* Back to listen_on: the locals of the pass are gone.
Hangup ==
    /\ pc' = "listen" /\ req' = NoRequest /\ found' = Nowhere
    /\ scan' = 1 /\ scores' = <<>> /\ response' = NoResponse

\* A request of a client arrives.
Receive ==
    /\ pc = "receive" /\ pc' = "register"
    /\ \E c \in Clients : \E a \in RequestApps[c] :
            req' = [client |-> c, app |-> a]
    /\ UNCHANGED <<found, scan, scores, response, registryVars, loc, history,
                   simVars, place>>

\* receive_data fails and has closed the connection, or the request is not
\* one of a client.
ReceiveNothing ==
    /\ pc = "receive" /\ Hangup
    /\ UNCHANGED <<registryVars, loc, history, simVars, place>>

\* get_or_create_client looks the name up; only a new client takes the
\* application id of the request.
Enrol ==
    /\ pc = "register" /\ pc' = "locate"
    /\ clients' = clients \cup {req.client}
    /\ app' = IF req.client \in clients
              THEN app ELSE [app EXCEPT ![req.client] = req.app]
    /\ UNCHANGED <<req, found, scan, scores, response, loc, history, simVars,
                   place>>

\* Mutant: the client is not removed from the list of its previous node.
RegisterKeepingList ==
    /\ Enrol
    /\ cnode' = [cnode EXCEPT ![req.client] = NoNode]
    /\ output' = Connected(clients', cnode')
    /\ UNCHANGED members

\* Mutant: the client keeps its node until it is given another one.
RegisterKeepingNode == Enrol /\ UNCHANGED <<cnode, members, output>>

\* Mutant: no line is written when a client leaves its node.
RegisterSilently ==
    /\ Enrol
    /\ cnode' = [cnode EXCEPT ![req.client] = NoNode]
    /\ members' = [n \in NodeIds |-> [members[n] EXCEPT ![req.client] = 0]]
    /\ UNCHANGED output

\* The client of the request is enrolled and taken off its previous node.
Register ==
    LET c == req.client
        previous_node == cnode[c] IN
    /\ Enrol
    /\ cnode' = [cnode EXCEPT ![c] = NoNode]
    /\ IF previous_node # NoNode
       THEN /\ members' = [members EXCEPT ![previous_node][c] = 0]
            /\ output' = Connected(clients', cnode')
       ELSE UNCHANGED <<members, output>>

At(c) == [poa |-> place[c], zone |-> ZoneOf[place[c]]]

\* get_client_location catches every exception: a failed query is "", "".
LocationAnswers(c) == {At(c)} \cup (IF HttpMayFail THEN {Nowhere} ELSE {})

Locate ==
    /\ pc = "locate" /\ pc' = "poa"
    /\ found' \in LocationAnswers(req.client)
    /\ UNCHANGED <<req, scan, scores, response, registryVars, loc, history,
                   simVars, place>>

StorePoa ==
    /\ pc = "poa" /\ pc' = "zone"
    /\ loc' = [loc EXCEPT ![req.client].poa = found.poa]
    /\ UNCHANGED <<req, found, scan, scores, response, registryVars, history,
                   simVars, place>>

StoreZone ==
    /\ pc = "zone" /\ pc' = "scan"
    /\ loc' = [loc EXCEPT ![req.client].zone = found.zone]
    /\ UNCHANGED <<req, found, scan, scores, response, registryVars, history,
                   simVars, place>>

\* One pass of the loop of calculate_node_...: a node of another application
\* is skipped, any other one is scored and appended to the list.
Scanning == pc = "scan" /\ scan \in NodeIds

\* Mutant: the application of the request decides, not the registered one.
ForRequest(n) == Nodes[n].app = req.app

ForClient(n) == Nodes[n].app = app[req.client]

\* Mutant: the iterator is not advanced.
PushScoreInPlace(s) ==
    /\ scores' = [n \in DOMAIN scores \cup {scan} |->
                    IF n = scan THEN s ELSE scores[n]]
    /\ UNCHANGED <<pc, req, found, scan, response, registryVars, loc, simVars,
                   place>>

PushScore(s) ==
    /\ scores' = [n \in DOMAIN scores \cup {scan} |->
                    IF n = scan THEN s ELSE scores[n]]
    /\ scan' = scan + 1
    /\ UNCHANGED <<pc, req, found, response, registryVars, loc, simVars, place>>

SkipNode ==
    /\ Scanning /\ ~ForClient(scan)
    /\ scan' = scan + 1
    /\ UNCHANGED <<pc, req, found, scores, response, registryVars, loc,
                   history, simVars, place>>

ScoreRandom ==
    /\ Scanning /\ ForClient(scan) /\ Algorithm = "RANDOM"
    /\ \E s \in RandomScores : PushScore(s)
    /\ UNCHANGED history

\* Mutant: the distance is not negated.
ScoreFarthest ==
    /\ Scanning /\ ForClient(scan) /\ Algorithm \notin {"RANDOM", "SCORE"}
    /\ PushScore(Distance(loc[req.client], scan))
    /\ UNCHANGED history

ScoreNearest ==
    /\ Scanning /\ ForClient(scan) /\ Algorithm \notin {"RANDOM", "SCORE"}
    /\ PushScore(-Distance(loc[req.client], scan))
    /\ UNCHANGED history

ScoreWeighted ==
    /\ Scanning /\ ForClient(scan) /\ Algorithm = "SCORE"
    /\ \E past \in HistoryAfter(req.client, scan) :
        /\ history' = [history EXCEPT ![req.client][scan] = past]
        /\ PushScore(Score(req.client, scan, past))

ScanNode == SkipNode \/ ScoreRandom \/ ScoreNearest \/ ScoreWeighted

\* select_node on the complete list; with no node the client stays off.
SelectNone ==
    /\ pc = "scan" /\ scan \notin NodeIds
    /\ FirstBest(scores) = {}
    /\ pc' = "reply" /\ response' = NoResponse
    /\ UNCHANGED <<req, found, scan, scores, registryVars, loc, history,
                   simVars, place>>

SelectNode ==
    LET c == req.client IN
    /\ pc = "scan" /\ scan \notin NodeIds
    /\ \E n \in FirstBest(scores) :
        /\ members' = [members EXCEPT ![n][c] = @ + 1]
        /\ cnode' = [cnode EXCEPT ![c] = n]
        /\ \E port \in Ports(req.app) :
                response' = [host |-> Host(n), port |-> port]
    /\ output' = Connected(clients, cnode')
    /\ pc' = "reply"
    /\ UNCHANGED <<req, found, scan, scores, clients, app, loc, history,
                   simVars, place>>

\* send_data, whose failure is only printed, then disconnect.
Reply ==
    /\ pc = "reply" /\ Hangup
    /\ UNCHANGED <<registryVars, loc, history, simVars, place>>

Serve == \/ Register \/ Locate \/ StorePoa \/ StoreZone
         \/ ScanNode \/ SelectNone \/ SelectNode \/ Reply

MainThread == Accept \/ Receive \/ ReceiveNothing \/ Serve

-------------------------------------------------------------------------------
(* The simulation thread: the moves of simulation.txt, over and over. *)

Event == Events[ev]
NextEvent == ev' = IF ev + 1 \in DOMAIN Events THEN ev + 1 ELSE 1

\* The time of the event has come and its client has asked before.
Fire ==
    /\ spc = "wait" /\ ev \in DOMAIN Events
    /\ Event.client \in clients
    /\ spc' = "post"
    /\ UNCHANGED <<mainVars, registryVars, loc, history, ev, sfound, place>>

\* "client name not found": the event is dropped.
FireUnknown ==
    /\ spc = "wait" /\ ev \in DOMAIN Events
    /\ Event.client \notin clients
    /\ NextEvent
    /\ UNCHANGED <<mainVars, registryVars, loc, history, spc, sfound, place>>

\* The emulator moves the user equipment, or rejects the event: the status
\* of its answer is not looked at.
Post ==
    /\ spc = "post" /\ spc' = "get"
    /\ \/ place' = [place EXCEPT ![Event.client] = Event.poa]
       \/ HttpMayFail /\ UNCHANGED place
    /\ UNCHANGED <<mainVars, registryVars, loc, history, ev, sfound>>

\* The request throws: move_client gives up.
PostThrows ==
    /\ spc = "post" /\ HttpMayFail
    /\ spc' = "wait" /\ NextEvent
    /\ UNCHANGED <<mainVars, registryVars, loc, history, sfound, place>>

Get ==
    /\ spc = "get" /\ spc' = "poa"
    /\ sfound' \in LocationAnswers(Event.client)
    /\ UNCHANGED <<mainVars, registryVars, loc, history, ev, place>>

MovePoa ==
    /\ spc = "poa" /\ spc' = "zone"
    /\ loc' = [loc EXCEPT ![Event.client].poa = sfound.poa]
    /\ UNCHANGED <<mainVars, registryVars, history, ev, sfound, place>>

MoveZone ==
    /\ spc = "zone" /\ spc' = "wait"
    /\ loc' = [loc EXCEPT ![Event.client].zone = sfound.zone]
    /\ sfound' = Nowhere
    /\ NextEvent
    /\ UNCHANGED <<mainVars, registryVars, history, place>>

SimulationThread ==
    Fire \/ FireUnknown \/ Post \/ PostThrows \/ Get \/ MovePoa \/ MoveZone

-------------------------------------------------------------------------------
Next == MainThread \/ SimulationThread

Spec == Init /\ [][Next]_vars

\* Once it has a request the main thread only waits for calls that time out.
FairSpec == Spec /\ WF_vars(Serve)
-------------------------------------------------------------------------------
(* Properties. *)

Registered == [client : Clients, app : Nat] \cup {NoRequest}

\* Every variable keeps its kind, and the scan stays within the node list.
TypeOK ==
    /\ pc \in {"listen", "receive", "register", "locate", "poa", "zone", "scan",
               "reply"}
    /\ req \in Registered
    /\ pc \notin {"listen", "receive"} => req \in [client : Clients, app : Nat]
    /\ scan \in Nat
    /\ DOMAIN scores \subseteq {n \in NodeIds : n < scan}
    /\ clients \subseteq Clients
    /\ app \in [Clients -> Nat]
    /\ cnode \in [Clients -> NodeIds \cup {NoNode}]
    /\ members \in [NodeIds -> [Clients -> Nat]]
    /\ output \in Nat
    /\ spc \in {"wait", "post", "get", "poa", "zone"}
    /\ place \in [Clients -> DOMAIN ZoneOf]

\* The two directions of the assignment agree whatever the order of requests:
\* the list of a node holds a client exactly once if the client points to the
\* node and not at all otherwise (add_client, remove_client and set_node are
\* four separate calls of main).
MutualRegistration ==
    \A c \in Clients : \A n \in NodeIds :
        members[n][c] = IF cnode[c] = n THEN 1 ELSE 0

\* A client is only ever on a node of the application it registered with,
\* and only a client that has registered is on a node.
ServesApplication ==
    \A c \in Clients : cnode[c] # NoNode =>
        c \in clients /\ Nodes[cnode[c]].app = app[c]

\* The last line of the output file counts the clients the nodes really
\* serve, after every disconnection and every placement.
OutputCurrent ==
    output = Cardinality({c \in Clients : \E n \in NodeIds : members[n][c] > 0})

\* The host name in a reply singles out, among the nodes of the client's
\* application, the one the client has just been put on.
ReplyIdentifiesNode ==
    pc = "reply" =>
        \A n \in NodeIds : ForClient(n) =>
            (response.host = Host(n) <=> cnode[req.client] = n)

\* NEAREST sends a client to a node no other node of its application is
\* nearer than, as seen from where the client is stored when the reply is
\* made (calculate_node_nearest scores node after node).
NearestChosen ==
    pc = "reply" /\ Algorithm = "NEAREST" /\ cnode[req.client] # NoNode =>
        \A n \in NodeIds : ForClient(n) =>
            Distance(loc[req.client], cnode[req.client])
                <= Distance(loc[req.client], n)

\* The least distance has the highest score: whatever moves meanwhile, there
\* is a point of access from which the chosen node is a nearest one.
NearestFromSomewhere ==
    pc = "reply" /\ Algorithm = "NEAREST" /\ cnode[req.client] # NoNode =>
        \E poa \in DOMAIN ZoneOf : \A n \in NodeIds : ForClient(n) =>
            LET at == [poa |-> poa, zone |-> ZoneOf[poa]] IN
            Distance(at, cnode[req.client]) <= Distance(at, n)

\* A client on a node is also traffic on that node: the hardware score is
\* never above the network score.
LoadWithinTraffic ==
    \A n \in NodeIds : \A c \in Clients :
        ClientsCount(n) <= NetworkScore(c, n, clients, loc, cnode)

\* With the hardware score alone, two nodes of one application never differ
\* by more than one client between two requests, although every client may
\* leave and come back at any time.
LoadBalanced ==
    pc = "listen" =>
        \A n, m \in NodeIds : Nodes[n].app = Nodes[m].app =>
            ClientsCount(n) <= ClientsCount(m) + 1

\* A request that has been read is answered: the main thread comes back to
\* listen_on whatever the simulation thread does.
EveryRequestFinishes == pc \notin {"listen", "receive"} ~> pc = "listen"

\* The registry implements the abstract allocator.
Alloc == INSTANCE Allocation WITH
    joined <- clients,
    placed <- cnode,
    members <- [n \in NodeIds |-> {c \in Clients : members[n][c] > 0}]

\* Every step of the master is a step of the allocator or none.
Allocates == Alloc!Spec
===============================================================================

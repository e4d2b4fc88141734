--------------------------- MODULE PlacementProofs ---------------------------
(***************************************************************************)
(* Which node a client gets: the reply names the node, NEAREST chooses a   *)
(* nearest one, and a score made of the load alone keeps the nodes of an   *)
(* application balanced.  Each result is for every limits.txt and every    *)
(* set of clients; what else it needs is a hypothesis of its theorem.      *)
(***************************************************************************)
EXTENDS MasterProofs, NumberLemmas

-------------------------------------------------------------------------------
(* The reply. *)

\* What main has put in the response when it reaches send_data.
HostGiven ==
    pc = "reply" =>
        response.host = IF cnode[req.client] = NoNode
                        THEN NoResponse.host ELSE Host(cnode[req.client])

\* limits.txt gives an application one node at a place.
OneNodeAPlace ==
    \A n, m \in NodeIds :
        /\ Nodes[n].app = Nodes[m].app
        /\ Nodes[n].zone = Nodes[m].zone
        /\ Nodes[n].poa = Nodes[m].poa
        => n = m

LEMMA HostStep == Inv /\ HostGiven /\ [Next]_vars => HostGiven'
  <1> SUFFICES ASSUME Inv, HostGiven, [Next]_vars PROVE HostGiven'
    OBVIOUS
  <1>1. CASE SelectNone
    BY <1>1 DEF SelectNone, registryVars, HostGiven, Inv, ClientOff
  <1>2. CASE SelectNode
    <2>1. PICK n \in FirstBest(scores) :
                /\ cnode' = [cnode EXCEPT ![req.client] = n]
                /\ \E port \in Ports(req.app) :
                        response' = [host |-> Host(n), port |-> port]
      BY <1>2 DEF SelectNode
    <2>2. n # NoNode
      BY <1>2, NodesAssumption
      DEF SelectNode, Inv, TypeOK, FirstBest, NoNode
    <2>3. cnode'[req.client] = n /\ req' = req
      BY <1>2, <2>1 DEF SelectNode, Inv, TypeOK
    <2> QED BY <2>1, <2>2, <2>3 DEF HostGiven, Host, IsZoneNode
  <1>3. CASE MainThread /\ ~SelectNone /\ ~SelectNode
    <2>1. pc' # "reply"
      BY <1>3 DEF MainThread, Accept, Receive, ReceiveNothing, Serve, Register,
         Enrol, Locate, StorePoa, StoreZone, ScanNode, SkipNode, ScoreRandom,
         ScoreNearest, ScoreWeighted, PushScore, Scanning, Reply, Hangup
    <2> QED BY <2>1 DEF HostGiven
  <1>4. CASE SimulationThread \/ UNCHANGED vars
    <2>1. UNCHANGED <<pc, req, response, cnode>>
      BY <1>4 DEF SimulationThread, Fire, FireUnknown, Post, PostThrows, Get,
         MovePoa, MoveZone, vars, mainVars, registryVars
    <2> QED BY <2>1 DEF HostGiven
  <1> QED BY <1>1, <1>2, <1>3, <1>4 DEF Next

\* Two nodes of one application have different host names.
LEMMA HostsDiffer ==
    ASSUME OneNodeAPlace, NEW n \in NodeIds, NEW m \in NodeIds,
           Nodes[n].app = Nodes[m].app, Host(n) = Host(m)
    PROVE  n = m
  <1>1. IsZoneNode(n) <=> IsZoneNode(m)
    <2>1. \A k : Len(Host(k)) = IF IsZoneNode(k) THEN 2 ELSE 3
      BY DEF Host
    <2> QED BY <2>1
  <1>2. Host(n)[2] = Nodes[n].zone /\ Host(m)[2] = Nodes[m].zone
    BY DEF Host
  <1>3. Nodes[n].poa = Nodes[m].poa
    <2>1. CASE IsZoneNode(n)
      BY <1>1, <2>1 DEF IsZoneNode
    <2>2. CASE ~IsZoneNode(n)
      BY <1>1, <2>2 DEF Host
    <2> QED BY <2>1, <2>2
  <1> QED BY <1>2, <1>3 DEF OneNodeAPlace

\* The reply names the node the client has been put on and no other node of
\* its application, provided limits.txt names no place twice for one
\* application: the host name is all the client ever learns of its node.
THEOREM ReplyNamesNode ==
    ASSUME OneNodeAPlace
    PROVE  Spec => []ReplyIdentifiesNode
  <1>1. Init => HostGiven
    BY DEF Init, HostGiven
  <1>2. Inv /\ HostGiven => ReplyIdentifiesNode
    <2> SUFFICES ASSUME Inv, HostGiven, pc = "reply", NEW n \in NodeIds,
                        ForClient(n)
                 PROVE  response.host = Host(n) <=> cnode[req.client] = n
      BY DEF ReplyIdentifiesNode
    <2>1. n # NoNode
      BY NodesAssumption DEF NoNode
    <2>2. req.client \in Clients
      BY DEF Inv, TypeOK
    <2>3. CASE cnode[req.client] = NoNode
      <3>1. Len(Host(n)) # 0 /\ response.host = <<>>
        BY <2>3 DEF HostGiven, NoResponse, Host
      <3> QED BY <2>1, <2>3, <3>1
    <2>4. CASE cnode[req.client] # NoNode
      <3> DEFINE m == cnode[req.client]
      <3>1. m \in NodeIds /\ Nodes[m].app = Nodes[n].app
        BY <2>2, <2>4 DEF Inv, TypeOK, ServesApplication, ForClient
      <3>2. response.host = Host(m)
        BY <2>4 DEF HostGiven
      <3> HIDE DEF m
      <3>3. Host(m) = Host(n) => m = n
        BY <3>1, HostsDiffer
      <3> QED BY <3>2, <3>3 DEF m
    <2> QED BY <2>3, <2>4
  <1> QED BY <1>1, <1>2, HostStep, Invariance, PTL DEF Spec

-------------------------------------------------------------------------------
(* The list of scores. *)

\* The scoring loop leaves out no node of the client's application.
ListComplete ==
    /\ pc \notin {"scan", "reply"} => scan = 1
    /\ pc = "scan" =>
        /\ scan \in 1 .. Len(Nodes) + 1
        /\ \A n \in NodeIds : n < scan /\ ForClient(n) => n \in DOMAIN scores

\* The clients' application and the request do not change during the loop.
LEMMA ScanFrame ==
    ASSUME [Next]_vars, pc = "scan", pc' = "scan"
    PROVE  UNCHANGED <<req, registryVars>>
  BY DEF Next, MainThread, Accept, Receive, ReceiveNothing, Serve, Register,
     Enrol, Locate, StorePoa, StoreZone, ScanNode, SkipNode, ScoreRandom,
     ScoreNearest, ScoreWeighted, PushScore, SelectNone, SelectNode, Reply,
     Hangup, SimulationThread, Fire, FireUnknown, Post, PostThrows, Get,
     MovePoa, MoveZone, vars, mainVars, registryVars

LEMMA ListStep == Inv /\ ListComplete /\ [Next]_vars => ListComplete'
  <1> SUFFICES ASSUME Inv, ListComplete, [Next]_vars PROVE ListComplete'
    OBVIOUS
  <1>1. CASE Accept \/ Receive \/ ReceiveNothing \/ Reply
    BY <1>1 DEF Accept, Receive, ReceiveNothing, Reply, Hangup, ListComplete
  <1>2. CASE Register \/ Locate \/ StorePoa \/ SelectNone \/ SelectNode
    BY <1>2 DEF Register, Enrol, Locate, StorePoa, SelectNone, SelectNode,
       ListComplete
  <1>3. CASE StoreZone
    BY <1>3, NodesAssumption DEF StoreZone, ListComplete
  <1>4. CASE ScanNode
    <2>1. /\ pc = "scan" /\ pc' = "scan"
          /\ scan \in NodeIds /\ scan' = scan + 1
      BY <1>4 DEF ScanNode, SkipNode, ScoreRandom, ScoreNearest,
         ScoreWeighted, PushScore, Scanning
    <2>2. scan' \in 1 .. Len(Nodes) + 1
      BY <2>1, NodesAssumption
    <2>3. ASSUME NEW n \in NodeIds, n < scan', ForClient(n)
          PROVE  n \in DOMAIN scores'
      <3>1. CASE n = scan
        BY <1>4, <2>3, <3>1 DEF ScanNode, SkipNode, ScoreRandom, ScoreNearest,
           ScoreWeighted, PushScore
      <3>2. CASE n # scan
        <4>1. n \in DOMAIN scores
          BY <2>1, <2>3, <3>2, NodesAssumption DEF ListComplete
        <4> QED BY <1>4, <4>1 DEF ScanNode, SkipNode, ScoreRandom,
            ScoreNearest, ScoreWeighted, PushScore
      <3> QED BY <3>1, <3>2
    <2> QED BY <2>1, <2>2, <2>3, ScanFrame DEF ListComplete, ForClient, registryVars
  <1>5. CASE SimulationThread \/ UNCHANGED vars
    <2>1. UNCHANGED <<pc, req, scan, scores, app>>
      BY <1>5 DEF SimulationThread, Fire, FireUnknown, Post, PostThrows, Get,
         MovePoa, MoveZone, vars, mainVars, registryVars
    <2> QED BY <2>1 DEF ListComplete, ForClient
  <1> QED BY <1>1, <1>2, <1>3, <1>4, <1>5 DEF Next, MainThread, Serve

LEMMA ListInit == Init => ListComplete
  BY DEF Init, ListComplete

\* At the end of the loop the list holds the nodes of the client's
\* application, all of them and no other.
LEMMA ListAtEnd ==
    ASSUME Inv, ListComplete, pc = "scan", scan \notin NodeIds
    PROVE  /\ \A n \in DOMAIN scores : n \in NodeIds /\ ForClient(n)
           /\ \A m \in NodeIds : ForClient(m) => m \in DOMAIN scores
  <1>1. scan = Len(Nodes) + 1
    BY NodesAssumption DEF ListComplete
  <1>2. \A k \in NodeIds : k < scan
    BY <1>1, NodesAssumption
  <1>3. \A m \in NodeIds : ForClient(m) => m \in DOMAIN scores
    BY <1>2 DEF ListComplete
  <1> QED BY <1>3 DEF Inv, TypeOK, ScoresForClient


-------------------------------------------------------------------------------
(* NEAREST. *)

\* The simulation thread finds nothing to do.
Idle == spc = "wait"

\* Every node is scored by the distance from where the client is now.
ScoredByDistance ==
    pc = "scan" /\ Algorithm = "NEAREST" =>
        \A n \in DOMAIN scores : scores[n] = -Distance(loc[req.client], n)

NearestInv == Idle /\ ListComplete /\ ScoredByDistance /\ NearestChosen

LEMMA DistanceIsInt == \A at, n : Distance(at, n) \in 1 .. 5
  BY DEF Distance, IsZoneNode

\* A node that wins the complete list is a nearest one.
LEMMA WinnerIsNearest ==
    ASSUME Inv, NearestInv, Algorithm = "NEAREST", pc = "scan",
           scan \notin NodeIds, NEW n \in FirstBest(scores), NEW m \in NodeIds,
           ForClient(m)
    PROVE  Distance(loc[req.client], n) <= Distance(loc[req.client], m)
  <1>1. n \in DOMAIN scores /\ m \in DOMAIN scores
    BY ListAtEnd DEF NearestInv, FirstBest
  <1>2. scores[m] <= scores[n]
    BY <1>1 DEF FirstBest
  <1> QED BY <1>1, <1>2, DistanceIsInt DEF NearestInv, ScoredByDistance

LEMMA NearestStep ==
    ASSUME Events = <<>>, Inv, NearestInv, [Next]_vars
    PROVE  NearestInv'
  <1> USE DEF NearestInv
  <1>0. ~SimulationThread
    BY DEF Idle, SimulationThread, Fire, FireUnknown, Post, PostThrows, Get,
       MovePoa, MoveZone
  <1>1. Idle'
    BY <1>0 DEF Idle, Next, MainThread, Accept, Receive, ReceiveNothing, Serve,
       Register, Enrol, Locate, StorePoa, StoreZone, ScanNode, SkipNode, ScoreRandom,
       ScoreNearest, ScoreWeighted, PushScore, SelectNone, SelectNode, Reply,
       simVars, vars
  <1>2. ScoredByDistance' /\ NearestChosen'
    <2>1. CASE Accept \/ Receive \/ ReceiveNothing \/ Reply \/ Register
                \/ Locate \/ StorePoa
      BY <2>1 DEF Accept, Receive, ReceiveNothing, Reply, Hangup, Register,
         Enrol, Locate, StorePoa, ScoredByDistance, NearestChosen
    <2>2. CASE StoreZone
      BY <2>2 DEF StoreZone, ScoredByDistance, NearestChosen, Inv, ScoresForClient
    <2>3. CASE ScanNode
      <3>1. pc = "scan" /\ pc' = "scan" /\ loc' = loc /\ req' = req
        BY <2>3 DEF ScanNode, SkipNode, ScoreRandom, ScoreNearest,
           ScoreWeighted, PushScore, Scanning
      <3>2. ASSUME Algorithm = "NEAREST"
            PROVE  ScoredByDistance'
        <4>1. SkipNode \/ ScoreNearest
          BY <2>3, <3>2 DEF ScanNode, ScoreRandom, ScoreWeighted
        <4> QED BY <3>1, <3>2, <4>1
            DEF SkipNode, ScoreNearest, PushScore, ScoredByDistance
      <3> QED BY <3>1, <3>2 DEF ScoredByDistance, NearestChosen
    <2>4. CASE SelectNone
      BY <2>4 DEF SelectNone, registryVars, ScoredByDistance, NearestChosen,
         Inv, ClientOff
    <2>5. CASE SelectNode
      <3>1. PICK n \in FirstBest(scores) :
                cnode' = [cnode EXCEPT ![req.client] = n]
        BY <2>5 DEF SelectNode
      <3>2. pc = "scan" /\ scan \notin NodeIds /\ pc' = "reply"
            /\ UNCHANGED <<req, loc, app>>
        BY <2>5 DEF SelectNode
      <3>3. cnode'[req.client] = n
        BY <3>1, <3>2 DEF Inv, TypeOK
      <3>4. NearestChosen'
        BY <3>2, <3>3, WinnerIsNearest DEF NearestChosen, ForClient
      <3> QED BY <3>2, <3>4 DEF ScoredByDistance
    <2>6. CASE UNCHANGED vars
      BY <2>6 DEF vars, mainVars, registryVars, ScoredByDistance,
         NearestChosen, ForClient
    <2> QED BY <1>0, <2>1, <2>2, <2>3, <2>4, <2>5, <2>6
        DEF Next, MainThread, Serve
  <1> QED BY <1>1, <1>2, ListStep

\* calculate_node_nearest and select_node together: as long as the locations
\* are written by the main thread alone, the node a client is put on is at
\* least as near as every other node of its application.
THEOREM NearestWithoutMoves ==
    ASSUME Events = <<>>
    PROVE  Spec => []NearestChosen
  <1>1. Init => NearestInv
    BY ListInit DEF Init, NearestInv, Idle, ScoredByDistance, NearestChosen
  <1>2. Inv /\ NearestInv /\ [Next]_vars => NearestInv'
    BY NearestStep
  <1>3. NearestInv => NearestChosen
    BY DEF NearestInv
  <1> QED BY <1>1, <1>2, <1>3, Invariance, PTL DEF Spec

-------------------------------------------------------------------------------
(* The length of a node's list of clients. *)

\* The sum of the values of a function, as the fold of the library computes it.
Chosen(s) == CHOOSE x \in s : TRUE
Sums(f, g) ==
    g = [s \in SUBSET DOMAIN f |->
            IF s = {} THEN 0 ELSE f[Chosen(s)] + g[s \ {Chosen(s)}]]

LEMMA SumIsFold ==
    ASSUME NEW f
    PROVE  SumFunction(f) = (CHOOSE g : Sums(f, g))[DOMAIN f]
  BY DEF SumFunction, SumFunctionOnSet, FoldFunctionOnSet, MapThenFoldSet, Sums,
         Chosen

\* A function that is 0 or 1 everywhere sums up to the places where it is 1.
Ones(f, s) == {x \in s : f[x] = 1}

LEMMA OnesStep ==
    ASSUME NEW D, IsFiniteSet(D), NEW f \in [D -> {0, 1}],
           NEW s \in SUBSET D, NEW x \in s
    PROVE  /\ Cardinality(Ones(f, s)) = f[x] + Cardinality(Ones(f, s \ {x}))
           /\ Cardinality(Ones(f, s)) \in Nat
  <1>1. IsFiniteSet(Ones(f, s)) /\ IsFiniteSet(Ones(f, s \ {x}))
    <2>1. Ones(f, s) \subseteq D /\ Ones(f, s \ {x}) \subseteq D
      BY DEF Ones
    <2> QED BY <2>1, FS_Subset
  <1>2. /\ Cardinality(Ones(f, s)) \in Nat
        /\ Cardinality(Ones(f, s \ {x})) \in Nat
    BY <1>1, FS_CardinalityType
  <1>3. CASE f[x] = 0
    <2>1. Ones(f, s) = Ones(f, s \ {x})
      BY <1>3 DEF Ones
    <2> QED BY <1>2, <1>3, <2>1
  <1>4. CASE f[x] = 1
    <2>1. Ones(f, s) = Ones(f, s \ {x}) \cup {x} /\ x \notin Ones(f, s \ {x})
      BY <1>4 DEF Ones
    <2>2. Cardinality(Ones(f, s)) = Cardinality(Ones(f, s \ {x})) + 1
      BY <1>1, <2>1, FS_AddElement
    <2> QED BY <1>2, <1>4, <2>2
  <1>5. f[x] \in {0, 1}
    OBVIOUS
  <1> QED BY <1>2, <1>3, <1>4, <1>5

LEMMA SumOfOnes ==
    ASSUME NEW D, IsFiniteSet(D), NEW f \in [D -> {0, 1}]
    PROVE  SumFunction(f) = Cardinality(Ones(f, D))
  <1> DEFINE counts == [s \in SUBSET D |-> Cardinality(Ones(f, s))]
  <1>1. \A s \in SUBSET D : s # {} => Chosen(s) \in s
    BY DEF Chosen
  <1>2. Cardinality(Ones(f, {})) = 0
    <2>1. Ones(f, {}) = {}
      BY DEF Ones
    <2> QED BY <2>1, FS_EmptySet
  <1>3. Sums(f, counts)
    <2>1. ASSUME NEW s \in SUBSET D
          PROVE  counts[s] =
                    IF s = {} THEN 0 ELSE f[Chosen(s)] + counts[s \ {Chosen(s)}]
      <3>1. CASE s = {}
        BY <1>2, <3>1
      <3>2. CASE s # {}
        <4>1. s \ {Chosen(s)} \in SUBSET D
          OBVIOUS
        <4> QED BY <1>1, <3>2, <4>1, OnesStep
      <3> QED BY <3>1, <3>2
    <2>2. counts = [s \in SUBSET D |->
                IF s = {} THEN 0 ELSE f[Chosen(s)] + counts[s \ {Chosen(s)}]]
      <3> DEFINE rest(s) ==
              IF s = {} THEN 0 ELSE f[Chosen(s)] + counts[s \ {Chosen(s)}]
      <3>1. \A s \in SUBSET D : counts[s] = rest(s)
        BY <2>1
      <3>2. counts = [s \in SUBSET D |-> counts[s]]
        OBVIOUS
      <3> HIDE DEF rest, counts
      <3>3. counts = [s \in SUBSET D |-> rest(s)]
        BY <3>1, <3>2
      <3> QED BY <3>3 DEF rest
    <2> HIDE DEF counts
    <2> QED BY <2>2 DEF Sums
  <1> DEFINE g == CHOOSE h : Sums(f, h)
  <1>4. Sums(f, g)
    BY <1>3
  <1> HIDE DEF g
  <1>5. ASSUME NEW s \in SUBSET D
        PROVE  g[s] = IF s = {} THEN 0 ELSE f[Chosen(s)] + g[s \ {Chosen(s)}]
    <2>1. g = [t \in SUBSET D |->
                IF t = {} THEN 0 ELSE f[Chosen(t)] + g[t \ {Chosen(t)}]]
      BY <1>4 DEF Sums
    <2> QED BY <2>1
  <1>6. \A s \in SUBSET D : IsFiniteSet(s) /\ Cardinality(s) \in Nat
    BY FS_Subset, FS_CardinalityType
  <1>7. \A s \in SUBSET D : g[s] = Cardinality(Ones(f, s))
    <2> DEFINE Wrong == {s \in SUBSET D : g[s] # Cardinality(Ones(f, s))}
    <2> DEFINE Sizes == {Cardinality(s) : s \in Wrong}
    <2> SUFFICES ASSUME Wrong # {} PROVE FALSE
      OBVIOUS
    <2>1. Sizes \in SUBSET Nat /\ Sizes # {}
      BY <1>6
    <2>2. PICK n \in Sizes : \A m \in Sizes : n <= m
      BY <2>1, LeastExists
    <2>3. PICK s \in Wrong : n = Cardinality(s)
      BY <2>2
    <2>4. s # {}
      BY <1>2, <1>5, <2>3
    <2> DEFINE x == Chosen(s)
    <2>5. x \in s /\ s \ {x} \in SUBSET D
      BY <1>1, <2>3, <2>4
    <2>6. g[s] = f[x] + g[s \ {x}]
      BY <1>5, <2>3, <2>4
    <2> HIDE DEF x
    <2>7. Cardinality(s \ {x}) = n - 1 /\ n \in Nat /\ n - 1 \in Nat
      <3>1. IsFiniteSet(s) /\ n \in Nat /\ Cardinality(s \ {x}) \in Nat
        BY <1>6, <2>3, <2>5
      <3>2. Cardinality(s \ {x}) = Cardinality(s) - 1
        BY <2>5, <3>1, FS_RemoveElement
      <3> QED BY <2>3, <3>1, <3>2
    <2>8. s \ {x} \notin Wrong
      BY <2>2, <2>7
    <2>9. g[s \ {x}] = Cardinality(Ones(f, s \ {x}))
      BY <2>5, <2>8
    <2> QED BY <2>3, <2>5, <2>6, <2>9, OnesStep
  <1>8. g[D] = Cardinality(Ones(f, D))
    BY <1>7
  <1> QED BY <1>8, SumIsFold DEF g

\* The list of a node is as long as there are clients that point to it.
On(n) == {c \in Clients : cnode[c] = n}

LEMMA CountIsLoad ==
    ASSUME Inv, NEW n \in NodeIds
    PROVE  /\ ClientsCount(n) = Cardinality(On(n))
           /\ IsFiniteSet(On(n)) /\ ClientsCount(n) \in Nat
  <1>1. members[n] \in [Clients -> Nat]
    BY DEF Inv, TypeOK
  <1>2. \A c \in Clients : members[n][c] = IF cnode[c] = n THEN 1 ELSE 0
    BY DEF Inv, MutualRegistration
  <1>3. members[n] \in [Clients -> {0, 1}]
    BY <1>1, <1>2
  <1>4. Ones(members[n], Clients) = On(n)
    BY <1>2 DEF Ones, On
  <1>5. ClientsCount(n) = Cardinality(On(n))
    BY <1>3, <1>4, SumOfOnes, ClientsAssumption DEF ClientsCount
  <1>6. IsFiniteSet(On(n))
    BY ClientsAssumption, FS_Subset DEF On
  <1> QED BY <1>5, <1>6, FS_CardinalityType

\* A client on a node is traffic on it, whatever point of access it is at: the
\* hardware score never weighs more than the network score.
THEOREM LoadIsTraffic == Spec => []LoadWithinTraffic
  <1>1. Inv => LoadWithinTraffic
    <2> SUFFICES ASSUME Inv, NEW n \in NodeIds, NEW c \in Clients
                 PROVE  ClientsCount(n) <= NetworkScore(c, n, clients, loc, cnode)
      BY DEF LoadWithinTraffic
    <2> DEFINE Counted ==
            {o \in clients : cnode[o] # NoNode /\ Crosses(o, c, n, loc, cnode)}
    <2>1. On(n) \subseteq Counted
      <3>1. n # NoNode
        BY NodesAssumption DEF NoNode
      <3> QED BY <3>1 DEF On, Crosses, Inv, ServesApplication
    <2>2. Counted \subseteq Clients
      BY DEF Inv, TypeOK
    <2>3. IsFiniteSet(Counted)
      BY <2>2, ClientsAssumption, FS_Subset
    <2>4. Cardinality(On(n)) <= Cardinality(Counted)
      BY <2>1, <2>3, FS_Subset
    <2> QED BY <2>4, CountIsLoad DEF NetworkScore
  <1> QED BY <1>1, Invariance, PTL

-------------------------------------------------------------------------------
(* The load alone. *)

\* parameters.txt: SCORE with a negative hardware factor and no other factor.
LoadAlone ==
    /\ Algorithm = "SCORE"
    /\ Factors.hardware \in Int /\ Factors.hardware < 0
    /\ Factors.history = 0 /\ Factors.network = 0 /\ Factors.distance = 0

\* How many clients are on every node, and the same with one client more.
Load == [n \in NodeIds |-> Cardinality(On(n))]
Added(load, j) == [n \in NodeIds |-> IF n = j THEN load[n] + 1 ELSE load[n]]

Even(load) ==
    \A n, m \in NodeIds : Nodes[n].app = Nodes[m].app => load[n] <= load[m] + 1

\* From register to select the client is counted nowhere: the loads are even
\* again once it is counted on the node it has left, if it has left one.
Away == pc \in {"locate", "poa", "zone", "scan"}

NearlyEven ==
    /\ ~Away => Even(Load)
    /\ Away => \E j \in NodeIds \cup {NoNode} :
                    /\ j # NoNode => ForClient(j)
                    /\ Even(Added(Load, j))

\* Every node is scored by its load, which nobody changes during the loop.
ScoredByLoad ==
    pc = "scan" =>
        \A n \in DOMAIN scores : scores[n] = Factors.hardware * Load[n]

HistoryIsInt == history \in [Clients -> [NodeIds -> Int]]

BalanceInv == ListComplete /\ HistoryIsInt /\ ScoredByLoad /\ NearlyEven

LEMMA LoadIsNat == \A n \in NodeIds : Load[n] \in Nat /\ IsFiniteSet(On(n))
  <1>1. \A n \in NodeIds : IsFiniteSet(On(n))
    BY ClientsAssumption, FS_Subset DEF On
  <1> QED BY <1>1, FS_CardinalityType DEF Load

\* The loads follow from the registry alone.
LEMMA LoadFrame == ASSUME cnode' = cnode PROVE Load' = Load
  BY DEF Load, On

\* Counting one client more on a least loaded node keeps the loads even, if
\* they were even with that client counted elsewhere.
LEMMA EvenAgain ==
    ASSUME NEW load \in [NodeIds -> Nat], NEW j \in NodeIds \cup {NoNode},
           NEW n \in NodeIds,
           j # NoNode => Nodes[j].app = Nodes[n].app,
           Even(Added(load, j)),
           \A m \in NodeIds : Nodes[m].app = Nodes[n].app => load[n] <= load[m]
    PROVE  Even(Added(load, n))
  <1> SUFFICES ASSUME NEW a \in NodeIds, NEW b \in NodeIds,
                      Nodes[a].app = Nodes[b].app
               PROVE  Added(load, n)[a] <= Added(load, n)[b] + 1
    BY DEF Even
  <1>1. Added(load, j)[a] <= Added(load, j)[b] + 1
    BY DEF Even
  <1>2. \A i : \A m \in NodeIds :
            Added(load, i)[m] = IF m = i THEN load[m] + 1 ELSE load[m]
    BY DEF Added
  <1>3. load[a] \in Nat /\ load[b] \in Nat /\ load[n] \in Nat
    OBVIOUS
  <1>4. CASE a = n
    <2>1. load[n] <= load[b]
      BY <1>4
    <2> QED BY <1>2, <1>3, <1>4, <2>1
  <1>5. CASE a # n /\ b # j
    BY <1>1, <1>2, <1>3, <1>5
  <1>6. CASE a # n /\ b = j /\ j = n
    BY <1>1, <1>2, <1>3, <1>6
  <1>7. CASE a # n /\ b = j /\ j # n
    <2>1. j # NoNode
      BY <1>7, NodesAssumption DEF NoNode
    <2>2. load[n] <= load[b]
      BY <1>7, <2>1
    <2>3. Nodes[a].app = Nodes[n].app
      BY <1>7, <2>1
    <2>4. Added(load, j)[a] <= Added(load, j)[n] + 1
      BY <2>3 DEF Even
    <2> QED BY <1>2, <1>3, <1>7, <2>2, <2>4
  <1> QED BY <1>4, <1>5, <1>6, <1>7

\* The lower load has the higher score.
LEMMA NegativeFactor ==
    \A w \in Int : \A a, b \in Nat :
        w < 0 => (w * a <= w * b <=> b <= a) /\ (w * a < w * b <=> b < a)
  <1> SUFFICES ASSUME NEW w \in Int, NEW a \in Nat, NEW b \in Nat, w < 0
               PROVE  (w * a <= w * b <=> b <= a) /\ (w * a < w * b <=> b < a)
    OBVIOUS
  <1>1. \A d \in Nat \ {0} : w * d < 0
    OBVIOUS
  <1>2. w * a = w * b + w * (a - b) /\ w * b = w * a + w * (b - a)
    OBVIOUS
  <1>3. w * a \in Int /\ w * b \in Int /\ w * (a - b) \in Int /\ w * (b - a) \in Int
    OBVIOUS
  <1>4. CASE a = b
    BY <1>3, <1>4
  <1>5. CASE a < b
    <2>1. w * (b - a) < 0
      <3>1. b - a \in Nat \ {0}
        BY <1>5
      <3> QED BY <1>1, <3>1
    <2> QED BY <1>2, <1>3, <1>5, <2>1
  <1>6. CASE b < a
    <2>1. w * (a - b) < 0
      <3>1. a - b \in Nat \ {0}
        BY <1>6
      <3> QED BY <1>1, <3>1
    <2> QED BY <1>2, <1>3, <1>6, <2>1
  <1> QED BY <1>4, <1>5, <1>6

\* A list that is not empty has a first best node when its scores are integers.
LEMMA FirstBestExists ==
    ASSUME NEW s, DOMAIN s \subseteq NodeIds, DOMAIN s # {},
           NEW w \in Int, w < 0,
           NEW load \in [NodeIds -> Nat],
           \A n \in DOMAIN s : s[n] = w * load[n]
    PROVE  FirstBest(s) # {}
  <1> DEFINE loads == {load[n] : n \in DOMAIN s}
  <1>1. PICK least \in loads : \A k \in loads : least <= k
    <2>1. loads \in SUBSET Nat /\ loads # {}
      OBVIOUS
    <2> HIDE DEF loads
    <2> QED BY <2>1, LeastExists
  <1>2. PICK n \in {m \in DOMAIN s : load[m] = least} :
            \A m \in {k \in DOMAIN s : load[k] = least} : n <= m
    <2>1. {m \in DOMAIN s : load[m] = least} \in SUBSET Nat
      BY NodesAssumption
    <2> QED BY <1>1, <2>1, LeastExists
  <1>3. ASSUME NEW m \in DOMAIN s
        PROVE  /\ s[m] <= s[n]
               /\ m < n => s[m] < s[n]
    <2>1. s[m] = w * load[m] /\ s[n] = w * load[n]
      BY <1>2
    <2>2. load[n] \in Nat /\ load[m] \in Nat /\ load[n] <= load[m]
      BY <1>1, <1>2
    <2>3. m < n => load[n] # load[m]
      BY <1>2, NodesAssumption
    <2> HIDE DEF NodeIds
    <2> QED BY <2>1, <2>2, <2>3, NegativeFactor
  <1> QED BY <1>3 DEF FirstBest

\* With the load alone the score is the weighted load.
LEMMA ScoreIsLoad ==
    ASSUME LoadAlone, Inv, NEW c \in Clients, NEW n \in NodeIds, NEW past \in Int
    PROVE  Score(c, n, past) = Factors.hardware * Load[n]
  <1>1. NetworkScore(c, n, clients, loc, cnode) \in Int
    <2>1. IsFiniteSet({o \in clients : cnode[o] # NoNode
                                       /\ Crosses(o, c, n, loc, cnode)})
      BY ClientsAssumption, FS_Subset DEF Inv, TypeOK
    <2> QED BY <2>1, FS_CardinalityType DEF NetworkScore
  <1>2. Distance(loc[c], n) \in Int
    BY DistanceIsInt
  <1>3. ClientsCount(n) = Load[n]
    BY CountIsLoad DEF Load
  <1>4. Factors.hardware * Load[n] \in Int
    BY LoadIsNat DEF LoadAlone
  <1>5. \A k \in Int : 0 * k = 0
    OBVIOUS
  <1> DEFINE traffic == NetworkScore(c, n, clients, loc, cnode)
  <1> DEFINE distance == Distance(loc[c], n)
  <1> DEFINE load == Factors.hardware * Load[n]
  <1>6. Score(c, n, past) = 0 * past + load + 0 * traffic + 0 * distance
    BY <1>3 DEF Score, LoadAlone
  <1> HIDE DEF traffic, distance, load
  <1>7. traffic \in Int /\ distance \in Int /\ load \in Int
    BY <1>1, <1>2, <1>4 DEF traffic, distance, load
  <1>8. Score(c, n, past) = load
    BY <1>5, <1>6, <1>7
  <1> QED BY <1>8 DEF load

\* Putting one client on a node, or taking it off, moves one load by one.
LEMMA OneMore ==
    ASSUME NEW f \in [Clients -> NodeIds \cup {NoNode}],
           NEW g \in [Clients -> NodeIds \cup {NoNode}],
           NEW c \in Clients, f[c] = NoNode,
           \A d \in Clients \ {c} : g[d] = f[d],
           NEW n \in NodeIds
    PROVE  Cardinality({d \in Clients : g[d] = n}) =
               IF n = g[c] THEN Cardinality({d \in Clients : f[d] = n}) + 1
                           ELSE Cardinality({d \in Clients : f[d] = n})
  <1> DEFINE before == {d \in Clients : f[d] = n}
  <1> DEFINE after == {d \in Clients : g[d] = n}
  <1>1. IsFiniteSet(before)
    BY ClientsAssumption, FS_Subset
  <1>2. c \notin before
    BY NodesAssumption DEF NoNode
  <1>3. CASE n = g[c]
    <2>1. after = before \cup {c}
      BY <1>3
    <2> HIDE DEF before, after
    <2> QED BY <1>1, <1>2, <1>3, <2>1, FS_AddElement DEF before, after
  <1>4. CASE n # g[c]
    <2>1. after = before
      BY <1>2, <1>4
    <2> QED BY <1>4, <2>1
  <1> QED BY <1>3, <1>4

LEMMA BalanceInit == Init => BalanceInv
  <1> SUFFICES ASSUME Init PROVE BalanceInv
    OBVIOUS
  <1>1. \A n \in NodeIds : On(n) = {}
    BY NodesAssumption DEF Init, On, NoNode
  <1>2. \A n \in NodeIds : Load[n] = 0
    BY <1>1, FS_EmptySet DEF Load
  <1>3. Even(Load)
    BY <1>2 DEF Even
  <1>4. NearlyEven /\ ScoredByLoad /\ HistoryIsInt
    BY <1>3 DEF Init, NearlyEven, Away, ScoredByLoad, HistoryIsInt, NoHistory
  <1> QED BY <1>4, ListInit DEF BalanceInv

LEMMA HistoryStep == Inv /\ HistoryIsInt /\ [Next]_vars => HistoryIsInt'
  <1> SUFFICES ASSUME Inv, HistoryIsInt, [Next]_vars PROVE HistoryIsInt'
    OBVIOUS
  <1>1. CASE ScoreWeighted
    <2>1. PICK past \in HistoryAfter(req.client, scan) :
                history' = [history EXCEPT ![req.client][scan] = past]
      BY <1>1 DEF ScoreWeighted
    <2>2. req.client \in Clients /\ scan \in NodeIds
      BY <1>1 DEF ScoreWeighted, Scanning, Inv, TypeOK
    <2>3. history[req.client][scan] \in Int
      BY <2>2 DEF HistoryIsInt
    <2>4. \A t \in Nat : t * Decay \in Int
      BY TimesAssumption
    <2>5. \A t \in Lags \cup Elapsed : t * Decay \in Int
      BY <2>4, TimesAssumption
    <2>6. past \in Int
      BY <2>1, <2>3, <2>5 DEF HistoryAfter
    <2> QED BY <2>1, <2>2, <2>6 DEF HistoryIsInt
  <1>2. CASE ~ScoreWeighted
    BY <1>2 DEF Next, MainThread, Accept, Receive, ReceiveNothing, Serve,
       Register, Enrol, Locate, StorePoa, StoreZone, ScanNode, SkipNode,
       ScoreRandom, ScoreNearest, SelectNone, SelectNode, Reply,
       SimulationThread, Fire, FireUnknown, Post, PostThrows, Get, MovePoa,
       MoveZone, vars, HistoryIsInt
  <1> QED BY <1>1, <1>2

LEMMA ScoredStep ==
    ASSUME LoadAlone, Inv, HistoryIsInt', HistoryIsInt, ScoredByLoad,
           [Next]_vars
    PROVE  ScoredByLoad'
  <1> SUFFICES ASSUME pc' = "scan" PROVE ScoredByLoad'
    BY DEF ScoredByLoad
  <1>1. CASE StoreZone
    BY <1>1 DEF StoreZone, ScoredByLoad, Inv, ScoresForClient
  <1>2. CASE ScanNode
    <2>1. pc = "scan" /\ scan \in NodeIds /\ req.client \in Clients
      BY <1>2 DEF ScanNode, SkipNode, ScoreRandom, ScoreNearest, ScoreWeighted,
         Scanning, Inv, TypeOK
    <2>2. Load' = Load
      BY <2>1, ScanFrame, LoadFrame DEF registryVars
    <2>3. CASE SkipNode
      BY <2>1, <2>2, <2>3 DEF SkipNode, ScoredByLoad
    <2>4. CASE ScoreWeighted
      <3>1. PICK past \in HistoryAfter(req.client, scan) :
                /\ history' = [history EXCEPT ![req.client][scan] = past]
                /\ PushScore(Score(req.client, scan, past))
        BY <2>4 DEF ScoreWeighted
      <3>2. past \in Int
        <4>1. past = history'[req.client][scan]
          BY <2>1, <3>1 DEF HistoryIsInt
        <4> QED BY <2>1, <4>1 DEF HistoryIsInt
      <3>3. Score(req.client, scan, past) = Factors.hardware * Load[scan]
        BY <2>1, <3>2, ScoreIsLoad
      <3> QED BY <2>1, <2>2, <3>1, <3>3 DEF PushScore, ScoredByLoad
    <2> QED BY <1>2, <2>3, <2>4 DEF ScanNode, ScoreRandom, ScoreNearest, LoadAlone
  <1>3. CASE SimulationThread \/ UNCHANGED vars
    <2>1. UNCHANGED <<pc, scores, cnode>>
      BY <1>3 DEF SimulationThread, Fire, FireUnknown, Post, PostThrows, Get,
         MovePoa, MoveZone, vars, mainVars, registryVars
    <2> QED BY <2>1, LoadFrame DEF ScoredByLoad
  <1> QED BY <1>1, <1>2, <1>3 DEF Next, MainThread, Accept, Receive,
      ReceiveNothing, Serve, Register, Enrol, Locate, StorePoa, SelectNone,
      SelectNode, Reply, Hangup

LEMMA EvenStep ==
    ASSUME LoadAlone, Inv, Inv', BalanceInv, [Next]_vars
    PROVE  NearlyEven'
  <1> USE DEF BalanceInv
  <1> DEFINE c == req.client
  <1>0. cnode \in [Clients -> NodeIds \cup {NoNode}]
        /\ cnode' \in [Clients -> NodeIds \cup {NoNode}]
        /\ (pc \notin {"listen", "receive"} => c \in Clients)
    BY DEF Inv, TypeOK
  <1>1. CASE Accept \/ Receive \/ ReceiveNothing \/ Reply
    <2>1. ~Away /\ ~Away' /\ cnode' = cnode
      BY <1>1 DEF Accept, Receive, ReceiveNothing, Reply, Hangup, Away,
         registryVars
    <2> QED BY <2>1, LoadFrame DEF NearlyEven, Even
  <1>2. CASE Register
    <2> DEFINE j == cnode[c]
    <2>1. pc = "register" /\ Away' /\ c \in Clients /\ req' = req
          /\ cnode' = [cnode EXCEPT ![c] = NoNode]
      BY <1>0, <1>2 DEF Register, Enrol, Away
    <2>2. Even(Load)
      BY <2>1 DEF NearlyEven, Away
    <2>3. ASSUME NEW n \in NodeIds
          PROVE  Load[n] = IF n = j THEN Load'[n] + 1 ELSE Load'[n]
      <3>1. cnode'[c] = NoNode /\ \A d \in Clients \ {c} : cnode[d] = cnode'[d]
        BY <1>0, <2>1
      <3> QED BY <1>0, <2>1, <3>1, OneMore DEF Load, On
    <2>4. Load = Added(Load', j)
      BY <2>3 DEF Added, Load
    <2>5. j # NoNode => Nodes[j].app = app'[c]
      BY <1>2, <2>1 DEF Register, Enrol, Inv, ServesApplication
    <2>6. PICK i \in NodeIds \cup {NoNode} : i = j
      BY <1>0, <2>1
    <2>7. Even(Added(Load', i))
      BY <2>2, <2>4, <2>6
    <2> HIDE DEF j
    <2>8. i # NoNode => ForClient(i)'
      BY <2>1, <2>5, <2>6 DEF ForClient
    <2> QED BY <2>1, <2>6, <2>7, <2>8 DEF NearlyEven
  <1>3. CASE Locate \/ StorePoa \/ StoreZone \/ ScanNode
    <2>1. Away /\ Away' /\ UNCHANGED <<req, app, cnode>>
      BY <1>3 DEF Locate, StorePoa, StoreZone, ScanNode, SkipNode, ScoreRandom,
         ScoreNearest, ScoreWeighted, PushScore, Scanning, Away, registryVars
    <2> QED BY <2>1, LoadFrame DEF NearlyEven, ForClient, Even, Added
  <1>4. CASE SelectNone \/ SelectNode
    <2>1. /\ Away /\ pc = "scan" /\ scan \notin NodeIds
          /\ ~Away' /\ c \in Clients
      BY <1>0, <1>4 DEF SelectNone, SelectNode, Away
    <2>2. PICK j \in NodeIds \cup {NoNode} :
                (j # NoNode => ForClient(j)) /\ Even(Added(Load, j))
      BY <2>1 DEF NearlyEven
    <2>3. CASE SelectNone
      <3>1. j = NoNode
        <4>1. j # NoNode => DOMAIN scores # {}
          BY <2>1, <2>2, ListAtEnd
        <4>2. DOMAIN scores # {} => FirstBest(scores) # {}
          <5>1. DOMAIN scores \subseteq NodeIds
            BY DEF Inv, TypeOK
          <5>2. Load \in [NodeIds -> Nat]
            BY LoadIsNat DEF Load
          <5>3. \A n \in DOMAIN scores : scores[n] = Factors.hardware * Load[n]
            BY <2>1 DEF ScoredByLoad
          <5> QED BY <5>1, <5>2, <5>3, FirstBestExists DEF LoadAlone
        <4> QED BY <2>3, <4>1, <4>2 DEF SelectNone
      <3>2. Added(Load, j) = Load
        <4>1. \A n \in NodeIds : n # j
          BY <3>1, NodesAssumption DEF NoNode
        <4> QED BY <4>1 DEF Added, Load
      <3>3. cnode' = cnode
        BY <2>3 DEF SelectNone, registryVars
      <3> QED BY <2>1, <2>2, <3>2, <3>3, LoadFrame DEF NearlyEven, Even
    <2>4. CASE SelectNode
      <3>1. PICK n \in FirstBest(scores) : cnode' = [cnode EXCEPT ![c] = n]
        BY <2>4 DEF SelectNode
      <3>2. /\ n \in DOMAIN scores /\ n \in NodeIds /\ ForClient(n)
            /\ cnode[c] = NoNode
        BY <2>1, ListAtEnd DEF FirstBest, Inv, ClientOff
      <3>3. ASSUME NEW m \in NodeIds, Nodes[m].app = Nodes[n].app
            PROVE  Load[n] <= Load[m]
        <4>1. m \in DOMAIN scores
          BY <2>1, <3>2, <3>3, ListAtEnd DEF ForClient
        <4>2. scores[m] <= scores[n]
          BY <3>2, <4>1 DEF FirstBest
        <4>3. /\ scores[m] = Factors.hardware * Load[m]
              /\ scores[n] = Factors.hardware * Load[n]
          BY <2>1, <3>2, <4>1 DEF ScoredByLoad
        <4>4. Load[n] \in Nat /\ Load[m] \in Nat
          BY <3>2, LoadIsNat
        <4> QED BY <4>2, <4>3, <4>4, NegativeFactor DEF LoadAlone
      <3>4. Even(Added(Load, n))
        <4>1. Load \in [NodeIds -> Nat]
          BY LoadIsNat DEF Load
        <4>2. j # NoNode => Nodes[j].app = Nodes[n].app
          BY <2>2, <3>2 DEF ForClient
        <4> HIDE DEF Load
        <4> QED BY <2>2, <3>2, <3>3, <4>1, <4>2, EvenAgain
      <3>5. Load' = Added(Load, n)
        <4>1. cnode'[c] = n /\ \A d \in Clients \ {c} : cnode'[d] = cnode[d]
          BY <1>0, <2>1, <3>1
        <4>2. ASSUME NEW m \in NodeIds
              PROVE  Load'[m] = IF m = n THEN Load[m] + 1 ELSE Load[m]
          BY <1>0, <2>1, <3>2, <4>1, OneMore DEF Load, On
        <4> QED BY <4>2 DEF Load, Added
      <3> QED BY <2>1, <3>4, <3>5 DEF NearlyEven, Even
    <2> QED BY <1>4, <2>3, <2>4
  <1>5. CASE SimulationThread \/ UNCHANGED vars
    <2>1. UNCHANGED <<pc, req, app, cnode>>
      BY <1>5 DEF SimulationThread, Fire, FireUnknown, Post, PostThrows, Get,
         MovePoa, MoveZone, vars, mainVars, registryVars
    <2> QED BY <2>1, LoadFrame DEF NearlyEven, Away, ForClient, Even, Added
  <1> QED BY <1>1, <1>2, <1>3, <1>4, <1>5 DEF Next, MainThread, Serve

\* calculate_node_score and select_node together: scored by their load alone,
\* no two nodes of an application ever differ by more than one client when the
\* master waits for a request, although a client that asks again is first
\* taken off its node and every client may do so at any time.
THEOREM LoadStaysBalanced ==
    ASSUME LoadAlone
    PROVE  Spec => []LoadBalanced
  <1>1. Inv /\ Inv' /\ BalanceInv /\ [Next]_vars => BalanceInv'
    BY ListStep, HistoryStep, ScoredStep, EvenStep DEF BalanceInv
  <1>2. Inv /\ BalanceInv => LoadBalanced
    <2> SUFFICES ASSUME Inv, BalanceInv, pc = "listen",
                        NEW n \in NodeIds, NEW m \in NodeIds,
                        Nodes[n].app = Nodes[m].app
                 PROVE  ClientsCount(n) <= ClientsCount(m) + 1
      BY DEF LoadBalanced
    <2>1. Load[n] <= Load[m] + 1
      BY DEF BalanceInv, NearlyEven, Away, Even
    <2> QED BY <2>1, CountIsLoad DEF Load
  <1> QED BY <1>1, <1>2, BalanceInit, Invariance, PTL DEF Spec
===============================================================================

----------------------------- MODULE MasterProofs -----------------------------
(***************************************************************************)
(* Safety of the master for every set of clients, every limits.txt, every  *)
(* algorithm and every simulation file.                                    *)
(***************************************************************************)
EXTENDS Master, FiniteSetTheorems, TLAPS

-------------------------------------------------------------------------------
(* The inductive invariant. *)

\* From fire to the last setter, the simulation thread has an event at hand.
EventAtHand == spc # "wait" => ev \in DOMAIN Events

\* From register to select, the client of the request is known and off every
\* node.
ClientOff ==
    pc \in {"locate", "poa", "zone", "scan"} =>
        req.client \in clients /\ cnode[req.client] = NoNode

\* Only nodes of the client's application are in the list.
ScoresForClient ==
    /\ pc \notin {"scan", "reply"} => DOMAIN scores = {}
    /\ pc = "scan" => \A n \in DOMAIN scores : ForClient(n)

\* What main computes when it writes a line of the output file.
OutputCounts == output = Connected(clients, cnode)

Inv == /\ TypeOK
       /\ EventAtHand
       /\ ClientOff
       /\ ScoresForClient
       /\ MutualRegistration
       /\ ServesApplication
       /\ OutputCounts

LEMMA ConnectedIsNat ==
    ASSUME NEW known \in SUBSET Clients, NEW node
    PROVE  Connected(known, node) \in Nat
  <1>1. IsFiniteSet({c \in known : node[c] # NoNode})
    BY ClientsAssumption, FS_Subset
  <1> QED BY <1>1, FS_CardinalityType DEF Connected

LEMMA InitInv == Init => Inv
  <1> SUFFICES ASSUME Init PROVE Inv
    OBVIOUS
  <1>1. TypeOK
    BY EmulatorAssumption DEF Init, TypeOK, Registered, NoNode
  <1>2. EventAtHand /\ ClientOff /\ ScoresForClient
    BY DEF Init, EventAtHand, ClientOff, ScoresForClient
  <1>3. MutualRegistration /\ ServesApplication
    BY NodesAssumption DEF Init, MutualRegistration, ServesApplication, NoNode
  <1>4. OutputCounts
    <2>1. {c \in clients : cnode[c] # NoNode} = {}
      BY DEF Init
    <2> QED BY <2>1, FS_EmptySet DEF Init, OutputCounts, Connected
  <1> QED BY <1>1, <1>2, <1>3, <1>4 DEF Inv

LEMMA TypeStep == Inv /\ [Next]_vars => TypeOK'
  <1> SUFFICES ASSUME Inv, [Next]_vars PROVE TypeOK'
    OBVIOUS
  <1> USE DEF Inv, TypeOK, Registered, NodeIds
  <1>1. CASE Accept
    BY <1>1 DEF Accept, registryVars, simVars
  <1>2. CASE Receive
    BY <1>2, AppsAssumption DEF Receive, registryVars, simVars
  <1>3. CASE ReceiveNothing
    BY <1>3 DEF ReceiveNothing, Hangup, registryVars, simVars
  <1>4. CASE Register
    <2>1. req.client \in Clients
      BY <1>4 DEF Register, Enrol
    <2>2. clients' \subseteq Clients
      BY <1>4, <2>1 DEF Register, Enrol
    <2>3. output' \in Nat
      <3>1. output' = output \/ output' = Connected(clients', cnode')
        BY <1>4 DEF Register
      <3>2. Connected(clients', cnode') \in Nat
        BY <2>2, ConnectedIsNat
      <3> QED BY <3>1, <3>2
    <2>4. app' \in [Clients -> Nat] /\ cnode' \in [Clients -> NodeIds \cup {NoNode}]
      BY <1>4, <2>1 DEF Register, Enrol
    <2>5. members' \in [NodeIds -> [Clients -> Nat]]
      <3>1. \/ members' = members
            \/ members' = [members EXCEPT ![cnode[req.client]][req.client] = 0]
        BY <1>4 DEF Register
      <3> QED BY <2>1, <3>1
    <2>6. pc = "register" /\ pc' = "locate"
          /\ UNCHANGED <<req, scan, scores, spc, place>>
      BY <1>4 DEF Register, Enrol, simVars
    <2> QED BY <2>1, <2>2, <2>3, <2>4, <2>5, <2>6
  <1>5. CASE Locate
    BY <1>5 DEF Locate, registryVars, simVars
  <1>6. CASE StorePoa
    BY <1>6 DEF StorePoa, registryVars, simVars
  <1>7. CASE StoreZone
    BY <1>7 DEF StoreZone, registryVars, simVars
  <1>8. CASE ScanNode
    <2>1. CASE SkipNode
      BY <1>8, <2>1, NodesAssumption DEF SkipNode, Scanning, registryVars, simVars
    <2>2. ASSUME NEW s, Scanning, PushScore(s) PROVE TypeOK'
      BY <2>2, NodesAssumption DEF PushScore, Scanning, registryVars, simVars
    <2> QED BY <1>8, <2>1, <2>2 DEF ScanNode, ScoreRandom, ScoreNearest, ScoreWeighted
  <1>9. CASE SelectNone
    BY <1>9 DEF SelectNone, registryVars, simVars
  <1>10. CASE SelectNode
    <2>1. output' \in Nat
      BY <1>10, ConnectedIsNat DEF SelectNode
    <2> QED BY <1>10, <2>1 DEF SelectNode, FirstBest, simVars
  <1>11. CASE Reply
    BY <1>11 DEF Reply, Hangup, registryVars, simVars
  <1>12. CASE SimulationThread
    <2>1. CASE Post
      BY <2>1, EmulatorAssumption DEF Post, EventAtHand, Event, mainVars, registryVars
    <2>2. CASE ~Post
      BY <1>12, <2>2 DEF SimulationThread, Fire, FireUnknown, PostThrows, Get,
           MovePoa, MoveZone, mainVars, registryVars
    <2> QED BY <2>1, <2>2
  <1>13. CASE UNCHANGED vars
    BY <1>13 DEF vars, mainVars, registryVars, simVars
  <1> QED BY <1>1, <1>2, <1>3, <1>4, <1>5, <1>6, <1>7, <1>8, <1>9, <1>10, <1>11,
             <1>12, <1>13 DEF Next, MainThread, Serve

\* Between requests nothing is known of the client; then it is off all nodes.
LEMMA EventStep == Inv /\ [Next]_vars => EventAtHand'
  <1> SUFFICES ASSUME Inv, [Next]_vars PROVE EventAtHand'
    OBVIOUS
  <1> USE DEF Inv, EventAtHand
  <1>1. CASE MainThread
    BY <1>1 DEF MainThread, Accept, Receive, ReceiveNothing, Serve, Register, Enrol,
       Locate, StorePoa, StoreZone, ScanNode, SkipNode, ScoreRandom,
       ScoreNearest, ScoreWeighted, PushScore, SelectNone, SelectNode, Reply,
       simVars
  <1>2. CASE SimulationThread
    BY <1>2 DEF SimulationThread, Fire, FireUnknown, Post, PostThrows, Get,
       MovePoa, MoveZone, NextEvent
  <1>3. CASE UNCHANGED vars
    BY <1>3 DEF vars, simVars
  <1> QED BY <1>1, <1>2, <1>3 DEF Next

\* The registry, seen from the main thread's own position.
RegistryInv == /\ ClientOff
               /\ ScoresForClient
               /\ MutualRegistration
               /\ ServesApplication
               /\ OutputCounts

\* The steps that leave the registry alone.
LEMMA RegistryFrame ==
    ASSUME Inv, UNCHANGED registryVars
    PROVE  MutualRegistration' /\ ServesApplication' /\ OutputCounts'
  BY DEF Inv, registryVars, MutualRegistration, ServesApplication,
     OutputCounts, Connected

\* Those that leave the request and the list of scores alone too.
LEMMA RequestFrame ==
    ASSUME Inv, UNCHANGED <<pc, req, scores, registryVars>>
    PROVE  RegistryInv'
  <1>1. ClientOff' /\ ScoresForClient'
    BY DEF Inv, registryVars, ClientOff, ScoresForClient, ForClient
  <1> QED BY <1>1, RegistryFrame DEF RegistryInv

LEMMA RegistryStep == Inv /\ [Next]_vars => RegistryInv'
  <1> SUFFICES ASSUME Inv, [Next]_vars PROVE RegistryInv'
    OBVIOUS
  <1> USE DEF Inv, RegistryInv
  <1>1. CASE Accept \/ Receive \/ ReceiveNothing \/ Reply
    <2>1. UNCHANGED registryVars
      BY <1>1 DEF Accept, Receive, ReceiveNothing, Reply
    <2>2. pc' \in {"listen", "receive", "register"}
      BY <1>1 DEF Accept, Receive, ReceiveNothing, Reply, Hangup
    <2>3. DOMAIN scores' = {}
      BY <1>1 DEF Accept, Receive, ReceiveNothing, Reply, Hangup,
         ScoresForClient
    <2>4. ClientOff' /\ ScoresForClient'
      BY <2>2, <2>3 DEF ClientOff, ScoresForClient
    <2> QED BY <2>1, <2>4, RegistryFrame
  <1>2. CASE Register
    <2> DEFINE c == req.client
    <2>1. c \in Clients /\ DOMAIN scores = {}
      BY <1>2 DEF Register, Enrol, TypeOK, ScoresForClient
    <2>2. ClientOff' /\ ScoresForClient'
      BY <1>2, <2>1 DEF Register, Enrol, TypeOK, ClientOff, ScoresForClient
    <2>3. MutualRegistration'
      BY <1>2, <2>1, NodesAssumption
      DEF Register, Enrol, TypeOK, MutualRegistration, NoNode
    <2>4. ServesApplication'
      BY <1>2, <2>1 DEF Register, Enrol, TypeOK, ServesApplication
    <2>5. OutputCounts'
      <3>1. CASE cnode[c] # NoNode
        BY <1>2, <3>1 DEF Register, Enrol, OutputCounts
      <3>2. CASE cnode[c] = NoNode
        <4>1. cnode' = cnode
          BY <1>2, <2>1, <3>2 DEF Register, Enrol, TypeOK
        <4>2. {d \in clients' : cnode'[d] # NoNode}
                = {d \in clients : cnode[d] # NoNode}
          BY <1>2, <3>2, <4>1 DEF Register, Enrol
        <4> QED BY <1>2, <3>2, <4>2 DEF Register, Enrol, OutputCounts, Connected
      <3> QED BY <3>1, <3>2
    <2> QED BY <2>2, <2>3, <2>4, <2>5
  <1>3. CASE Locate \/ StorePoa \/ StoreZone
    <2>1. UNCHANGED <<req, scores, registryVars>>
      BY <1>3 DEF Locate, StorePoa, StoreZone
    <2>2. ClientOff'
      BY <1>3, <2>1
      DEF Locate, StorePoa, StoreZone, registryVars, ClientOff
    <2>3. ScoresForClient'
      BY <1>3, <2>1
      DEF Locate, StorePoa, StoreZone, registryVars, ScoresForClient
    <2> QED BY <2>1, <2>2, <2>3, RegistryFrame
  <1>4. CASE ScanNode
    <2>1. ASSUME NEW s, PushScore(s), Scanning, ForClient(scan)
          PROVE  RegistryInv'
      <3>1. ClientOff' /\ ScoresForClient'
        BY <2>1 DEF PushScore, Scanning, registryVars, ClientOff,
           ScoresForClient, ForClient
      <3> QED BY <2>1, <3>1, RegistryFrame DEF PushScore
    <2>2. CASE SkipNode
      BY <2>2, RequestFrame DEF SkipNode
    <2> QED BY <1>4, <2>1, <2>2
        DEF ScanNode, ScoreRandom, ScoreNearest, ScoreWeighted
  <1>5. CASE SelectNone
    <2>1. ClientOff' /\ ScoresForClient'
      BY <1>5 DEF SelectNone, ClientOff, ScoresForClient
    <2> QED BY <1>5, <2>1, RegistryFrame DEF SelectNone
  <1>6. CASE SelectNode
    <2> DEFINE c == req.client
    <2>1. PICK n \in FirstBest(scores) :
                /\ members' = [members EXCEPT ![n][c] = @ + 1]
                /\ cnode' = [cnode EXCEPT ![c] = n]
      BY <1>6 DEF SelectNode
    <2>2. /\ c \in Clients /\ c \in clients /\ cnode[c] = NoNode
          /\ n \in NodeIds /\ n # NoNode /\ Nodes[n].app = app[c]
      BY <1>6, NodesAssumption
      DEF SelectNode, TypeOK, ClientOff, ScoresForClient, ForClient, FirstBest,
          NoNode
    <2>3. ClientOff' /\ ScoresForClient'
      BY <1>6 DEF SelectNode, ClientOff, ScoresForClient
    <2>4. MutualRegistration'
      <3> SUFFICES ASSUME NEW d \in Clients, NEW m \in NodeIds
                   PROVE  members'[m][d] = IF cnode'[d] = m THEN 1 ELSE 0
        BY DEF MutualRegistration
      <3>1. members[m][d] = IF cnode[d] = m THEN 1 ELSE 0
        BY DEF MutualRegistration
      <3>2. CASE d = c /\ m = n
        BY <2>1, <2>2, <3>1, <3>2 DEF TypeOK
      <3>3. CASE d # c \/ m # n
        BY <2>1, <2>2, <3>1, <3>3, NodesAssumption DEF TypeOK, NoNode
      <3> QED BY <3>2, <3>3
    <2>5. ServesApplication'
      BY <1>6, <2>1, <2>2 DEF SelectNode, TypeOK, ServesApplication
    <2>6. OutputCounts'
      BY <1>6 DEF SelectNode, OutputCounts, Connected
    <2> QED BY <2>3, <2>4, <2>5, <2>6
  <1>7. CASE SimulationThread
    BY <1>7, RequestFrame DEF SimulationThread, Fire, FireUnknown, Post,
       PostThrows, Get, MovePoa, MoveZone, mainVars
  <1>8. CASE UNCHANGED vars
    BY <1>8, RequestFrame DEF vars, mainVars
  <1> QED BY <1>1, <1>2, <1>3, <1>4, <1>5, <1>6, <1>7, <1>8
      DEF Next, MainThread, Serve

THEOREM Invariance == Spec => []Inv
  <1>1. Inv /\ [Next]_vars => Inv'
    BY TypeStep, EventStep, RegistryStep DEF Inv, RegistryInv
  <1> QED BY <1>1, InitInv, PTL DEF Spec

THEOREM TypeCorrect == Spec => []TypeOK
  BY Invariance, PTL DEF Inv

THEOREM Mutual == Spec => []MutualRegistration
  BY Invariance, PTL DEF Inv

THEOREM RightApplication == Spec => []ServesApplication
  BY Invariance, PTL DEF Inv

\* The output file counts what the nodes' lists hold: by the agreement of the
\* two directions it is the same to count clients with a node.
THEOREM OutputIsCurrent == Spec => []OutputCurrent
  <1>1. Inv => OutputCurrent
    <2> SUFFICES ASSUME Inv PROVE OutputCurrent
      OBVIOUS
    <2>1. {c \in Clients : \E n \in NodeIds : members[n][c] > 0}
            = {c \in clients : cnode[c] # NoNode}
      <3>1. ASSUME NEW c \in Clients
            PROVE  (\E n \in NodeIds : members[n][c] > 0) <=> cnode[c] # NoNode
        <4>1. \A n \in NodeIds : members[n][c] > 0 <=> cnode[c] = n
          BY DEF Inv, MutualRegistration
        <4> QED BY <4>1, NodesAssumption DEF Inv, TypeOK, NoNode
      <3> QED BY <3>1 DEF Inv, TypeOK, ServesApplication
    <2> QED BY <2>1 DEF Inv, OutputCounts, OutputCurrent, Connected
  <1> QED BY <1>1, Invariance, PTL

-------------------------------------------------------------------------------
(* The master implements the abstract allocator. *)

\* The clients on a node, as the allocator sees them.
Served == [n \in NodeIds |-> {c \in Clients : members[n][c] > 0}]

\* Moving one client moves it between the two sets and no other client.
LEMMA ServedMoves ==
    ASSUME Inv, Inv', NEW c \in Clients, NEW n \in NodeIds \cup {NoNode},
           cnode' = [cnode EXCEPT ![c] = n]
    PROVE  \A m \in NodeIds :
              Served'[m] = IF m = n THEN Served[m] \cup {c} ELSE Served[m] \ {c}
  <1>1. \A m \in NodeIds : Served[m] = {d \in Clients : cnode[d] = m}
    BY DEF Inv, MutualRegistration, Served
  <1>2. \A m \in NodeIds : Served'[m] = {d \in Clients : cnode'[d] = m}
    BY DEF Inv, MutualRegistration, Served
  <1>3. ASSUME NEW d \in Clients
        PROVE  cnode'[d] = IF d = c THEN n ELSE cnode[d]
    BY DEF Inv, TypeOK
  <1> SUFFICES ASSUME NEW m \in NodeIds
               PROVE  Served'[m] = IF m = n THEN Served[m] \cup {c}
                                            ELSE Served[m] \ {c}
    OBVIOUS
  <1>4. CASE m = n
    BY <1>1, <1>2, <1>3, <1>4
  <1>5. CASE m # n
    BY <1>1, <1>2, <1>3, <1>5
  <1> QED BY <1>4, <1>5

LEMMA InitAllocates == Init => Alloc!Init
  BY DEF Init, Alloc!Init, Alloc!NodeIds, NodeIds

LEMMA AllocatorMoves ==
    ASSUME NEW c \in Clients,
           \/ Alloc!Join(c)
           \/ Alloc!Leave(c)
           \/ \E n \in NodeIds : Alloc!Place(c, n)
    PROVE  Alloc!Next
  BY DEF Alloc!Next, Alloc!NodeIds, NodeIds

LEMMA StepAllocates ==
    Inv /\ Inv' /\ [Next]_vars => [Alloc!Next]_(Alloc!allocVars)
  <1> SUFFICES ASSUME Inv, Inv', [Next]_vars
               PROVE  [Alloc!Next]_(Alloc!allocVars)
    OBVIOUS
  <1>1. ASSUME UNCHANGED registryVars
        PROVE  UNCHANGED Alloc!allocVars
    BY <1>1 DEF registryVars, Alloc!allocVars
  <1>2. CASE Register
    <2>1. PICK c \in Clients : c = req.client
      BY <1>2 DEF Register, Enrol, Inv, TypeOK
    <2>2. CASE c \notin clients
      <3>1. cnode' = cnode /\ members' = members
        BY <1>2, <2>1, <2>2 DEF Register, Enrol, Inv, TypeOK, ServesApplication
      <3>2. Alloc!Join(c)
        BY <1>2, <2>1, <2>2, <3>1
        DEF Register, Enrol, Inv, TypeOK, Alloc!Join
      <3> QED BY <2>1, <3>2, AllocatorMoves
    <2>3. CASE c \in clients /\ cnode[c] # NoNode
      <3>1. Served' = [Served EXCEPT ![cnode[c]] = @ \ {c}]
        <4>1. cnode' = [cnode EXCEPT ![c] = NoNode]
          BY <1>2, <2>1 DEF Register, Enrol
        <4>2. \A m \in NodeIds : Served'[m] = Served[m] \ {c}
          <5>1. \A m \in NodeIds : m # NoNode
            BY NodesAssumption DEF NoNode
          <5>2. \A m \in NodeIds :
                   Served'[m] = IF m = NoNode THEN Served[m] \cup {c}
                                              ELSE Served[m] \ {c}
            <6>1. NoNode \in NodeIds \cup {NoNode}
              OBVIOUS
            <6> QED BY <4>1, <6>1, ServedMoves
          <5> QED BY <5>1, <5>2
        <4>3. \A m \in NodeIds : m # cnode[c] => c \notin Served[m]
          BY DEF Served, Inv, MutualRegistration
        <4> QED BY <4>2, <4>3 DEF Served
      <3>2. Alloc!Leave(c)
        BY <1>2, <2>1, <2>3, <3>1
        DEF Register, Enrol, Inv, TypeOK, Alloc!Leave, Served
      <3> QED BY <2>1, <3>2, AllocatorMoves
    <2>4. CASE c \in clients /\ cnode[c] = NoNode
      BY <1>2, <2>1, <2>4 DEF Register, Enrol, Inv, TypeOK, Alloc!allocVars
    <2> QED BY <2>2, <2>3, <2>4
  <1>3. CASE SelectNode
    <2>0. PICK c \in Clients : c = req.client
      BY <1>3 DEF SelectNode, Inv, TypeOK
    <2>1. PICK n \in FirstBest(scores) : cnode' = [cnode EXCEPT ![c] = n]
      BY <1>3, <2>0 DEF SelectNode
    <2>2. /\ c \in clients /\ cnode[c] = NoNode
          /\ n \in NodeIds /\ Nodes[n].app = app[c]
      BY <1>3, <2>0
      DEF SelectNode, Inv, TypeOK, ClientOff, ScoresForClient, ForClient,
          FirstBest
    <2>3. Served' = [Served EXCEPT ![n] = @ \cup {c}]
      <3>1. \A m \in NodeIds :
               Served'[m] = IF m = n THEN Served[m] \cup {c} ELSE Served[m] \ {c}
        BY <2>1, <2>2, ServedMoves
      <3>2. \A m \in NodeIds : c \notin Served[m]
        BY <2>2, NodesAssumption DEF Served, Inv, MutualRegistration, NoNode
      <3> QED BY <3>1, <3>2 DEF Served
    <2>4. Alloc!Place(c, n)
      BY <1>3, <2>1, <2>2, <2>3 DEF SelectNode, Alloc!Place, Served
    <2> QED BY <2>2, <2>4, AllocatorMoves
  <1>4. CASE Accept \/ Receive \/ ReceiveNothing \/ Locate \/ StorePoa
             \/ StoreZone \/ ScanNode \/ SelectNone \/ Reply
    BY <1>1, <1>4 DEF Accept, Receive, ReceiveNothing, Locate, StorePoa,
       StoreZone, ScanNode, SkipNode, ScoreRandom, ScoreNearest, ScoreWeighted,
       PushScore, SelectNone, Reply
  <1>5. CASE SimulationThread
    BY <1>1, <1>5 DEF SimulationThread, Fire, FireUnknown, Post, PostThrows,
       Get, MovePoa, MoveZone
  <1>6. CASE UNCHANGED vars
    BY <1>1, <1>6 DEF vars
  <1> QED BY <1>2, <1>3, <1>4, <1>5, <1>6 DEF Next, MainThread, Serve

THEOREM Implements == Spec => Allocates
  BY InitAllocates, StepAllocates, Invariance, PTL
  DEF Spec, Allocates, Alloc!Spec
===============================================================================

------------------------------ MODULE Selection ------------------------------
(***************************************************************************)
(* The pure part of the master: how far a client is from a node, how many  *)
(* connections cross a node, and which nodes of a scored list win          *)
(* (src/src/master/master.cpp).  `Nodes' is the vector read from           *)
(* limits.txt: its order decides ties, and a node whose point of access is *)
(* "null" stands for its whole zone.                                       *)
(***************************************************************************)
EXTENDS Integers, Sequences, FiniteSets

CONSTANTS
    Clients,    \* client names (the keys of the registry)
    Nodes       \* <<[poa, zone, app], ...>> in the order of limits.txt

NodeIds == DOMAIN Nodes

\* nullptr as a Node *.
NoNode == 0

ASSUME ClientsAssumption == IsFiniteSet(Clients)

ASSUME NodesAssumption == Len(Nodes) \in Nat /\ NodeIds = 1 .. Len(Nodes)

IsZoneNode(n) == Nodes[n].poa = "null"

\* get_distance(Client *, Node *), on the location stored for the client.
\* Only the points of access are compared before 1 is returned.
Distance(at, n) ==
    IF at.poa = Nodes[n].poa
    THEN 1
    ELSE (IF at.zone = Nodes[n].zone THEN 2 ELSE 4)
         + (IF IsZoneNode(n) THEN 0 ELSE 1)

\* The traffic of client o is counted on node n when c is being placed: o
\* is served by n, or shares the point of access of c, or its path is taken
\* to run through the zone or the point of access of n.
Passes(o, c, n, loc, node) ==
    \/ loc[o].poa = loc[c].poa
    \/ /\ IsZoneNode(n)
       /\ IF loc[o].zone = Nodes[n].zone
          THEN Distance(loc[o], node[o]) > 1
          ELSE Nodes[node[o]].zone = Nodes[n].zone
    \/ /\ ~IsZoneNode(n)
       /\ loc[o].poa = Nodes[n].poa

\* Mutant: a client connected to the node itself is forgotten.
CrossesElsewhere(o, c, n, loc, node) == Passes(o, c, n, loc, node)

Crosses(o, c, n, loc, node) == node[o] = n \/ Passes(o, c, n, loc, node)

\* network_score of calculate_node_score.
NetworkScore(c, n, known, loc, node) ==
    Cardinality({o \in known : node[o] # NoNode /\ Crosses(o, c, n, loc, node)})

\* select_node: `scores' maps the nodes of the list to their scores; the
\* strict comparison of the code keeps the first of several best nodes.
\* The set is a singleton, or empty when the list is.
FirstBest(scores) ==
    {n \in DOMAIN scores :
        \A m \in DOMAIN scores : /\ scores[m] <= scores[n]
                                 /\ m < n => scores[m] < scores[n]}
==============================================================================

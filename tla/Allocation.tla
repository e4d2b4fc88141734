------------------------------ MODULE Allocation ------------------------------
(***************************************************************************)
(* What the master promises about the resources it hands out: a client is  *)
(* on at most one node, a node knows exactly the clients that are on it,   *)
(* only serves clients of its own application, and a client changes node   *)
(* by leaving the old one first.                                           *)
(***************************************************************************)
EXTENDS Naturals

CONSTANTS Clients, Nodes, NoNode

VARIABLES
    joined,     \* clients the allocator has heard of
    app,        \* the application a client joined with
    placed,     \* the node a client is on
    members     \* the clients a node serves

allocVars == <<joined, app, placed, members>>

NodeIds == DOMAIN Nodes

Init ==
    /\ joined = {}
    /\ app = [c \in Clients |-> 0]
    /\ placed = [c \in Clients |-> NoNode]
    /\ members = [n \in NodeIds |-> {}]

\* A client asks for the first time.
Join(c) ==
    /\ c \notin joined
    /\ joined' = joined \cup {c}
    /\ app'[c] \in Nat
    /\ app' = [app EXCEPT ![c] = app'[c]]
    /\ UNCHANGED <<placed, members>>

\* A client that is on a node asks again: it is taken off that node.
Leave(c) ==
    /\ placed[c] # NoNode
    /\ placed' = [placed EXCEPT ![c] = NoNode]
    /\ members' = [members EXCEPT ![placed[c]] = @ \ {c}]
    /\ UNCHANGED <<joined, app>>

\* A client that is on no node gets one of its own application.
Place(c, n) ==
    /\ c \in joined
    /\ placed[c] = NoNode
    /\ Nodes[n].app = app[c]
    /\ placed' = [placed EXCEPT ![c] = n]
    /\ members' = [members EXCEPT ![n] = @ \cup {c}]
    /\ UNCHANGED <<joined, app>>

Next ==
    \E c \in Clients : \/ Join(c)
                       \/ Leave(c)
                       \/ \E n \in NodeIds : Place(c, n)

Spec == Init /\ [][Next]_allocVars
==============================================================================

------------------------------- MODULE MCMaster -------------------------------
(***************************************************************************)
(* Instances of the master for TLC: the nodes of limits.txt, the zones of  *)
(* real-motion.yaml, and smaller sites for the weighted score.             *)
(***************************************************************************)
EXTENDS Master, TLC

Node(p, z, a) == [poa |-> p, zone |-> z, app |-> a]

\* limits.txt.
LimitsNodes == <<Node("poa-1", "zone-1", 1), Node("poa-2", "zone-1", 1),
                 Node("null", "zone-1", 1),
                 Node("poa-3", "zone-2", 1), Node("poa-4", "zone-2", 1),
                 Node("null", "zone-2", 1)>>

\* Two zones of application 1, with two nodes of application 2 among them.
SiteNodes == <<Node("poa-1", "zone-1", 1), Node("poa-2", "zone-1", 1),
               Node("poa-1", "zone-1", 2), Node("null", "zone-1", 1),
               Node("poa-3", "zone-2", 1), Node("null", "zone-2", 2)>>

\* Two applications, and one that no node serves.
MixedNodes == <<Node("poa-1", "zone-1", 1), Node("poa-1", "zone-1", 2),
                Node("null", "zone-1", 1), Node("poa-3", "zone-2", 1)>>

\* Three nodes of one application and two of another.
BalanceNodes == <<Node("poa-1", "zone-1", 1), Node("poa-1", "zone-1", 2),
                  Node("null", "zone-1", 1), Node("null", "zone-1", 2),
                  Node("poa-3", "zone-2", 1)>>

EmulatorZones == ("poa-1" :> "zone-1") @@ ("poa-2" :> "zone-1")
                 @@ ("poa-3" :> "zone-2") @@ ("poa-4" :> "zone-2")

Anywhere == [Clients -> DOMAIN EmulatorZones]
AllAt(poa) == {[c \in Clients |-> poa]}
AllAtPoa1 == AllAt("poa-1")
AllAtPoa3 == AllAt("poa-3")

OneApp == [c \in Clients |-> {1}]

CONSTANTS c1, c2, c3, c4, c5

TwoClients == {c1, c2}
FiveClients == {c1, c2, c3, c4, c5}

\* Both are restarted under another application; no node serves the third.
MixedApps == (c1 :> {1, 2}) @@ (c2 :> {1, 3})

\* Three clients of application 1, one of 2, one of either.
BalanceApps == (c1 :> {1}) @@ (c2 :> {1}) @@ (c3 :> {1}) @@ (c4 :> {2})
               @@ (c5 :> {1, 2})

NoEvents == <<>>
Move(c, poa) == [client |-> c, poa |-> poa]
OneMove == <<Move(c1, "poa-1")>>
RoundTrip == <<Move(c1, "poa-3"), Move(c2, "poa-1"), Move(c1, "poa-1")>>

Weights(h, w, n, d) ==
    [history |-> h, hardware |-> w, network |-> n, distance |-> d]
EvenWeights == Weights(-1, -1, -1, -1)
HardwareOnly == Weights(0, -1, 0, 0)
===============================================================================

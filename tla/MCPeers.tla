------------------------------- MODULE MCPeers -------------------------------
(* Small fleets for the device of one member.                              *)
EXTENDS Peers, TLC

CONSTANTS mine, peer, gateway, router, spoke,      \* keys
          a1, a2, myAddr, hubAddr, relayAddr, spokeAddr, nat1

Node(key, endpoint, relay, age, ip) ==
    [PublicKey |-> key, Endpoint |-> endpoint, Relay |-> relay, Age |-> age,
     TunnelIP |-> ip, ObservedEndpoint |-> None]

\* This member, public or not; a peer behind NAT; two nodes that can relay, one
\* of them marked; a plain WireGuard client, with an endpoint or without.
Me(endpoint) == Node(mine, endpoint, FALSE, TRUE, 1)
Behind(ip) == Node(peer, None, FALSE, TRUE, ip)
Gateway(ip) == Node(gateway, hubAddr, FALSE, TRUE, ip)
Marked(ip) == Node(router, relayAddr, TRUE, TRUE, ip)
Spoke(endpoint, ip) == Node(spoke, endpoint, FALSE, FALSE, ip)

Lan == {a1, a2}

Pooled == { Me(None), Behind(0), Gateway(0), Marked(0), Spoke(None, 0) }

Start(nodes, member, budget) == [nodes |-> nodes, setup |-> member, left |-> budget]

Member(observes, discovers, fails) ==
    [observes |-> observes, discovers |-> discovers, probes |-> TRUE, fails |-> fails]

\* Edits, a shell and a restart around a member that only routes: the fleets of
\* TestInitialRoutesCarryPlainWireGuardSpokesViaHub, and one with a peer behind NAT.
Churn == [moves |-> 0, edits |-> 2, sightings |-> 0, ups |-> 1, restarts |-> 1]
Router(nodes, budget) == Start(nodes, Member(FALSE, FALSE, TRUE), budget)
RouteStarts ==
    { Router(<< Me(mineAt), Marked(2), Spoke(spokeAt, 3) >>, Churn) :
        mineAt \in {None, myAddr}, spokeAt \in {None, spokeAddr} }
    \cup { Router(<< Me(None), Gateway(2), Behind(3) >>, budget) :
            budget \in { [Churn EXCEPT !.ups = 0], [Churn EXCEPT !.edits = 1] } }

\* A peer that roams: beside an observer; beside a member that others observe too;
\* and with a relay to fall back on, on the network of this member or not.
Roams == [moves |-> 1, edits |-> 0, sightings |-> 0, ups |-> 0, restarts |-> 0]
SeenAt(node, endpoint) == [node EXCEPT !.ObservedEndpoint = endpoint]
ObserverStarts == { Start(<< Me(None), Behind(2) >>, Member(TRUE, TRUE, TRUE), Roams) }
SeenStarts ==
    { Start(<< SeenAt(Me(None), myAddr), Behind(2) >>, Member(FALSE, TRUE, FALSE),
            [Roams EXCEPT !.sightings = 1]) }
LanStarts ==
    { Start(<< SeenAt(Me(None), myAddr), Gateway(2), SeenAt(Behind(3), peerAt) >>,
            Member(FALSE, TRUE, FALSE), Roams) : peerAt \in {None} \cup Lan }
PeersStarts == RouteStarts \cup ObserverStarts \cup SeenStarts \cup LanStarts

\* A plain client with an endpoint, and no marked relay.
OpenSpokeStarts ==
    { Start(<< Me(None), Gateway(2), Spoke(spokeAddr, 3) >>, Member(FALSE, FALSE, FALSE), Churn) }

OneHost == [a \in Lan \cup {myAddr} |-> nat1]
LanSymmetry == Permutations(Lan)
=============================================================================

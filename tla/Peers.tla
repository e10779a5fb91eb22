-------------------------------- MODULE Peers --------------------------------
(***************************************************************************)
(* What one member's daemon does with its WireGuard device: the relay pass   *)
(* (reconcileRelay in internal/cli/up.go) from verdicts to peer configs      *)
(* (wg.BuildPeerConfigs, wg.Manager.Apply), the LAN store beside it, and the *)
(* endpoint observation that reads the device back (admin.MergeObservations). *)
(*                                                                          *)
(* The pass reads the device, decides, reads it again, configures it and     *)
(* records what it pushed; handshakes, beacons and other processes run in    *)
(* between.  `device` is the kernel's peers and `route` its cryptokey        *)
(* routing, from tunnel address to peer.                                     *)
(***************************************************************************)
EXTENDS Relay, LanStore, FiniteSetsExt

CONSTANTS self,            \* this member's key
          Pool,            \* nodes add-node may add, without their address
          Starts,          \* what a behaviour starts from, see Start
          Talkers,         \* bound: the peers that send anything
          Addr,            \* where they can be
          host,            \* the host of an observed endpoint, without its port
          HandshakeFresh,  \* [observe].handshake_fresh
          MaxIP            \* bound on tunnel addresses

Peer == { n.PublicKey : n \in Pool } \ {self}
IP == 1 .. MaxIP

\* How this member is set up and what may go wrong: whether it observes for the
\* directory and has LAN discovery on, whether the world may move inside a pass,
\* and whether Apply may fail.
Setup == [observes : BOOLEAN, discovers : BOOLEAN, probes : BOOLEAN, fails : BOOLEAN]

\* Bounds on what happens around it.
Budget == [moves : Nat, edits : Nat, sightings : Nat, ups : Nat, restarts : Nat]

ASSUME PeersAssumption ==
    /\ NoAddr = None
    /\ Talkers \subseteq Peer
    /\ HandshakeFresh \in Nat /\ HandshakeFresh < AgeCap
    /\ MaxIP \in Nat
    /\ \A start \in Starts : start.setup \in Setup /\ start.left \in Budget

VARIABLES drop,       \* the published nodes
          dir,        \* dirHolder: the nodes last synced, or <<>>
          states,     \* the controller's states
          store,      \* the LAN store
          device,     \* [some peers -> [endpoint, handshake]]
          route,      \* [IP -> key or None]
          applied,    \* the nodes the device was last configured for, None for a blind pass
          pushedAt,   \* [some peers -> age of the last push]
          pc,         \* phase of the pass
          full,       \* is the pass part of an iteration?
          plan,       \* what the pass gives to ConfigureDevice
          blind,      \* was it computed from another device than it will meet?
          late,       \* peers that completed a handshake since it was computed
          at,         \* [Talkers -> where it is now]
          been,       \* [Talkers -> where it has been]
          proved,     \* [Peer -> where authenticated packets came from], for an observer
          setup,      \* in Setup, never changes
          left        \* in Budget, what may still happen

memory == <<dir, states, store, pushedAt>>
kernel == <<device, route, applied>>
look == <<blind, late>>
world == <<at, been, proved>>
env == <<world, setup, left>>
vars == <<drop, memory, kernel, pc, full, plan, look, env>>

\* One of the events that Budget bounds.
Spend(event) == left[event] > 0 /\ left' = [left EXCEPT ![event] = @ - 1]

Empty == [k \in {} |-> None]
NoPlan == [peers |-> <<>>, remove |-> {}]

TakenIPs(nodes) == { nodes[i].TunnelIP : i \in DOMAIN nodes }

\* Fault: the address after the highest one.
NextFreeIPAfter(nodes) == Max(TakenIPs(nodes)) + 1

\* NextFreeIP: the lowest free address, or 0 when the network is full.
NextFreeIP(nodes) ==
    LET free == IP \ TakenIPs(nodes) IN IF free = {} THEN 0 ELSE Min(free)

\* add-node: append; a plain WireGuard client needs a hub.
AddNodes(nodes) ==
    { Append(nodes, [n EXCEPT !.TunnelIP = NextFreeIP(nodes)]) :
        n \in { m \in Pool : /\ m.PublicKey \notin Keys(nodes)
                             /\ IsPlainWireGuard(m) => RelayTarget(nodes, None) # None
                             /\ NextFreeIP(nodes) # 0 } }

RemoveNodes(nodes) ==
    { SelectSeq(nodes, LAMBDA n : n.PublicKey # k) : k \in Keys(nodes) \ {self} }

Init ==
    /\ \E start \in Starts : drop = start.nodes /\ setup = start.setup /\ left = start.left
    /\ dir = <<>>
    /\ states = Empty /\ store = Empty /\ pushedAt = Empty
    /\ device = Empty /\ route = [x \in IP |-> None] /\ applied = <<>>
    /\ pc = "idle" /\ full = FALSE /\ plan = NoPlan /\ blind = FALSE /\ late = {}
    /\ at \in Injection(Talkers, Addr)
    /\ been = [k \in Talkers |-> {at[k]}]
    /\ proved = [k \in Peer |-> {}]

-----------------------------------------------------------------------------
(* Endpoints and peer configs.                                             *)

\* behindSameNAT: both were observed at one host.
behindSameNAT(me, node) ==
    /\ me.ObservedEndpoint # None /\ node.ObservedEndpoint # None
    /\ host[me.ObservedEndpoint] = host[node.ObservedEndpoint]

\* chooseEndpoint: the operator's, then the LAN's, then the observed one.
chooseEndpoint(me, node, lan) ==
    LET key == node.PublicKey
        found == IF behindSameNAT(me, node) THEN LookupLastKnown(lan, key)
                                            ELSE Lookup(lan, key)
    IN  IF node.Endpoint # None THEN node.Endpoint
        ELSE IF found # NoAddr THEN found
        ELSE node.ObservedEndpoint

\* The peer configs for a given relay target.  Shadow peers keep an endpoint
\* but no address; their addresses are folded into the target's.
ConfigsVia(target, nodes, relayed, lan) ==
    LET me == NodeOf(nodes, self)
        others == SelectSeq(nodes, LAMBDA n : n.PublicKey # self)
        shadow(n) == n.PublicKey \in relayed /\ target \notin {None, n.PublicKey}
        folded == { n \in { others[i] : i \in DOMAIN others } : shadow(n) }
        config(n) ==
            [PublicKey |-> n.PublicKey,
             Endpoint |-> IF shadow(n) /\ IsPlainWireGuard(n) THEN None
                          ELSE chooseEndpoint(me, n, lan),
             AllowedIPs |->
                 (IF shadow(n) THEN {} ELSE {n.TunnelIP})
                 \cup (IF n.PublicKey = target THEN { m.TunnelIP : m \in folded } ELSE {})]
    IN  [i \in DOMAIN others |-> config(others[i])]

\* Fault: no relay while every relayed peer is a plain one.
BuildPeerConfigsTincan(nodes, relayed, lan) ==
    LET tincan == { k \in relayed : ~IsPlainWireGuard(NodeOf(nodes, k)) }
    IN  ConfigsVia(IF tincan = {} THEN None ELSE RelayTarget(nodes, self), nodes, relayed, lan)

BuildPeerConfigs(nodes, relayed, lan) ==
    ConfigsVia(IF relayed = {} THEN None ELSE RelayTarget(nodes, self), nodes, relayed, lan)

\* Fault: every endpoint is pushed.
preserveLiveEndpointsNone(configs) == configs

\* preserveLiveEndpoints: no endpoint for a peer whose handshake is fresh.
preserveLiveEndpoints(configs) ==
    LET live(k) == /\ k \in DOMAIN device
                   /\ device[k].handshake \in 0 .. DirectFailedAfter - 1
    IN  [i \in DOMAIN configs |->
            IF live(configs[i].PublicKey) THEN [configs[i] EXCEPT !.Endpoint = None]
                                          ELSE configs[i]]

KeysOf(configs) == { configs[i].PublicKey : i \in DOMAIN configs }

\* Fault: peers that left the directory stay.
mergeAgainstKernelKeeps(configs) == [peers |-> preserveLiveEndpoints(configs), remove |-> {}]

\* mergeAgainstKernel: what ConfigureDevice gets after a look at the device.
mergeAgainstKernel(configs) ==
    [peers |-> preserveLiveEndpoints(configs), remove |-> DOMAIN device \ KeysOf(configs)]

\* ConfigureDevice without ReplacePeers.  The kernel keeps what a config leaves
\* out, and gives an address to the last peer that claims it.
Configured(p) ==
    [k \in (DOMAIN device \ p.remove) \cup KeysOf(p.peers) |->
        LET old == IF k \in DOMAIN device THEN device[k]
                   ELSE [endpoint |-> None, handshake |-> Never]
            pushed == { i \in DOMAIN p.peers :
                          p.peers[i].PublicKey = k /\ p.peers[i].Endpoint # None }
        IN  [old EXCEPT !.endpoint = IF pushed = {} THEN @ ELSE p.peers[Max(pushed)].Endpoint]]

Routed(p) ==
    [x \in IP |->
        LET claims == { i \in DOMAIN p.peers : x \in p.peers[i].AllowedIPs }
        IN  IF claims # {} THEN p.peers[Max(claims)].PublicKey
            ELSE IF route[x] \in p.remove \cup KeysOf(p.peers) THEN None
            ELSE route[x]]

\* pushedEndpointKeys.
pushedEndpointKeys(configs) ==
    KeysOf(SelectSeq(configs, LAMBDA c : c.Endpoint # None))

-----------------------------------------------------------------------------
(* The pass: reconcileRelay, alone as a relay tick or in an iteration.      *)

LastHandshake == [k \in Peer |-> IF k \in DOMAIN device THEN device[k].handshake ELSE Never]
Unread == [k \in Peer |-> Never]

\* markLANFailures: peers that go from direct to relayed.
Demoted(before, after) ==
    { k \in DOMAIN before \cap DOMAIN after :
        before[k].Mode = "direct" /\ after[k].Mode = "relayed" }

\* Read the device, advance the controller, mark failed LAN endpoints.  A
\* device that cannot be read counts as empty.
DecideOn(nodes) ==
    /\ \E handshake \in {LastHandshake} \cup (IF setup.fails THEN {Unread} ELSE {}) :
          states' = Update(self, nodes, states, handshake)
    /\ store' = IF setup.discovers THEN MarkFailed(store, Demoted(states, states')) ELSE store
    /\ pc' = "plan"
    /\ UNCHANGED <<drop, pushedAt, kernel, plan, look, env>>

\* runRelayTick.
RelayTick ==
    /\ pc = "idle" /\ dir # <<>>
    /\ DecideOn(dir)
    /\ full' = FALSE
    /\ UNCHANGED dir

\* runDaemonIteration from the sync on, which found the drop's directory or
\* fell back on the cached one.
Iterate ==
    /\ pc = "idle"
    /\ dir' \in {drop} \cup (IF setup.fails THEN {dir} \ {<<>>} ELSE {})
    /\ DecideOn(dir')
    /\ full' = TRUE

\* The link cannot be brought up: the directory stays, nothing is applied.
IterateFails ==
    /\ setup.fails /\ pc = "idle"
    /\ dir' = drop
    /\ UNCHANGED <<drop, states, store, pushedAt, kernel, pc, full, plan, look, env>>

\* Apply builds the configs and reads the device again; when it cannot, it goes
\* on without.
Plan ==
    LET configs == BuildPeerConfigs(dir, Relayed(states), IF setup.discovers THEN store ELSE Empty) IN
    /\ pc = "plan"
    /\ \/ plan' = mergeAgainstKernel(configs) /\ blind' = FALSE
       \/ setup.fails /\ plan' = [peers |-> configs, remove |-> {}] /\ blind' = TRUE
    /\ pc' = "configure"
    /\ UNCHANGED <<drop, memory, kernel, full, late, env>>

Configure ==
    /\ pc = "configure"
    /\ device' = Configured(plan)
    /\ route' = Routed(plan)
    /\ applied' = IF blind THEN None ELSE dir
    /\ blind' = FALSE /\ late' = {}
    /\ pc' = "record"
    /\ UNCHANGED <<drop, memory, full, plan, env>>

\* Apply fails before or in ConfigureDevice: nothing was pushed, and
\* recordEndpointPushes only forgets who left.
ConfigureFails ==
    /\ setup.fails /\ pc = "configure"
    /\ pushedAt' = Restrict(pushedAt, DOMAIN pushedAt \cap Keys(dir))
    /\ pc' = "idle" /\ plan' = NoPlan /\ blind' = FALSE /\ late' = {}
    /\ UNCHANGED <<drop, dir, states, store, kernel, full, env>>

\* Fault: a push is recorded with the time at which the pass began.
RecordEarly ==
    /\ pc = "record"
    /\ pushedAt' = [k \in (DOMAIN pushedAt \cup pushedEndpointKeys(plan.peers)) \cap Keys(dir) |->
                       IF k \in pushedEndpointKeys(plan.peers) THEN 1 ELSE pushedAt[k]]
    /\ pc' \in (IF full THEN {"finish"} ELSE {}) \cup (IF setup.fails \/ ~full THEN {"idle"} ELSE {})
    /\ plan' = NoPlan
    /\ UNCHANGED <<drop, dir, states, store, kernel, full, look, env>>

\* recordEndpointPushes.  Apply may still have failed, on the address or the
\* route of the link; an iteration ends then.
Record ==
    /\ pc = "record"
    /\ pushedAt' = [k \in (DOMAIN pushedAt \cup pushedEndpointKeys(plan.peers)) \cap Keys(dir) |->
                       IF k \in pushedEndpointKeys(plan.peers) THEN 0 ELSE pushedAt[k]]
    /\ pc' \in (IF full THEN {"finish"} ELSE {}) \cup (IF setup.fails \/ ~full THEN {"idle"} ELSE {})
    /\ plan' = NoPlan
    /\ UNCHANGED <<drop, dir, states, store, kernel, full, look, env>>

\* A handshake vouches for the device's endpoint only when it is younger than
\* the last push.
Vouches(k) ==
    k \notin DOMAIN pushedAt \/ device[k].handshake < pushedAt[k]

\* MergeObservations.
MergeObservations(nodes) ==
    LET fresh(k) == /\ k \in DOMAIN device
                    /\ device[k].endpoint # None
                    /\ device[k].handshake \in 0 .. HandshakeFresh
        merged(n) == IF n.Endpoint # None THEN n
                     ELSE IF ~fresh(n.PublicKey)
                     THEN [n EXCEPT !.ObservedEndpoint = None]
                     ELSE IF ~Vouches(n.PublicKey) THEN n
                     ELSE [n EXCEPT !.ObservedEndpoint = device[n.PublicKey].endpoint]
    IN  [i \in DOMAIN nodes |-> merged(nodes[i])]

\* The rest of an iteration: reclaim LAN entries, then observe and publish.
\* Observation may be skipped or its publish fail, as module Publish shows.
Finish ==
    /\ pc = "finish"
    /\ store' = IF setup.discovers THEN GC(store, Keys(dir)) ELSE store
    /\ drop' \in {drop} \cup IF setup.observes THEN {MergeObservations(drop)} ELSE {}
    /\ pc' = "idle"
    /\ UNCHANGED <<dir, states, pushedAt, kernel, full, plan, look, env>>

-----------------------------------------------------------------------------
(* The rest of the world.                                                  *)

Quiet == pc = "idle" \/ setup.probes

\* The kernel adopts the source of an authenticated packet from a peer, which is
\* where the peer is now.
AdoptSource(k, handshake) ==
    /\ Quiet /\ k \in DOMAIN device
    /\ device' = [device EXCEPT ![k] = [endpoint |-> at[k], handshake |-> handshake]]
    /\ proved' = IF setup.observes THEN [proved EXCEPT ![k] = @ \cup {at[k]}] ELSE proved
    /\ UNCHANGED <<drop, memory, route, applied, pc, full, plan, blind, at, been, setup, left>>

Handshake(k) ==
    /\ AdoptSource(k, 0)
    /\ late' = IF pc = "configure" THEN late \cup {k} ELSE late

\* A data packet on a session that has not expired (REJECT_AFTER_TIME).
Roam(k) ==
    /\ k \in DOMAIN device /\ device[k].handshake \in 0 .. DirectFailedAfter - 1
    /\ device[k].endpoint # at[k]
    /\ AdoptSource(k, device[k].handshake)
    /\ UNCHANGED late

Move(k) ==
    /\ Quiet /\ Spend("moves")
    /\ \E a \in Addr \ Range(at) :
          /\ at' = [at EXCEPT ![k] = a]
          /\ been' = [been EXCEPT ![k] = @ \cup {a}]
    /\ UNCHANGED <<drop, memory, kernel, pc, full, plan, look, proved, setup>>

\* processBeacon: from a member, from where it is or, late, from where it was.
Beacon(k) ==
    /\ setup.discovers /\ Quiet
    /\ k \in Keys(dir)
    /\ \E a \in been[k] : store' = StoreUpdate(store, k, a)
    /\ UNCHANGED <<drop, dir, states, pushedAt, kernel, pc, full, plan, look, env>>

\* The admin edits the directory.
Edit ==
    /\ pc = "idle" /\ Spend("edits")
    /\ drop' \in AddNodes(drop) \cup RemoveNodes(drop)
    /\ UNCHANGED <<memory, kernel, pc, full, plan, look, world, setup>>

\* Another member observes, and publishes where it saw a node, or forgets it.
OthersObserve ==
    /\ ~setup.observes /\ pc = "idle" /\ Spend("sightings")
    /\ \E i \in DOMAIN drop, a \in Addr \cup {None} :
          /\ drop[i].Endpoint = None
          /\ drop' = [drop EXCEPT ![i].ObservedEndpoint = a]
    /\ UNCHANGED <<memory, kernel, pc, full, plan, look, world, setup>>

\* `tincan up` in a shell: a controller of its own, no LAN endpoints, and
\* nobody who remembers the pushes.
ShellUp ==
    LET verdicts == Update(self, drop, Empty, Unread)
        merged == mergeAgainstKernel(BuildPeerConfigs(drop, Relayed(verdicts), Empty))
    IN  /\ Quiet /\ Spend("ups")
        /\ device' = Configured(merged)
        /\ route' = Routed(merged)
        /\ applied' = drop
        /\ blind' = (pc = "configure")
        /\ UNCHANGED <<drop, memory, pc, full, plan, late, world, setup>>

\* The daemon dies or is stopped, and starts again; the device stays.
Restart ==
    /\ Quiet /\ Spend("restarts")
    /\ dir' = <<>> /\ states' = Empty /\ store' = Empty /\ pushedAt' = Empty
    /\ pc' = "idle" /\ full' = FALSE /\ plan' = NoPlan /\ blind' = FALSE /\ late' = {}
    /\ UNCHANGED <<drop, kernel, world, setup>>

\* Time passes, but not between reading and configuring the device.
Time ==
    /\ Quiet /\ pc # "configure"
    /\ states' = [k \in DOMAIN states |-> [states[k] EXCEPT !.age = Older(@)]]
    /\ store' = StoreOlder(store)
    /\ device' = [k \in DOMAIN device |-> [device[k] EXCEPT !.handshake = Older(@)]]
    /\ pushedAt' = [k \in DOMAIN pushedAt |-> Older(pushedAt[k])]
    /\ UNCHANGED <<drop, dir, route, applied, pc, full, plan, look, env>>

PassStep ==
    RelayTick \/ Iterate \/ IterateFails \/ Plan \/ Configure \/ ConfigureFails \/ Record \/ Finish

Next ==
    \/ PassStep
    \/ \E k \in Talkers : Handshake(k) \/ Roam(k) \/ Move(k) \/ Beacon(k)
    \/ Edit \/ OthersObserve \/ ShellUp \/ Restart \/ Time

Spec == Init /\ [][Next]_vars

-----------------------------------------------------------------------------
(* Properties.                                                             *)

MaybeAddr == Addr \cup {None} \cup
    UNION { { start.nodes[i].Endpoint : i \in DOMAIN start.nodes } : start \in Starts }
    \cup { n.Endpoint : n \in Pool }

TypeOK ==
    /\ pc \in {"idle", "plan", "configure", "record", "finish"} /\ full \in BOOLEAN
    /\ blind \in BOOLEAN /\ late \subseteq Peer
    /\ DOMAIN states \subseteq Peer /\ \A k \in DOMAIN states : states[k] \in PeerState
    /\ DOMAIN store \subseteq Peer
    /\ \A k \in DOMAIN store :
          store[k] \in [Endpoint : Addr, learned : 0 .. LearnedCap, FailedEndpoint : MaybeAddr]
    /\ DOMAIN device \subseteq Peer
    /\ \A k \in DOMAIN device :
          device[k] \in [endpoint : MaybeAddr, handshake : Age \cup {Never}]
    /\ DOMAIN pushedAt \subseteq Peer /\ \A k \in DOMAIN pushedAt : pushedAt[k] \in Age
    /\ route \in [IP -> Peer \cup {None}]
    /\ TakenIPs(drop) \subseteq IP

\* MergeObservations: "A handshake only vouches for the kernel's current
\* endpoint if it happened *after* the daemon last pushed an endpoint".  What
\* observation publishes for a node is an endpoint authenticated packets of that
\* node came from, never one this daemon or a stale beacon suggested.
ObservedWasProved ==
    setup.observes => \A i \in DOMAIN drop :
        LET n == drop[i] IN
        n.PublicKey \in Peer /\ n.ObservedEndpoint # None
        => n.ObservedEndpoint \in proved[n.PublicKey]

\* Controller and BuildPeerConfigs choose the relay independently, and the
\* device is changed in place, by the daemon and by shells.  Whatever came
\* before, a pass that saw the device it configures leaves exactly the members
\* as peers; every member's address leads to that member or to one that can be
\* dialled and is dialled directly; and no other address leads anywhere.
EveryMemberRouted ==
    applied # None =>
        /\ DOMAIN device = Keys(applied) \ {self}
        /\ \A i \in DOMAIN applied :
              LET n == applied[i]
                  via == route[n.TunnelIP]
              IN  n.PublicKey # self =>
                      \/ via = n.PublicKey
                      \/ /\ via \in Keys(applied) \ {self}
                         /\ NodeOf(applied, via).Endpoint # None
                         /\ route[NodeOf(applied, via).TunnelIP] = via
        /\ \A x \in IP : route[x] # None => x \in TakenIPs(applied)

\* The node a plain WireGuard member was enrolled with, or None.
Hub(nodes, n) == RelayTarget(nodes, n.PublicKey)

ReachedViaHub(n) == Hub(applied, n) \notin {None, self} => route[n.TunnelIP] = Hub(applied, n)

Spokes(nodes) ==
    { n \in { nodes[i] : i \in DOMAIN nodes } : n.PublicKey # self /\ IsPlainWireGuard(n) }

\* Controller.Update and BuildPeerConfigs choose a hub for the spoke and a relay
\* for this member from the same directory, each leaving out another node.
\* Whichever nodes have endpoints, are marked or come first, a spoke is reached
\* through its hub, or directly by the hub; as long as some relay is marked or
\* no spoke has an endpoint of its own.
SpokesViaHub ==
    applied # None
    /\ (\/ \E i \in DOMAIN applied : applied[i].Relay
        \/ \A n \in Spokes(applied) : n.Endpoint = None)
    => \A n \in Spokes(applied) : ReachedViaHub(n)

\* Controller.Update: a spoke's hub, "whenever it isn't self, [...] is necessarily
\* `target` too (the spoke is never a candidate, so excluding it changes
\* nothing [...])": the spoke's traffic goes to its hub.
SpokeIsNoCandidate ==
    applied # None => \A n \in Spokes(applied) : ReachedViaHub(n)


\* preserveLiveEndpoints: "Endpoints are only pushed when the path is already
\* stale or the peer is new, when changing them can't make things worse".  A pass
\* that could read the device leads no peer whose handshake is fresh away from
\* where it is, unless that handshake fell between the read and the write.
LiveEndpointKept ==
    [][~blind =>
          \A k \in (DOMAIN device \cap DOMAIN device') \ late :
              device[k].handshake \in 0 .. DirectFailedAfter - 1
              => device'[k].endpoint \in {device[k].endpoint, at[k]}]_vars
=============================================================================

------------------------------ MODULE RelayPair ------------------------------
(***************************************************************************)
(* Two members behind NAT, each with its own daemon, judging the path        *)
(* between them: relay.Controller on both sides, the passes that call it     *)
(* (the relay tick and the iteration), and the WireGuard sessions they read. *)
(*                                                                          *)
(* A member that routes direct while the other one routes through the relay  *)
(* reaches nobody: each side drops the other's half.  So the two verdicts    *)
(* matter together.                                                         *)
(***************************************************************************)
EXTENDS Relay

CONSTANTS Side,        \* the two members
          Rekey,       \* longest handshake age of a session that works
          Gap,         \* longest time between two passes of a daemon
          Settle       \* bound on how long verdicts may differ, in a property

ASSUME RelayPairAssumption ==
    {Rekey, Gap, Settle} \subseteq Nat \ {0}

VARIABLES up,          \* does the path between the two carry packets?
          handshake,   \* [Side -> age of the last handshake its device knows of]
          state,       \* [Side -> PeerState, or None before the first pass]
          pass,        \* [Side -> time since the last pass]
          well,        \* time since the path came up
          ill,         \* [Side -> time with a broken path and a running daemon]
          apart        \* time since the verdicts began to differ, or since a
                       \* daemon restarted or the two met (again), if later

vars == <<up, handshake, state, pass, well, ill, apart>>

TimeCap == DirectFailedAfter + DirectGracePeriod + 2 * Gap + 2
Later(t) == IF t = TimeCap THEN t ELSE t + 1

Init ==
    /\ up \in BOOLEAN
    /\ handshake \in [Side -> {Never, 0}]
    /\ state = [s \in Side |-> None]
    /\ pass = [s \in Side |-> 0]
    /\ well = 0
    /\ ill = [s \in Side |-> 0]
    /\ apart = 0

Known == { s \in Side : state[s] # None }
Met == \A s \in Side : handshake[s] # Never
Differ(st) == \E s, t \in Side : st[s] # None /\ st[t] # None /\ st[s].Mode # st[t].Mode

\* A pass of a daemon: a relay tick, or the relay part of an iteration.  The
\* first one finds no previous state.
Pass(s) ==
    LET prev == IF state[s] = None THEN Entered("direct") ELSE state[s] IN
    /\ state' = [state EXCEPT ![s] = Decide(prev, handshake[s])]
    /\ pass' = [pass EXCEPT ![s] = 0]
    /\ ill' = IF state[s] = None THEN [ill EXCEPT ![s] = 0] ELSE ill
    /\ apart' = IF Differ(state') THEN apart ELSE 0
    /\ UNCHANGED <<up, handshake, well>>

\* The daemon restarts: a new controller.  The device stays, or was taken down and
\* has forgotten its sessions.
Restart(s) ==
    /\ s \in Known
    /\ \E age \in {handshake[s], Never} :
          /\ handshake' = [handshake EXCEPT ![s] = age]
          /\ state' = [state EXCEPT ![s] = Decide(Entered("direct"), age)]
    /\ pass' = [pass EXCEPT ![s] = 0]
    /\ ill' = [ill EXCEPT ![s] = 0]
    /\ apart' = 0
    /\ UNCHANGED <<up, well>>

\* WireGuard: keepalives on the peer, shadow or not, keep trying.
Handshake ==
    /\ up /\ Known = Side
    /\ handshake' = [s \in Side |-> 0]
    /\ apart' = IF Met THEN apart ELSE 0
    /\ UNCHANGED <<up, state, pass, well, ill>>

PathChanges ==
    /\ up' = ~up
    /\ well' = 0
    /\ ill' = [s \in Side |-> 0]
    /\ UNCHANGED <<handshake, state, pass, apart>>

\* Time passes: daemons make their passes, and a path that works has a session.
Time ==
    /\ \A s \in Known : pass[s] < Gap
    /\ up /\ Known = Side => \A s \in Side : handshake[s] \in 0 .. Rekey - 1
    /\ handshake' = [s \in Side |-> Older(handshake[s])]
    /\ state' = [s \in Side |-> IF state[s] = None THEN None
                               ELSE [state[s] EXCEPT !.age = Older(@)]]
    /\ pass' = [s \in Side |-> IF s \in Known THEN pass[s] + 1 ELSE 0]
    /\ well' = IF up /\ Known = Side THEN Later(well) ELSE 0
    /\ ill' = [s \in Side |-> IF up THEN 0 ELSE Later(ill[s])]
    /\ apart' = IF Differ(state) THEN Later(apart) ELSE 0
    /\ UNCHANGED up

Next ==
    \/ \E s \in Side : Pass(s) \/ Restart(s)
    \/ Handshake
    \/ PathChanges
    \/ Time

Spec == Init /\ [][Next]_vars

-----------------------------------------------------------------------------
(* Properties.                                                             *)

TypeOK ==
    /\ up \in BOOLEAN
    /\ handshake \in [Side -> Age \cup {Never}]
    /\ \A s \in Side : state[s] \in PeerState \cup {None}
    /\ pass \in [Side -> 0 .. Gap]
    /\ well \in 0 .. TimeCap
    /\ ill \in [Side -> 0 .. TimeCap]
    /\ apart \in 0 .. TimeCap

\* relay.go, DefaultDirectFailedAfter: the threshold lies above every handshake
\* age of a live session, so no pass demotes a peer whose path works.
HealthyStaysDirect ==
    [][\A s \in Side :
          /\ state[s] # None /\ state[s].Mode = "direct" /\ well > 0
          => state'[s] # None /\ state'[s].Mode = "direct"]_vars

\* A daemon that runs relays a peer whose path is dead, at the latest one pass
\* after the threshold, whether the two ever completed a handshake or not.
DeadPathRelayed ==
    \A s \in Known : ill[s] > DirectFailedAfter + Gap => state[s].Mode = "relayed"

\* The handshake of the shadow peer brings a peer back to direct by the next pass.
LivePathDirect ==
    \A s \in Known : well > Gap => state[s].Mode = "direct"

\* relayTickInterval: "Both ends of a pair judge the same evidence [...] so a
\* short cadence bounds how far apart their verdicts can drift".  Two members
\* whose devices know of a handshake do not differ for longer than Settle, from
\* their last restart on.
VerdictsSettle == Met => apart <= Settle
=============================================================================

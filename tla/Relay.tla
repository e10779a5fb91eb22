-------------------------------- MODULE Relay --------------------------------
(***************************************************************************)
(* Relay verdicts as functions: directory.RelayTarget, relay.Decide and     *)
(* relay.Controller.Update.                                                 *)
(*                                                                          *)
(* Times are ages, counted in units and capped where no comparison can tell *)
(* them apart any more; Never is the zero time.  A directory is a sequence   *)
(* of nodes, because its order chooses the relay.                           *)
(***************************************************************************)
EXTENDS Integers, Sequences

CONSTANTS DirectFailedAfter,   \* DefaultDirectFailedAfter
          DirectGracePeriod,   \* DefaultDirectGracePeriod
          AgeCap,              \* ages beyond every threshold
          None                 \* an empty string or a nil pointer

ASSUME RelayAssumption ==
    /\ DirectFailedAfter \in Nat \ {0}
    /\ DirectGracePeriod \in 0 .. DirectFailedAfter
    /\ AgeCap \in Nat /\ AgeCap > DirectFailedAfter

Never == -1
Age == 0 .. AgeCap

Older(age) == IF age = Never \/ age = AgeCap THEN age ELSE age + 1

PeerState == [Mode : {"direct", "relayed"}, age : Age]
Entered(mode) == [Mode |-> mode, age |-> 0]

Keys(dir) == { dir[i].PublicKey : i \in DOMAIN dir }
NodeOf(dir, key) == dir[CHOOSE i \in DOMAIN dir : dir[i].PublicKey = key]

\* The first marked node, else the first one, of those that can be dialled.
RelayTarget(dir, self) ==
    LET able == SelectSeq(dir, LAMBDA n : n.PublicKey # self /\ n.Endpoint # None)
        marked == SelectSeq(able, LAMBDA n : n.Relay)
    IN  IF marked # <<>> THEN Head(marked).PublicKey
        ELSE IF able # <<>> THEN Head(able).PublicKey
        ELSE None

\* Fault: the threshold lies below WireGuard's rekey ceiling.
DecideEager(prev, handshake) ==
    IF prev.Mode = "direct"
    THEN IF prev.age >= DirectGracePeriod /\ handshake >= DirectFailedAfter - 1
         THEN Entered("relayed") ELSE prev
    ELSE IF handshake \in 0 .. DirectFailedAfter - 1 THEN Entered("direct") ELSE prev

\* Fault: a peer that never completed a handshake counts as young.
DecideNeverStale(prev, handshake) ==
    IF prev.Mode = "direct"
    THEN IF prev.age >= DirectGracePeriod /\ handshake > DirectFailedAfter
         THEN Entered("relayed") ELSE prev
    ELSE IF handshake \in 0 .. DirectFailedAfter - 1 THEN Entered("direct") ELSE prev

\* Fault: the way back needs a handshake that outlives the grace period.
DecideSticky(prev, handshake) ==
    IF prev.Mode = "direct"
    THEN IF prev.age >= DirectGracePeriod
            /\ (IF handshake = Never THEN prev.age ELSE handshake) > DirectFailedAfter
         THEN Entered("relayed") ELSE prev
    ELSE IF handshake \in DirectGracePeriod .. DirectFailedAfter - 1
         THEN Entered("direct") ELSE prev

\* Fault: staleness counts from the last change of mode.
DecideByMode(prev, handshake) ==
    IF prev.Mode = "direct"
    THEN IF handshake \notin 0 .. DirectFailedAfter /\ prev.age > DirectFailedAfter
         THEN Entered("relayed") ELSE prev
    ELSE IF handshake \in 0 .. DirectFailedAfter - 1 THEN Entered("direct") ELSE prev

\* Fault: the new state carries no EnteredAt.
DecideUnstamped(prev, handshake) ==
    IF prev.Mode = "direct" /\ handshake > DirectFailedAfter
    THEN [Mode |-> "relayed", age |-> Never] ELSE prev

\* Decide: the previous state and the age of the last handshake.
Decide(prev, handshake) ==
    LET fresh == handshake # Never /\ handshake < DirectFailedAfter
        stale == (IF handshake = Never THEN prev.age ELSE handshake) > DirectFailedAfter
    IN  IF prev.Mode = "direct"
        THEN IF prev.age >= DirectGracePeriod /\ stale THEN Entered("relayed") ELSE prev
        ELSE IF fresh THEN Entered("direct") ELSE prev

IsPlainWireGuard(node) == ~node.Age

\* Controller.Update for one node.  states holds the peers known before, and
\* handshake gives every key's last handshake.
Verdict(self, dir, states, handshake, key) ==
    LET node == NodeOf(dir, key)
        target == RelayTarget(dir, self)
        hub == RelayTarget(dir, key)
        prev == IF key \in DOMAIN states THEN states[key] ELSE Entered("direct")
    IN  IF IsPlainWireGuard(node)
        THEN Entered(IF hub \notin {None, self} THEN "relayed" ELSE "direct")
        ELSE IF \/ node.Endpoint # None
                \/ NodeOf(dir, self).Endpoint # None
                \/ target \in {None, key}
        THEN Entered("direct")
        ELSE Decide(prev, handshake[key])

Update(self, dir, states, handshake) ==
    [key \in Keys(dir) \ {self} |-> Verdict(self, dir, states, handshake, key)]

Relayed(states) == { key \in DOMAIN states : states[key].Mode = "relayed" }
=============================================================================

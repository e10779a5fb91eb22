------------------------------ MODULE LanStore -------------------------------
(***************************************************************************)
(* The store of LAN endpoints learned from beacons: discovery.Store.        *)
(*                                                                          *)
(* A store maps some peers to entries.  learned is the age of the latest    *)
(* beacon; FailedAt is only displayed and is left out.                      *)
(***************************************************************************)
EXTENDS Integers, Functions

CONSTANTS BeaconTTL,   \* the store's ttl
          GCAge,       \* 10 * TTL in the daemon
          NoAddr       \* the empty endpoint

ASSUME LanStoreAssumption == BeaconTTL \in Nat /\ GCAge \in Nat /\ BeaconTTL <= GCAge

LearnedCap == GCAge + 1

Entry(endpoint) == [Endpoint |-> endpoint, learned |-> 0, FailedEndpoint |-> NoAddr]

Blacklisted(entry) == entry.FailedEndpoint = entry.Endpoint

Usable(entry) == entry.learned <= BeaconTTL /\ ~Blacklisted(entry)

Lookup(store, key) ==
    IF key \in DOMAIN store /\ Usable(store[key]) THEN store[key].Endpoint ELSE NoAddr

LookupLastKnown(store, key) ==
    IF key \in DOMAIN store THEN store[key].Endpoint ELSE NoAddr

With(store, key, entry) ==
    [k \in DOMAIN store \cup {key} |-> IF k = key THEN entry ELSE store[k]]


\* Update: a repeat refreshes, a usable endpoint is pinned, and anything else is
\* a fresh candidate.
StoreUpdate(store, key, endpoint) ==
    IF key \notin DOMAIN store THEN With(store, key, Entry(endpoint))
    ELSE IF store[key].Endpoint = endpoint
    THEN [store EXCEPT ![key].learned = 0]
    ELSE IF Usable(store[key]) THEN store
    ELSE With(store, key, Entry(endpoint))

\* MarkFailed, for a set of peers.
MarkFailed(store, keys) ==
    [k \in DOMAIN store |->
        IF k \in keys THEN [store[k] EXCEPT !.FailedEndpoint = store[k].Endpoint] ELSE store[k]]

GC(store, members) ==
    Restrict(store, { k \in DOMAIN store \cap members : store[k].learned <= GCAge })

StoreOlder(store) ==
    [k \in DOMAIN store |->
        [store[k] EXCEPT !.learned = IF @ = LearnedCap THEN @ ELSE @ + 1]]
=============================================================================

----------------------------- MODULE DaemonLoop ------------------------------
(***************************************************************************)
(* The daemon's loop (runDaemonLoop and waitForReconcile in                 *)
(* internal/cli/up.go), its signal, wake and tick channels, and the watcher  *)
(* of the machine's addresses (internal/cli/network_watch.go) that feeds the *)
(* wake channel.                                                            *)
(*                                                                          *)
(* Time is discrete.  It passes only while nobody can move: the loop blocks  *)
(* in its select, or an iteration is under way.  What an iteration does is   *)
(* the subject of other modules; here it only takes up to IterMax.           *)
(***************************************************************************)
EXTENDS Integers, Sequences

CONSTANTS Intervals,     \* the values [sync].interval may have
          MinWake,       \* minWakeInterval
          IterMax,       \* bound on an iteration's length
          SigCap,        \* capacity of sigCh
          Addr,          \* addresses of watched interfaces, one link each
          MaxSignals,    \* bound on the signals sent
          MaxChanges,    \* bound on the changes of addresses
          MaxQueue       \* bound on netlink events under way

ASSUME DaemonLoopAssumption ==
    /\ Intervals # {} /\ Intervals \cup {MinWake, IterMax, SigCap} \subseteq Nat \ {0}
    /\ {MaxSignals, MaxChanges, MaxQueue} \subseteq Nat

VARIABLES loop,          \* "iterate", "wait" or "exit"
          busy,          \* time spent in this iteration
          since,         \* time since lastReconcile, the end of the iteration
          period,        \* the jittered interval, while waiting
          timer,         \* time until the timer fires
          wakePending,
          sigCh,         \* queued signals
          wakeCh,        \* is a wake queued?  (capacity 1)
          tickCh,        \* is a relay tick queued?  (capacity 1)
          watcher,       \* "subscribe", "watch" or "off"
          addrs,         \* the kernel's addresses
          links,         \* addresses whose link exists
          seen,          \* the watcher's idea of addrs
          updates,       \* netlink events not yet handled
          overdue,       \* time since the oldest change not reconciled, or -1
          missed,        \* did an address change where the watcher cannot see it?
          signals, changes

loopVars == <<loop, busy, since, period, timer, wakePending>>
netVars == <<addrs, links, missed>>
vars == <<loopVars, sigCh, wakeCh, tickCh, watcher, netVars, seen, updates, overdue,
          signals, changes>>

\* A window a fifth of the interval wide.
jitter(d) == { d + delta - (d \div 5) \div 2 : delta \in 0 .. d \div 5 }

\* The configuration is read again for every iteration.
Periods == UNION { jitter(d) : d \in Intervals }

Smaller(i, j) == IF i <= j THEN i ELSE j

\* The watcher reads the addresses there are, and subscribes some time later.
prime == seen = addrs

Init ==
    /\ loop = "iterate" /\ busy = 0 /\ since = 0
    /\ period = 0 /\ timer = 0 /\ wakePending = FALSE
    /\ sigCh = <<>> /\ wakeCh = FALSE /\ tickCh = FALSE
    /\ watcher = "subscribe"
    /\ addrs \in SUBSET Addr
    /\ links = Addr
    /\ prime
    /\ updates = <<>>
    /\ overdue = -1 /\ missed = FALSE
    /\ signals = 0 /\ changes = 0

-----------------------------------------------------------------------------
(* The loop.                                                               *)

\* The iteration ends, in success or in error: wait for the next.
IterationEnds ==
    /\ loop = "iterate"
    /\ loop' = "wait"
    /\ busy' = 0 /\ since' = 0
    /\ period' \in Periods
    /\ timer' = period'
    /\ wakePending' = FALSE
    /\ UNCHANGED <<sigCh, wakeCh, tickCh, watcher, netVars, seen, updates, overdue,
                   signals, changes>>

\* waitForReconcile returns true, and its variables are gone.
Reconcile ==
    /\ loop' = "iterate"
    /\ since' = 0 /\ period' = 0 /\ timer' = 0 /\ wakePending' = FALSE
    /\ overdue' = -1
    /\ UNCHANGED busy

\* Fault: a reload empties the queue.
OnSignalDrains ==
    /\ loop = "wait" /\ sigCh # <<>>
    /\ sigCh' = <<>>
    /\ IF Head(sigCh) = "HUP"
       THEN Reconcile
       ELSE loop' = "exit" /\ UNCHANGED <<busy, since, period, timer, wakePending, overdue>>
    /\ UNCHANGED <<wakeCh, tickCh, watcher, netVars, seen, updates, signals, changes>>

OnSignal ==
    /\ loop = "wait" /\ sigCh # <<>>
    /\ sigCh' = Tail(sigCh)
    /\ IF Head(sigCh) = "HUP"
       THEN Reconcile
       ELSE loop' = "exit" /\ UNCHANGED <<busy, since, period, timer, wakePending, overdue>>
    /\ UNCHANGED <<wakeCh, tickCh, watcher, netVars, seen, updates, signals, changes>>

\* A relay tick, run inline; it never reconciles.
OnTick ==
    /\ loop = "wait" /\ tickCh
    /\ tickCh' = FALSE
    /\ UNCHANGED <<loopVars, sigCh, wakeCh, watcher, netVars, seen, updates, overdue,
                   signals, changes>>

\* Fault: every wake reconciles at once.
OnWakeAtOnce ==
    /\ loop = "wait" /\ wakeCh
    /\ wakeCh' = FALSE
    /\ Reconcile
    /\ UNCHANGED <<sigCh, tickCh, watcher, netVars, seen, updates, signals, changes>>

\* Fault: a debounced wake is remembered, but the timer is not moved forward.
OnWakeKeepsTimer ==
    /\ loop = "wait" /\ wakeCh
    /\ wakeCh' = FALSE
    /\ IF since >= MinWake
       THEN Reconcile
       ELSE wakePending' = TRUE
            /\ UNCHANGED <<loop, busy, since, period, timer, overdue>>
    /\ UNCHANGED <<sigCh, tickCh, watcher, netVars, seen, updates, signals, changes>>

\* Fault: each wake starts the debounce again.
OnWakeRestarts ==
    /\ loop = "wait" /\ wakeCh
    /\ wakeCh' = FALSE
    /\ wakePending' = TRUE
    /\ timer' = MinWake
    /\ UNCHANGED <<loop, busy, since, period, overdue>>
    /\ UNCHANGED <<sigCh, tickCh, watcher, netVars, seen, updates, signals, changes>>

\* Fault: the debounce deadline is computed the wrong way round.
OnWakeSwapped ==
    /\ loop = "wait" /\ wakeCh
    /\ wakeCh' = FALSE
    /\ \/ since >= MinWake /\ Reconcile
       \/ /\ since < MinWake
          /\ wakePending' = TRUE
          /\ timer' = since - MinWake
          /\ UNCHANGED <<loop, busy, since, period, overdue>>
    /\ UNCHANGED <<sigCh, tickCh, watcher, netVars, seen, updates, signals, changes>>

\* Fault: a debounced wake waits for the debounce, past the end of the interval.
OnWakePastInterval ==
    /\ loop = "wait" /\ wakeCh
    /\ wakeCh' = FALSE
    /\ \/ since >= MinWake /\ Reconcile
       \/ /\ since < MinWake
          /\ wakePending' = TRUE
          /\ timer' = IF wakePending THEN timer ELSE MinWake - since
          /\ UNCHANGED <<loop, busy, since, period, overdue>>
    /\ UNCHANGED <<sigCh, tickCh, watcher, netVars, seen, updates, signals, changes>>

\* A wake reconciles at once when the last reconcile is MinWake ago; otherwise
\* it moves the timer to that moment, unless the interval ends before.
OnWake ==
    /\ loop = "wait" /\ wakeCh
    /\ wakeCh' = FALSE
    /\ \/ since >= MinWake /\ Reconcile
       \/ /\ since < MinWake
          /\ wakePending' = TRUE
          /\ timer' = IF wakePending THEN timer
                                     ELSE Smaller(period - since, MinWake - since)
          /\ UNCHANGED <<loop, busy, since, period, overdue>>
    /\ UNCHANGED <<sigCh, tickCh, watcher, netVars, seen, updates, signals, changes>>

OnTimer ==
    /\ loop = "wait" /\ timer = 0
    /\ Reconcile
    /\ UNCHANGED <<sigCh, wakeCh, tickCh, watcher, netVars, seen, updates, signals, changes>>

-----------------------------------------------------------------------------
(* The watcher.                                                            *)

Subscribe ==
    /\ watcher = "subscribe"
    /\ watcher' = "watch"
    /\ UNCHANGED <<loopVars, sigCh, wakeCh, tickCh, netVars, seen, updates, overdue,
                   signals, changes>>

\* The subscription fails, or the channel of updates is closed later: the watcher
\* reports it and ends for good.
WatcherEnds ==
    /\ loop # "exit"
    /\ watcher # "off"
    /\ watcher' = "off"
    /\ updates' = <<>>
    /\ missed' = TRUE
    /\ UNCHANGED <<loopVars, sigCh, wakeCh, tickCh, addrs, links, seen, overdue,
                   signals, changes>>

\* observe: only an address that appears in, or vanishes from, the watcher's
\* own set counts, and only while its link can be looked up.
observe(u) ==
    /\ u.addr \in links
    /\ u.new # (u.addr \in seen)

\* One netlink event.  A wake that finds the channel full is dropped.
Watch ==
    LET u == Head(updates) IN
    /\ watcher = "watch" /\ updates # <<>>
    /\ updates' = Tail(updates)
    /\ IF observe(u)
       THEN /\ seen' = IF u.new THEN seen \cup {u.addr} ELSE seen \ {u.addr}
            /\ wakeCh' = TRUE
       ELSE UNCHANGED <<seen, wakeCh>>
    /\ UNCHANGED <<loopVars, sigCh, tickCh, watcher, netVars, overdue, signals, changes>>

-----------------------------------------------------------------------------
(* The environment.                                                        *)

\* Signals that find sigCh full are dropped (signal.Notify).
Signal(sig) ==
    /\ signals < MaxSignals
    /\ signals' = signals + 1
    /\ loop # "exit"
    /\ sigCh' = IF Len(sigCh) < SigCap THEN Append(sigCh, sig) ELSE sigCh
    /\ UNCHANGED <<loopVars, wakeCh, tickCh, watcher, netVars, seen, updates, overdue, changes>>

\* A beacon from a peer with a new endpoint.
Beacon ==
    /\ loop # "exit"
    /\ wakeCh' = TRUE
    /\ UNCHANGED <<loopVars, sigCh, tickCh, watcher, netVars, seen, updates, overdue,
                   signals, changes>>

RelayTick ==
    /\ loop # "exit"
    /\ tickCh' = TRUE
    /\ UNCHANGED <<loopVars, sigCh, wakeCh, watcher, netVars, seen, updates, overdue,
                   signals, changes>>

\* The kernel reports to whoever has subscribed.
Report(u) == updates' = IF watcher = "watch" THEN Append(updates, u) ELSE updates

CanChange ==
    /\ loop # "exit"
    /\ changes < MaxChanges /\ Len(updates) < MaxQueue

NoteChange ==
    /\ changes' = changes + 1
    /\ overdue' = IF overdue = -1 THEN 0 ELSE overdue
    /\ missed' = (missed \/ watcher # "watch" \/ links' # links)
    /\ UNCHANGED <<loopVars, sigCh, wakeCh, tickCh, watcher, seen, signals>>

AddrAdded(a) ==
    /\ CanChange /\ a \in links \ addrs
    /\ addrs' = addrs \cup {a}
    /\ UNCHANGED links
    /\ Report([addr |-> a, new |-> TRUE])
    /\ NoteChange

\* The address goes, alone or together with its link.
AddrRemoved(a) ==
    /\ CanChange /\ a \in addrs
    /\ addrs' = addrs \ {a}
    /\ links' \in {links, links \ {a}}
    /\ Report([addr |-> a, new |-> FALSE])
    /\ NoteChange

\* A lifetime renewal: an event for an address that was there.
AddrRenewed(a) ==
    /\ loop # "exit"
    /\ a \in addrs /\ Len(updates) < MaxQueue /\ watcher = "watch"
    /\ Report([addr |-> a, new |-> TRUE])
    /\ UNCHANGED <<loopVars, sigCh, wakeCh, tickCh, watcher, netVars, seen, overdue,
                   signals, changes>>

\* Time passes while nothing is ready.
Time ==
    /\ \/ loop = "iterate" /\ busy < IterMax
       \/ loop = "wait" /\ sigCh = <<>> /\ ~wakeCh /\ ~tickCh /\ timer > 0
    /\ watcher # "subscribe" /\ updates = <<>>
    /\ IF loop = "iterate"
       THEN busy' = busy + 1 /\ UNCHANGED <<since, timer>>
       ELSE since' = since + 1 /\ timer' = timer - 1 /\ UNCHANGED busy
    /\ overdue' = IF overdue = -1 THEN -1 ELSE overdue + 1
    /\ UNCHANGED <<loop, period, wakePending, sigCh, wakeCh, tickCh, watcher, netVars,
                   seen, updates, signals, changes>>

Exited == loop = "exit" /\ UNCHANGED vars

LoopStep == IterationEnds \/ OnSignal \/ OnTick \/ OnWake \/ OnTimer

WatchStep == Subscribe \/ Watch

Next ==
    \/ LoopStep
    \/ WatchStep
    \/ WatcherEnds
    \/ \E sig \in {"HUP", "TERM"} : Signal(sig)
    \/ Beacon
    \/ RelayTick
    \/ \E a \in Addr : AddrAdded(a) \/ AddrRemoved(a) \/ AddrRenewed(a)
    \/ Time
    \/ Exited

Spec == Init /\ [][Next]_vars

\* The goroutines run, time passes, and a select that finds the signal channel
\* ready again and again picks it in the end: Go chooses at random.
Fairness ==
    /\ WF_vars(LoopStep)
    /\ WF_vars(WatchStep)
    /\ SF_vars(Time)
    /\ SF_vars(OnSignal)

LiveSpec == Spec /\ Fairness

-----------------------------------------------------------------------------
(* Properties.                                                             *)

TypeOK ==
    /\ loop \in {"iterate", "wait", "exit"}
    /\ busy \in 0 .. IterMax
    /\ period \in Periods \cup {0}
    /\ since \in 0 .. period
    /\ timer \in 0 .. period
    /\ wakePending \in BOOLEAN
    /\ sigCh \in Seq({"HUP", "TERM"}) /\ Len(sigCh) <= SigCap
    /\ wakeCh \in BOOLEAN /\ tickCh \in BOOLEAN
    /\ watcher \in {"subscribe", "watch", "off"}
    /\ addrs \subseteq Addr /\ links \subseteq Addr /\ seen \subseteq Addr
    /\ updates \in Seq([addr : Addr, new : BOOLEAN]) /\ Len(updates) <= MaxQueue
    /\ overdue \in Int /\ overdue >= -1 /\ missed \in BOOLEAN
    /\ signals \in 0 .. MaxSignals /\ changes \in 0 .. MaxChanges

\* waitForReconcile fires "at the debounce deadline, or the regular interval if
\* that comes first": neither wakes nor ticks put off the regular interval, long
\* or short, so the loop never waits longer than the jittered interval.
IntervalKept ==
    loop = "wait" => since + timer <= period

\* startNetworkWatcher: "On any such change it wakes the daemon's main loop so
\* the iteration runs immediately (rather than waiting for the next sync
\* interval)".  A change of the machine's addresses is followed by a new
\* iteration as soon as the one under way is over and the debounce has passed;
\* unless the watcher has ended, or an address changed before it subscribed or
\* went away with its link, after which its own set may be out of date.
PromptReconcile ==
    ~missed => overdue <= IterMax + MinWake

\* The regular interval makes up for what the watcher misses: whether it ended,
\* came too late or is out of date, and however many wakes come meanwhile, a
\* change waits for no more than the rest of an iteration and one interval.
MissedChangeReconciled ==
    overdue <= IterMax + period

\* waitForReconcile: wakes are "debounced to at most one per minWakeInterval";
\* only a SIGHUP and the regular interval reconcile earlier.
WakesAreSpaced ==
    [][loop = "wait" /\ loop' = "iterate" =>
          since >= MinWake \/ since >= period \/ sigCh' # sigCh]_vars

\* Every signal the daemon has room for is acted on: a SIGTERM in its queue ends
\* the loop, however many wakes, ticks and reloads compete with it.
TermEndsLoop ==
    (\E i \in 1 .. SigCap : i \in DOMAIN sigCh /\ sigCh[i] = "TERM") ~> loop = "exit"
=============================================================================

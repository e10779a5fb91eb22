-------------------------------- MODULE Sync ---------------------------------
(***************************************************************************)
(* Reading the dead drop: runSyncOnce and fetchSyncDirectory               *)
(* (internal/cli/sync.go), as `tincan sync`, `tincan up` and every daemon   *)
(* iteration run them, and the step that applies the result to WireGuard.   *)
(*                                                                          *)
(* The drop is one slot.  sealed is the history of everything the publisher *)
(* has signed and sent towards it.  With Replay the drop is not trusted to  *)
(* be current: a read may return any blob the slot ever held, or "not       *)
(* found" (an HTTP cache, a DNS resolver, a Nostr relay that missed the     *)
(* last event).  Any read may fail, and may return a torn blob that does    *)
(* not open.                                                                *)
(***************************************************************************)
EXTENDS StateDir

CONSTANT Replay

ASSUME SyncAssumption == Replay \in BOOLEAN

VARIABLES drop,        \* the slot's content, NoDir when empty
          sealed,      \* every directory uploaded so far
          op,          \* [Proc -> the command the process runs]
          fromCache,   \* [Proc -> whether work[p] is the cache fallback]
          applied      \* [Machine -> the directory WireGuard was given]

SyncInit ==
    /\ drop = NoDir
    /\ sealed = {}
    /\ fromCache = [p \in Proc |-> FALSE]
    /\ applied = [m \in Machine |-> NoDir]

\* What d.Get may return; NoDir is drop.ErrNotFound.
Readable == {drop} \cup IF Replay THEN sealed \cup {NoDir} ELSE {}

\* The end of a command, or its error return.
Finish(p) ==
    /\ Goto(p, "idle")
    /\ op' = [op EXCEPT ![p] = "none"]
    /\ work' = [work EXCEPT ![p] = NoDir]
    /\ fromCache' = [fromCache EXCEPT ![p] = FALSE]

SyncStart(p, o) ==
    /\ pc[p] = "idle"
    /\ Goto(p, "get")
    /\ op' = [op EXCEPT ![p] = o]
    /\ UNCHANGED <<fileVars, stateLock, work, drop, sealed, fromCache, applied>>

\* The drop answers with a blob this machine can open.
SyncGetBlob(p) ==
    /\ pc[p] = "get"
    /\ \E d \in Readable :
          /\ Opens(host[p], d)
          /\ work' = [work EXCEPT ![p] = d]
    /\ Goto(p, "check")
    /\ UNCHANGED <<fileVars, stateLock, drop, sealed, op, fromCache, applied>>

\* The drop cannot be read: go on with the cache when there is one.
SyncGetFails(p) ==
    LET m == host[p] IN
    /\ pc[p] = "get"
    /\ ~Missing(cacheFile[m])
    /\ work' = [work EXCEPT ![p] = cacheFile[m]]
    /\ fromCache' = [fromCache EXCEPT ![p] = TRUE]
    /\ Goto(p, "cwrite")
    /\ UNCHANGED <<fileVars, stateLock, drop, sealed, op, applied>>

\* The fatal errors: no drop and no cache, or a blob that does not open.
SyncAborts(p) ==
    /\ pc[p] = "get"
    /\ Finish(p)
    /\ UNCHANGED <<fileVars, stateLock, drop, sealed, applied>>

\* The rollback check against the serial file, some time after the read.
SyncCheck(p) ==
    /\ pc[p] = "check"
    /\ IF IsRollback(work[p].serial, serialFile[host[p]])
       THEN Finish(p)
       ELSE Goto(p, "cwrite") /\ UNCHANGED <<op, work, fromCache>>
    /\ UNCHANGED <<fileVars, stateLock, drop, sealed, applied>>

\* Where cache.Write's caller continues.
AfterWrite(p) ==
    CASE op[p] = "sync"              -> "synced"
      [] op[p] \in {"up", "daemon"} -> "apply"
      [] OTHER                       -> "source"

\* The three writes of cache.Write.
CacheWrite(p) ==
    /\ \/ WriteSerial(p)
       \/ WriteCache(p)
       \/ WriteState(p, AfterWrite(p))
    /\ UNCHANGED <<drop, sealed, op, fromCache, applied>>

\* `tincan sync` stops after the cache is written.
SyncDone(p) ==
    /\ pc[p] = "synced"
    /\ Finish(p)
    /\ UNCHANGED <<fileVars, stateLock, drop, sealed, applied>>

\* findSelf, then Apply: the directory must list this machine.
Apply(p, next) ==
    LET m == host[p] IN
    /\ pc[p] = "apply"
    /\ IF m \in work[p].nodes
       THEN /\ applied' = [applied EXCEPT ![m] = work[p]]
            /\ IF next = "idle" THEN Finish(p)
                              ELSE Goto(p, next) /\ UNCHANGED <<op, work, fromCache>>
       ELSE Finish(p) /\ UNCHANGED applied
    /\ UNCHANGED <<fileVars, stateLock, drop, sealed>>

\* `tincan up --no-sync` reads the cache, and applies it in a later step.
ReadCache(p) ==
    LET m == host[p] IN
    /\ pc[p] = "idle"
    /\ ~Missing(cacheFile[m])
    /\ work' = [work EXCEPT ![p] = cacheFile[m]]
    /\ op' = [op EXCEPT ![p] = "up"]
    /\ Goto(p, "apply")
    /\ UNCHANGED <<fileVars, stateLock, drop, sealed, fromCache, applied>>
=============================================================================

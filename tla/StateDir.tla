------------------------------ MODULE StateDir -------------------------------
(***************************************************************************)
(* The state directory of a machine (internal/cache): cache.serial, the    *)
(* rollback high-water mark; cache.bin, the last accepted directory; and    *)
(* state.json, of which only the serial is kept.  Every file is replaced by *)
(* an atomic rename, so each write is one step, and a process may die       *)
(* between two of them.  The state lock (.lock) is held over the three      *)
(* writes of cache.Write.  A missing serial file reads as 0, the floor      *)
(* below every serial.                                                      *)
(*                                                                          *)
(* A process carries the directory it is about to store in work[p].         *)
(***************************************************************************)
EXTENDS Directory

CONSTANTS Machine,    \* the nodes that run tincan
          Proc,       \* tincan processes: daemons and commands
          NoProc,
          host        \* the machine a process runs on

ASSUME StateDirAssumption ==
    /\ Machine \subseteq Node \ Plain
    /\ host \in [Proc -> Machine]
    /\ NoProc \notin Proc

VARIABLES serialFile, cacheFile, stateFile,   \* [Machine -> ...]
          stateLock,                          \* holder of .lock, or NoProc
          pc, work                            \* [Proc -> ...]

fileVars == <<serialFile, cacheFile, stateFile>>

\* Phases of cache.Write: about to enter, serial written, cache written.
WritePhases == {"cwrite", "ccache", "cstate"}

Goto(p, label) == pc' = [pc EXCEPT ![p] = label]

StateLockFree(m) == stateLock[m] = NoProc

StateDirInit ==
    /\ serialFile = [m \in Machine |-> 0]
    /\ cacheFile = [m \in Machine |-> NoDir]
    /\ stateFile = [m \in Machine |-> 0]
    /\ stateLock = [m \in Machine |-> NoProc]

\* Fault: the mark is not read again under the lock.
WriteSerialUnguarded(p) ==
    LET m == host[p] IN
    /\ pc[p] = "cwrite"
    /\ StateLockFree(m)
    /\ serialFile' = [serialFile EXCEPT ![m] = work[p].serial]
    /\ stateLock' = [stateLock EXCEPT ![m] = p]
    /\ Goto(p, "ccache")
    /\ UNCHANGED <<cacheFile, stateFile, work>>

\* Fault: the cache is written before the serial.
WriteCacheFirst(p) ==
    LET m == host[p] IN
    /\ pc[p] = "cwrite"
    /\ StateLockFree(m)
    /\ ~(work[p].serial < serialFile[m])
    /\ cacheFile' = [cacheFile EXCEPT ![m] = work[p]]
    /\ stateLock' = [stateLock EXCEPT ![m] = p]
    /\ Goto(p, "ccache")
    /\ UNCHANGED <<serialFile, stateFile, work>>

\* cache.Write under the state lock: never lower the mark, and write the
\* serial file first.
WriteSerial(p) ==
    LET m == host[p] IN
    /\ pc[p] = "cwrite"
    /\ StateLockFree(m)
    /\ ~(work[p].serial < serialFile[m])
    /\ serialFile' = [serialFile EXCEPT ![m] = work[p].serial]
    /\ stateLock' = [stateLock EXCEPT ![m] = p]
    /\ Goto(p, "ccache")
    /\ UNCHANGED <<cacheFile, stateFile, work>>

\* The same step where the mark would be lowered; the lock is released.
WriteRefused(p) ==
    /\ pc[p] = "cwrite"
    /\ StateLockFree(host[p])
    /\ work[p].serial < serialFile[host[p]]

WriteCache(p) ==
    /\ pc[p] = "ccache"
    /\ cacheFile' = [cacheFile EXCEPT ![host[p]] = work[p]]
    /\ Goto(p, "cstate")
    /\ UNCHANGED <<serialFile, stateFile, stateLock, work>>

\* state.json, and the end of cache.Write: the caller goes on at next.
WriteState(p, next) ==
    /\ pc[p] = "cstate"
    /\ stateFile' = [stateFile EXCEPT ![host[p]] = work[p].serial]
    /\ stateLock' = [stateLock EXCEPT ![host[p]] = NoProc]
    /\ Goto(p, next)
    /\ UNCHANGED <<serialFile, cacheFile, work>>

\* WriteSerialFloor(serial), called by `tincan join` with the bootstrap's
\* serial.
WriteSerialFloor(m, serial) ==
    /\ StateLockFree(m)
    /\ serial > serialFile[m]
    /\ serialFile' = [serialFile EXCEPT ![m] = serial]
    /\ UNCHANGED <<cacheFile, stateFile, stateLock, pc, work>>

\* The kernel drops the flocks of a process that exits.
Unlocked(lock, p) == [m \in Machine |-> IF lock[m] = p THEN NoProc ELSE lock[m]]
=============================================================================

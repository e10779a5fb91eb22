----------------------------- MODULE PublishProof -----------------------------
(***************************************************************************)
(* Theorems about Publish, for every number of machines, processes, members *)
(* and serials, every drop behaviour and every number of crashes.           *)
(***************************************************************************)
EXTENDS Publish, TLAPS

-----------------------------------------------------------------------------
(* The inductive invariant.                                                *)

\* Who runs what: an operation that needs the admin lock holds it.
LockInv ==
    \A p \in Proc :
        /\ op[p] \in LockedOps => adminLock = p
        /\ pc[p] = "idle" => op[p] = "none"
        /\ pc[p] \in AdminPhases => op[p] \in LockedOps
        /\ pc[p] \in {"get", "check", "synced", "apply", "obslock"} => op[p] \in SyncCommands
        /\ pc[p] \in WritePhases => op[p] \in LockedOps \cup SyncCommands

\* Everything sent was reserved, and one serial names one payload.
SentInv ==
    /\ \A d \in sealed : 1 <= d.serial /\ d.serial <= publishFile
    /\ OneSerialOnePayload

\* An upload about to leave carries the last reservation, unused so far.
PutInv ==
    \A p \in Proc : pc[p] = "put" =>
        /\ work[p].serial = publishFile
        /\ 1 <= work[p].serial
        /\ \A d \in sealed : d.serial < publishFile

\* What machines and the drop hold, and what a process is about to store or
\* to apply, was sent.
HeldInv ==
    /\ drop \in sealed \cup {NoDir}
    /\ inflight \subseteq sealed
    /\ \A m \in Machine : cacheFile[m] \in sealed \cup {NoDir}
    /\ \A p \in Proc :
          pc[p] \in {"check", "cwrite", "ccache", "cstate", "synced", "apply",
                     "obslock", "source", "boot"} => work[p] \in sealed

\* cache.Write is alone between its first and its last write, and its mark is
\* in place.
MarkInv ==
    /\ MarkCoversUse
    /\ \A p \in Proc :
          /\ pc[p] \in {"ccache", "cstate"} =>
                stateLock[host[p]] = p /\ serialFile[host[p]] = work[p].serial
          /\ pc[p] = "apply" => work[p].serial <= serialFile[host[p]]

Inv == TypeOK /\ LockInv /\ SentInv /\ PutInv /\ HeldInv /\ MarkInv
-----------------------------------------------------------------------------
(* The operators on directories stay within Directories.                   *)

\* fetchAdminDirectory, bumpDirectory and the admin's edits return
\* directories.
LEMMA DirectoryTypes ==
    /\ NoDir \in Directories
    /\ 0 \in Serial /\ 1 \in Serial
    /\ \A n \in Node : InitDir(n) \in Directories
    /\ \A s, r, c \in Directories : fetchAdminDirectory(s, r, c) \in Directories
    /\ \A d \in Directories : Edits(d) \subseteq Directories
    /\ \A d \in Directories, o \in Obs : [d EXCEPT !.obs = o] \in Directories
    /\ \A d \in Directories : d.serial \in Serial /\ d.nodes \subseteq Node
<1> USE DirectoryAssumption
<1>1. NoDir \in Directories /\ 0 \in Serial /\ 1 \in Serial
  BY DEF NoDir, Directories, Serial
<1>2. \A n \in Node : InitDir(n) \in Directories
  BY DEF InitDir, Directories, Serial
<1>3. \A s, r, c \in Directories : fetchAdminDirectory(s, r, c) \in Directories
  BY DEF fetchAdminDirectory
<1>4. ASSUME NEW d \in Directories PROVE Edits(d) \subseteq Directories
  <2>1. AddNode(d) \subseteq Directories
    BY DEF AddNode, Directories
  <2>2. RemoveNode(d) \subseteq Directories
    BY DEF RemoveNode, Directories
  <2>3. SetDomain(d) \subseteq Directories
    BY DEF SetDomain, Directories
  <2> QED BY <2>1, <2>2, <2>3 DEF Edits
<1>5. \A d \in Directories, o \in Obs : [d EXCEPT !.obs = o] \in Directories
  BY DEF Directories
<1>6. \A d \in Directories : d.serial \in Serial /\ d.nodes \subseteq Node
  BY DEF Directories
<1> QED BY <1>1, <1>2, <1>3, <1>4, <1>5, <1>6

\* bumpDirectory past a floor below MaxSerial, as preparePublishSerial calls it.
LEMMA BumpType ==
    ASSUME NEW d \in Directories, NEW r \in Directories,
           NEW i \in Serial, NEW j \in Serial,
           serialFloor(d, r, i, j) < MaxSerial
    PROVE  /\ bumpDirectory(d, serialFloor(d, r, i, j)) \in Directories
           /\ bumpDirectory(d, serialFloor(d, r, i, j)).serial > j
<1> DEFINE f == serialFloor(d, r, i, j)
<1>1. f \in Serial /\ f >= j
  BY DirectoryAssumption DEF serialFloor, MaxOf, Directories, Serial
<1>2. f + 1 \in Serial
  BY <1>1, DirectoryAssumption DEF Serial
<1> HIDE DEF f
<1>3. bumpDirectory(d, f) \in Directories /\ bumpDirectory(d, f).serial = f + 1
  BY <1>2 DEF bumpDirectory, Directories
<1> QED BY <1>1, <1>3, DirectoryAssumption DEF f, Serial
-----------------------------------------------------------------------------
(* Three kinds of step that many actions share.                            *)

\* A process ends its command, normally, on an error or in a crash: it leaves
\* no obligation behind.  The working directory and the bootstrap file are
\* free to change: nothing below depends on them.
LEMMA EndStep ==
    ASSUME Inv, NEW p \in Proc, Finish(p),
           UNCHANGED <<fileVars, drop, sealed, publishFile, inflight>>,
           applied' \in [Machine -> Directories],
           \A m \in Machine : applied'[m].serial <= serialFile[m],
           stateLock' \in {stateLock, Unlocked(stateLock, p)},
           \/ adminLock' = adminLock /\ op[p] \notin LockedOps
           \/ adminLock' = NoProc /\ adminLock = p
           \/ adminLock' = adminLock /\ adminLock # p,
           remote' \in [Proc -> Directories],
           fetchErr' \in [Proc -> {"none", "notfound", "other"}],
           sourceFile' \in Directories, bootFile' \in Serial,
           staged' \in BOOLEAN, crashes' \in 0 .. MaxCrashes
    PROVE  Inv'
<1> USE StateDirAssumption DEF Inv, Finish, Goto, fileVars
<1>1. TypeOK'
  <2>1. stateLock' \in [Machine -> Proc \cup {NoProc}]
    BY DEF TypeOK, Unlocked
  <2>2. pc' \in [Proc -> Phases] /\ op' \in [Proc -> LockedOps \cup SyncCommands \cup {"none"}]
    BY DEF TypeOK, Phases
  <2>3. work' \in [Proc -> Directories] /\ fromCache' \in [Proc -> BOOLEAN]
    BY DirectoryTypes DEF TypeOK
  <2>4. adminLock' \in Proc \cup {NoProc}
    BY DEF TypeOK
  <2> QED BY <2>1, <2>2, <2>3, <2>4 DEF TypeOK
<1>2. LockInv'
  BY DEF TypeOK, LockInv, LockedOps, AdminCommands, AdminPhases, WritePhases
<1>3. SentInv'
  BY DEF SentInv, OneSerialOnePayload
<1>4. PutInv'
  BY DEF TypeOK, PutInv
<1>5. HeldInv'
  BY DEF TypeOK, HeldInv
<1>6. MarkInv'
  <2>1. MarkCoversUse'
    BY DEF MarkInv, MarkCoversUse
  <2>2. ASSUME NEW q \in Proc, pc'[q] \in {"ccache", "cstate", "apply"}
        PROVE  q # p /\ pc'[q] = pc[q] /\ work'[q] = work[q]
    BY <2>2 DEF TypeOK
  <2>3. ASSUME NEW q \in Proc, q # p, stateLock[host[q]] = q PROVE stateLock'[host[q]] = q
    BY <2>3 DEF Unlocked
  <2> QED BY <2>1, <2>2, <2>3 DEF MarkInv
<1> QED BY <1>1, <1>2, <1>3, <1>4, <1>5, <1>6

\* An admin command moves on between taking the lock and the reservation.
LEMMA AdminMoveStep ==
    ASSUME Inv, NEW p \in Proc, op[p] \in LockedOps, NEW w \in Directories,
           NEW l \in {"load", "stage", "refetch", "prep", "reserve"},
           Goto(p, l), work' = [work EXCEPT ![p] = w],
           remote' \in [Proc -> Directories],
           fetchErr' \in [Proc -> {"none", "notfound", "other"}],
           UNCHANGED <<syncVars, adminFiles, op, fromCache, adminLock, envVars>>
    PROVE  Inv'
<1> USE StateDirAssumption DEF Inv, Goto, syncVars, adminFiles, envVars
<1>1. TypeOK'
  <2>1. pc' \in [Proc -> Phases]
    BY DEF TypeOK, Phases, AdminPhases
  <2>2. work' \in [Proc -> Directories]
    BY DEF TypeOK
  <2> QED BY <2>1, <2>2 DEF TypeOK
<1>2. LockInv'
  BY DEF TypeOK, LockInv, AdminPhases, WritePhases
<1>3. SentInv'
  BY DEF SentInv, OneSerialOnePayload
<1>4. PutInv'
  BY DEF TypeOK, PutInv
<1>5. HeldInv'
  BY DEF TypeOK, HeldInv
<1>6. MarkInv'
  BY DEF TypeOK, MarkInv, MarkCoversUse
<1> QED BY <1>1, <1>2, <1>3, <1>4, <1>5, <1>6

\* A sync moves on with a directory that was sent.
LEMMA SyncMoveStep ==
    ASSUME Inv, NEW p \in Proc, NEW w \in Directories, NEW o \in SyncCommands,
           NEW l \in {"get", "check", "cwrite", "apply", "obslock"},
           op[p] \notin LockedOps,
           l # "get" => w \in sealed,
           l = "apply" => w.serial <= serialFile[host[p]],
           Goto(p, l), work' = [work EXCEPT ![p] = w], op' = [op EXCEPT ![p] = o],
           fromCache' \in [Proc -> BOOLEAN],
           UNCHANGED <<fileVars, stateLock, drop, sealed, adminFiles, adminLock,
                       remote, fetchErr, envVars>>,
           applied' \in [Machine -> Directories],
           \A m \in Machine : applied'[m].serial <= serialFile[m]
    PROVE  Inv'
<1> USE StateDirAssumption DEF Inv, Goto, fileVars, adminFiles, envVars
<1>1. TypeOK'
  <2>1. pc' \in [Proc -> Phases]
    BY DEF TypeOK, Phases, WritePhases
  <2>2. work' \in [Proc -> Directories]
    BY DEF TypeOK
  <2>3. op' \in [Proc -> LockedOps \cup SyncCommands \cup {"none"}]
    BY DEF TypeOK
  <2> QED BY <2>1, <2>2, <2>3 DEF TypeOK
<1>2. LockInv'
  <2>1. o \notin LockedOps
    BY DEF LockedOps, AdminCommands, SyncCommands
  <2> QED BY <2>1 DEF TypeOK, LockInv, AdminPhases, WritePhases
<1>3. SentInv'
  BY DEF SentInv, OneSerialOnePayload
<1>4. PutInv'
  BY DEF TypeOK, PutInv
<1>5. HeldInv'
  BY DEF TypeOK, HeldInv
<1>6. MarkInv'
  BY DEF TypeOK, MarkInv, MarkCoversUse
<1> QED BY <1>1, <1>2, <1>3, <1>4, <1>5, <1>6
-----------------------------------------------------------------------------
(* The steps of a sync.                                                    *)

\* Reading the drop or the cache, the rollback check, cache.Write and Apply.
LEMMA SyncInv ==
    ASSUME Inv, NEW p \in Proc, SyncStep(p) PROVE Inv'
<1> DEFINE Rest == UNCHANGED <<adminFiles, adminLock, remote, fetchErr, envVars>>
<1> USE DirectoryTypes, StateDirAssumption
<1>0. Rest /\ TypeOK
  BY DEF SyncStep, Inv
<1>1. ASSUME NEW o \in SyncCommands, SyncStart(p, o) PROVE Inv'
  <2>1. op[p] \notin LockedOps
    BY <1>1 DEF SyncStart, Inv, LockInv, LockedOps, AdminCommands
  <2>2. work' = [work EXCEPT ![p] = work[p]] /\ work[p] \in Directories
    BY <1>1, <1>0 DEF SyncStart, TypeOK
  <2>3. \A m \in Machine : applied'[m].serial <= serialFile[m]
    BY <1>1 DEF SyncStart, Inv, MarkInv, MarkCoversUse
  <2> QED BY <1>0, <1>1, <2>1, <2>2, <2>3, SyncMoveStep DEF SyncStart, TypeOK
<1>2. ASSUME SyncGetBlob(p) PROVE Inv'
  <2>1. op[p] \in SyncCommands /\ op[p] \notin LockedOps
    BY <1>2 DEF SyncGetBlob, Inv, LockInv, LockedOps, AdminCommands, SyncCommands
  <2>2. PICK d \in Readable : Opens(host[p], d) /\ work' = [work EXCEPT ![p] = d]
    BY <1>2 DEF SyncGetBlob
  <2>3. d \in sealed /\ d \in Directories
    BY <1>0, <2>2 DEF Readable, Opens, Missing, NoDir, Inv, HeldInv, TypeOK
  <2>4. op' = [op EXCEPT ![p] = op[p]] /\ applied' = applied
    BY <1>2, <1>0 DEF SyncGetBlob, TypeOK
  <2>5. \A m \in Machine : applied'[m].serial <= serialFile[m]
    BY <2>4 DEF Inv, MarkInv, MarkCoversUse
  <2>6. Goto(p, "check") /\ UNCHANGED <<fileVars, stateLock, drop, sealed, fromCache>>
    BY <1>2 DEF SyncGetBlob
  <2>7. fromCache' \in [Proc -> BOOLEAN] /\ applied' \in [Machine -> Directories]
    BY <1>0, <2>4, <2>6 DEF TypeOK
  <2> QED BY <1>0, <2>1, <2>2, <2>3, <2>4, <2>5, <2>6, <2>7, SyncMoveStep
<1>3. ASSUME SyncGetFails(p) PROVE Inv'
  <2>1. op[p] \in SyncCommands /\ op[p] \notin LockedOps
    BY <1>3 DEF SyncGetFails, Inv, LockInv, LockedOps, AdminCommands, SyncCommands
  <2>2. cacheFile[host[p]] \in sealed /\ cacheFile[host[p]] \in Directories
    BY <1>0, <1>3 DEF SyncGetFails, Missing, NoDir, Inv, HeldInv, TypeOK
  <2>3. op' = [op EXCEPT ![p] = op[p]] /\ fromCache' \in [Proc -> BOOLEAN]
    BY <1>3, <1>0 DEF SyncGetFails, TypeOK
  <2>4. \A m \in Machine : applied'[m].serial <= serialFile[m]
    BY <1>3 DEF SyncGetFails, Inv, MarkInv, MarkCoversUse
  <2> QED BY <1>0, <1>3, <2>1, <2>2, <2>3, <2>4, SyncMoveStep DEF SyncGetFails, TypeOK
<1>4. ASSUME UNCHANGED <<fileVars, stateLock, drop, sealed, applied>>, Finish(p),
             pc[p] \in {"get", "check", "synced", "apply"}
      PROVE  Inv'
  <2>1. op[p] \notin LockedOps
    BY <1>4 DEF Inv, LockInv, LockedOps, AdminCommands, SyncCommands
  <2>2. \A m \in Machine : applied'[m].serial <= serialFile[m]
    BY <1>4 DEF Inv, MarkInv, MarkCoversUse
  <2> QED BY <1>0, <1>4, <2>1, <2>2, EndStep DEF TypeOK, adminFiles, envVars
<1>5. ASSUME SyncAborts(p) \/ SyncDone(p) PROVE Inv'
  BY <1>4, <1>5 DEF SyncAborts, SyncDone
<1>6. ASSUME SyncCheck(p) PROVE Inv'
  <2>1. CASE Finish(p)
    BY <1>4, <1>6, <2>1 DEF SyncCheck
  <2>2. CASE Goto(p, "cwrite") /\ UNCHANGED <<op, work, fromCache>>
    <3>1. op[p] \in SyncCommands /\ op[p] \notin LockedOps /\ work[p] \in sealed
      BY <1>6 DEF SyncCheck, Inv, LockInv, HeldInv, LockedOps, AdminCommands, SyncCommands
    <3>2. op' = [op EXCEPT ![p] = op[p]] /\ work' = [work EXCEPT ![p] = work[p]]
      BY <1>0, <2>2 DEF TypeOK
    <3>3. \A m \in Machine : applied'[m].serial <= serialFile[m]
      BY <1>6 DEF SyncCheck, Inv, MarkInv, MarkCoversUse
    <3> QED BY <1>0, <1>6, <2>2, <3>1, <3>2, <3>3, SyncMoveStep DEF SyncCheck, TypeOK
  <2> QED BY <1>6, <2>1, <2>2 DEF SyncCheck
<1>7. ASSUME Apply(p, AfterApply(p)) PROVE Inv'
  <2>1. /\ op[p] \in SyncCommands /\ op[p] \notin LockedOps
        /\ work[p] \in sealed /\ work[p].serial <= serialFile[host[p]]
    BY <1>7 DEF Apply, Inv, LockInv, HeldInv, MarkInv, LockedOps, AdminCommands, SyncCommands
  <2>2. /\ applied' \in [Machine -> Directories]
        /\ \A m \in Machine : applied'[m].serial <= serialFile[m]
    BY <1>0, <1>7, <2>1 DEF Apply, Inv, MarkInv, MarkCoversUse, TypeOK
  <2>3. CASE Finish(p)
    BY <1>0, <1>7, <2>1, <2>2, <2>3, EndStep DEF Apply, TypeOK, adminFiles, envVars
  <2>4. CASE Goto(p, "obslock") /\ UNCHANGED <<op, work, fromCache>>
    <3>1. op' = [op EXCEPT ![p] = op[p]] /\ work' = [work EXCEPT ![p] = work[p]]
      BY <1>0, <2>4 DEF TypeOK
    <3> QED BY <1>0, <1>7, <2>1, <2>2, <2>4, <3>1, SyncMoveStep DEF Apply, TypeOK
  <2> QED BY <1>7, <2>3, <2>4 DEF Apply, AfterApply
<1>8. ASSUME ReadCache(p), "up" \in Commands[p] PROVE Inv'
  <2>1. op[p] \notin LockedOps
    BY <1>8 DEF ReadCache, Inv, LockInv, LockedOps, AdminCommands
  <2>2. /\ cacheFile[host[p]] \in sealed /\ cacheFile[host[p]] \in Directories
        /\ cacheFile[host[p]].serial <= serialFile[host[p]]
    BY <1>0, <1>8 DEF ReadCache, Missing, NoDir, Inv, HeldInv, MarkInv, MarkCoversUse, TypeOK
  <2>3. \A m \in Machine : applied'[m].serial <= serialFile[m]
    BY <1>8 DEF ReadCache, Inv, MarkInv, MarkCoversUse
  <2>4. "up" \in SyncCommands
    BY DEF SyncCommands
  <2> QED BY <1>0, <1>8, <2>1, <2>2, <2>3, <2>4, SyncMoveStep DEF ReadCache, TypeOK
<1>9. ASSUME CacheWrite(p) PROVE Inv'
  <2>0. UNCHANGED <<drop, sealed, op, fromCache, applied>> /\ Rest /\ Inv
    BY <1>0, <1>9 DEF CacheWrite
  <2>1. ASSUME WriteSerial(p) PROVE Inv'
    <3>1. work[p] \in sealed /\ work[p].serial \in Serial /\ work[p].serial >= serialFile[host[p]]
      BY <1>0, <2>1, DirectoryAssumption DEF WriteSerial, Inv, HeldInv, TypeOK, Serial
    <3>2. TypeOK'
      BY <1>0, <2>0, <2>1, <3>1 DEF WriteSerial, TypeOK, Phases, WritePhases, Goto, adminFiles, envVars
    <3>3. LockInv'
      BY <2>0, <2>1 DEF WriteSerial, Inv, TypeOK, LockInv, Goto, AdminPhases, WritePhases
    <3>4. SentInv' /\ PutInv' /\ HeldInv'
      BY <2>0, <2>1 DEF WriteSerial, Inv, TypeOK, SentInv, OneSerialOnePayload, PutInv, HeldInv,
                        Goto, adminFiles, envVars
    <3>5. \A m \in Machine : serialFile[m] \in Serial /\ serialFile'[m] >= serialFile[m]
      BY <1>0, <2>1, <3>1, DirectoryAssumption DEF WriteSerial, TypeOK, Serial
    <3>6. MarkCoversUse'
      BY <1>0, <2>0, <2>1, <3>2, <3>5, DirectoryAssumption
         DEF WriteSerial, Inv, MarkInv, MarkCoversUse, TypeOK, Serial
    <3>7. ASSUME NEW q \in Proc, pc'[q] \in {"ccache", "cstate"}
          PROVE  stateLock'[host[q]] = q /\ serialFile'[host[q]] = work'[q].serial
      BY <1>0, <2>0, <2>1, <3>7 DEF WriteSerial, Inv, MarkInv, TypeOK, Goto, StateLockFree
    <3>8. ASSUME NEW q \in Proc, pc'[q] = "apply"
          PROVE  work'[q].serial <= serialFile'[host[q]]
      <4>1. pc[q] = "apply" /\ work'[q] = work[q] /\ host[q] \in Machine /\ work[q].serial \in Serial
        BY <1>0, <2>1, <3>8 DEF WriteSerial, TypeOK, Goto
      <4> QED BY <1>0, <3>2, <3>5, <4>1, DirectoryAssumption DEF Inv, MarkInv, TypeOK, Serial
    <3> QED BY <3>2, <3>3, <3>4, <3>6, <3>7, <3>8 DEF Inv, MarkInv
  <2>2. ASSUME WriteCache(p) PROVE Inv'
    <3>1. work[p] \in sealed /\ work[p] \in Directories /\ serialFile[host[p]] = work[p].serial
      BY <1>0, <2>2 DEF WriteCache, Inv, HeldInv, MarkInv, TypeOK
    <3>2. TypeOK'
      BY <1>0, <2>0, <2>2, <3>1 DEF WriteCache, TypeOK, Phases, WritePhases, Goto, adminFiles, envVars
    <3>3. LockInv'
      BY <2>0, <2>2 DEF WriteCache, Inv, TypeOK, LockInv, Goto, AdminPhases, WritePhases
    <3>4. SentInv' /\ PutInv'
      BY <2>0, <2>2 DEF WriteCache, Inv, TypeOK, SentInv, OneSerialOnePayload, PutInv, Goto,
                        adminFiles, envVars
    <3>5. HeldInv'
      BY <2>0, <2>2, <3>1 DEF WriteCache, Inv, TypeOK, HeldInv, Goto, envVars
    <3>6. MarkCoversUse'
      BY <1>0, <2>0, <2>2, <3>1, DirectoryAssumption
         DEF WriteCache, Inv, MarkInv, MarkCoversUse, TypeOK, Serial
    <3> QED BY <2>0, <2>2, <3>2, <3>3, <3>4, <3>5, <3>6 DEF WriteCache, Inv, MarkInv, TypeOK, Goto
  <2>3. ASSUME WriteState(p, AfterWrite(p)) PROVE Inv'
    <3>1. /\ work[p] \in sealed /\ work[p].serial \in Serial
          /\ serialFile[host[p]] = work[p].serial /\ stateLock[host[p]] = p
          /\ op[p] \in LockedOps \cup SyncCommands
      BY <1>0, <2>3 DEF WriteState, Inv, HeldInv, MarkInv, LockInv, TypeOK, WritePhases
    <3>2. /\ AfterWrite(p) \in {"synced", "apply", "source"}
          /\ AfterWrite(p) = "source" => op[p] \in LockedOps
          /\ AfterWrite(p) # "source" => op[p] \in SyncCommands
      BY <3>1 DEF AfterWrite, SyncCommands, LockedOps, AdminCommands
    <3>3. TypeOK'
      BY <1>0, <2>0, <2>3, <3>1, <3>2
         DEF WriteState, TypeOK, Phases, AdminPhases, Goto, adminFiles, envVars
    <3>4. LockInv'
      BY <2>0, <2>3, <3>2 DEF WriteState, Inv, TypeOK, LockInv, Goto, AdminPhases, WritePhases
    <3>5. SentInv' /\ PutInv'
      BY <2>0, <2>3, <3>2 DEF WriteState, Inv, TypeOK, SentInv, OneSerialOnePayload, PutInv, Goto,
                              adminFiles, envVars
    <3>6. HeldInv'
      BY <2>0, <2>3, <3>1, <3>2 DEF WriteState, Inv, TypeOK, HeldInv, Goto, envVars
    <3>7. MarkCoversUse'
      BY <2>0, <2>3 DEF WriteState, Inv, MarkInv, MarkCoversUse
    <3>8. ASSUME NEW q \in Proc, pc'[q] \in {"ccache", "cstate"}
          PROVE  stateLock'[host[q]] = q /\ serialFile'[host[q]] = work'[q].serial
      BY <1>0, <2>0, <2>3, <3>1, <3>2, <3>8 DEF WriteState, Inv, MarkInv, TypeOK, Goto
    <3>9. ASSUME NEW q \in Proc, pc'[q] = "apply"
          PROVE  work'[q].serial <= serialFile'[host[q]]
      BY <1>0, <2>3, <3>1, <3>9, DirectoryAssumption DEF WriteState, Inv, MarkInv, TypeOK, Goto, Serial
    <3> QED BY <3>3, <3>4, <3>5, <3>6, <3>7, <3>8, <3>9 DEF Inv, MarkInv
  <2> QED BY <1>9, <2>1, <2>2, <2>3 DEF CacheWrite
<1> QED
  BY <1>1, <1>2, <1>3, <1>5, <1>6, <1>7, <1>8, <1>9 DEF SyncStep
-----------------------------------------------------------------------------
(* The steps of an admin command.                                          *)

\* The end of an admin command that changes no file.
LEMMA ReleaseInv ==
    ASSUME Inv, NEW p \in Proc, op[p] \in LockedOps, Release(p),
           UNCHANGED <<syncVars, publishFile, inflight>>,
           sourceFile' \in Directories, bootFile' \in Serial,
           staged' \in BOOLEAN, crashes' \in 0 .. MaxCrashes
    PROVE  Inv'
<1>1. adminLock = p
  BY DEF Inv, LockInv
<1>2. \A m \in Machine : applied'[m].serial <= serialFile[m]
  BY DEF syncVars, Inv, MarkInv, MarkCoversUse
<1>3. /\ remote' \in [Proc -> Directories]
      /\ fetchErr' \in [Proc -> {"none", "notfound", "other"}]
      /\ applied' \in [Machine -> Directories]
  BY DirectoryTypes DEF Release, Inv, TypeOK, syncVars
<1> QED BY <1>1, <1>2, <1>3, EndStep DEF Release, syncVars, fileVars

\* Taking the lock, reading, preparing, reserving, uploading, storing.
LEMMA AdminInv ==
    ASSUME Inv, NEW p \in Proc, AdminStep(p) PROVE Inv'
<1> USE DirectoryTypes, StateDirAssumption
<1>0. TypeOK /\ SentInv /\ PutInv /\ HeldInv /\ MarkInv /\ LockInv
  BY DEF Inv
<1>1. ASSUME NEW o \in LockedOps, LockAdmin(p, o), pc[p] \in {"idle", "obslock"} PROVE Inv'
  <2>1. \A q \in Proc : op[q] \notin LockedOps
    BY <1>0, <1>1 DEF LockAdmin, LockInv
  <2>2. TypeOK'
    BY <1>0, <1>1 DEF LockAdmin, Goto, TypeOK, Phases, AdminPhases, syncVars, adminFiles, envVars
  <2>3. LockInv'
    BY <1>0, <1>1, <2>1 DEF LockAdmin, Goto, TypeOK, LockInv, AdminPhases, WritePhases
  <2>4. SentInv' /\ PutInv' /\ HeldInv'
    BY <1>0, <1>1 DEF LockAdmin, Goto, TypeOK, SentInv, OneSerialOnePayload, PutInv, HeldInv,
                      syncVars, adminFiles, envVars
  <2>5. MarkInv'
    BY <1>0, <1>1 DEF LockAdmin, Goto, TypeOK, MarkInv, MarkCoversUse, syncVars
  <2> QED BY <2>2, <2>3, <2>4, <2>5 DEF Inv
<1>2. ASSUME NEW o \in AdminCommands, AdminStart(p, o) PROVE Inv'
  BY <1>1, <1>2 DEF AdminStart, LockedOps
<1>3. ASSUME ObserveStart(p) PROVE Inv'
  BY <1>1, <1>3 DEF ObserveStart, LockedOps
<1>4. pc[p] \in AdminPhases => op[p] \in LockedOps
  BY <1>0 DEF LockInv
<1>5. ASSUME NEW l \in {"load", "prep"}, fetchDirectory(p, l), pc[p] \in AdminPhases PROVE Inv'
  <2>1. /\ remote' \in [Proc -> Directories]
        /\ fetchErr' \in [Proc -> {"none", "notfound", "other"}]
    <3>1. \A d \in Readable : d \in Directories
      BY <1>0 DEF Readable, TypeOK
    <3>2. \E d \in Directories, e \in {"none", "notfound", "other"} :
             /\ remote' = [remote EXCEPT ![p] = d]
             /\ fetchErr' = [fetchErr EXCEPT ![p] = e]
      BY <1>5, <3>1 DEF fetchDirectory
    <3> QED BY <1>0, <3>2 DEF TypeOK
  <2>2. /\ Goto(p, l)
        /\ UNCHANGED <<syncVars, adminFiles, work, op, fromCache, adminLock, envVars>>
    BY <1>5 DEF fetchDirectory
  <2>3. work' = [work EXCEPT ![p] = work[p]] /\ work[p] \in Directories
    BY <1>0, <2>2 DEF TypeOK
  <2> QED BY <1>4, <1>5, <2>1, <2>2, <2>3, AdminMoveStep
<1>6. ASSUME Fetch(p) \/ Refetch(p) PROVE Inv'
  BY <1>5, <1>6 DEF Fetch, Refetch, AdminPhases
<1>7. ASSUME Release(p), pc[p] \in AdminPhases, UNCHANGED <<syncVars, adminFiles, envVars>>
      PROVE  Inv'
  BY <1>0, <1>4, <1>7, ReleaseInv DEF TypeOK, adminFiles, envVars
<1>8. ASSUME NEW l \in {"stage", "refetch", "prep", "reserve"}, NEW w \in Directories,
             pc[p] \in AdminPhases, Goto(p, l), work' = [work EXCEPT ![p] = w], Stay,
             UNCHANGED <<syncVars, adminFiles, envVars>>
      PROVE  Inv'
  <2>1. /\ remote' \in [Proc -> Directories]
        /\ fetchErr' \in [Proc -> {"none", "notfound", "other"}]
    BY <1>0, <1>8 DEF Stay, TypeOK
  <2>2. UNCHANGED <<syncVars, adminFiles, op, fromCache, adminLock, envVars>>
    BY <1>8 DEF Stay
  <2> QED BY <1>4, <1>8, <2>1, <2>2, AdminMoveStep
<1>9. ASSUME LoadPublish(p) PROVE Inv'
  <2>1. pc[p] \in AdminPhases /\ UNCHANGED <<syncVars, adminFiles, envVars>>
    BY <1>9 DEF LoadPublish, AdminPhases
  <2>2. CASE Missing(sourceFile)
    BY <1>7, <1>9, <2>1, <2>2 DEF LoadPublish
  <2>3. CASE ~Missing(sourceFile)
    BY <1>0, <1>8, <1>9, <2>1, <2>3 DEF LoadPublish, TypeOK
  <2> QED BY <2>2, <2>3
<1>10. ASSUME LoadEdit(p) PROVE Inv'
  <2> DEFINE base == fetchAdminDirectory(sourceFile, remote[p], cacheFile[Admin])
  <2>1. pc[p] \in AdminPhases /\ UNCHANGED <<syncVars, adminFiles, envVars>>
    BY <1>10 DEF LoadEdit, AdminPhases
  <2>2. base \in Directories
    BY <1>0, PublishAssumption DEF TypeOK
  <2>3. CASE Release(p)
    BY <1>7, <2>1, <2>3
  <2>4. CASE ~Release(p)
    <3>1. PICK d \in Edits(base) : work' = [work EXCEPT ![p] = d]
      BY <1>10, <2>4 DEF LoadEdit
    <3>2. d \in Directories
      BY <2>2, <3>1
    <3>3. Stay /\ (Goto(p, "stage") \/ Goto(p, "refetch"))
      BY <1>10, <2>4 DEF LoadEdit
    <3> QED BY <1>8, <2>1, <3>1, <3>2, <3>3
  <2> QED BY <2>3, <2>4
<1>11. ASSUME LoadObserve(p) PROVE Inv'
  <2>1. pc[p] \in AdminPhases /\ UNCHANGED <<syncVars, adminFiles, envVars>>
    BY <1>11 DEF LoadObserve, AdminPhases
  <2>2. CASE Release(p)
    BY <1>7, <2>1, <2>2
  <2>3. CASE ~Release(p)
    <3>1. PICK o \in Obs : /\ work' = [work EXCEPT ![p] = [remote[p] EXCEPT !.obs = o]]
                           /\ Goto(p, "prep")
                           /\ Stay
      BY <1>11, <2>3 DEF LoadObserve
    <3>2. [remote[p] EXCEPT !.obs = o] \in Directories
      BY <1>0 DEF TypeOK
    <3> QED BY <1>8, <2>1, <3>1, <3>2
  <2> QED BY <2>2, <2>3
<1>12. ASSUME Prepare(p) PROVE Inv'
  <2> DEFINE floor == serialFloor(work[p], remote[p], serialFile[Admin], publishFile)
  <2>1. pc[p] \in AdminPhases /\ UNCHANGED <<syncVars, adminFiles, envVars>>
    BY <1>12 DEF Prepare, AdminPhases
  <2>2. CASE Release(p)
    BY <1>7, <2>1, <2>2
  <2>3. CASE ~Release(p)
    <3>1. /\ floor < MaxSerial /\ Goto(p, "reserve") /\ Stay
          /\ work' = [work EXCEPT ![p] = bumpDirectory(work[p], floor)]
      BY <1>12, <2>3 DEF Prepare
    <3>2. bumpDirectory(work[p], floor) \in Directories
      BY <1>0, <3>1, BumpType, PublishAssumption DEF TypeOK
    <3> QED BY <1>8, <2>1, <3>1, <3>2
  <2> QED BY <2>2, <2>3
<1>13. ASSUME ReservePublishSerial(p) PROVE Inv'
  <2>1. /\ pc[p] = "reserve" /\ pc[p] \in AdminPhases
        /\ UNCHANGED <<syncVars, sourceFile, bootFile, envVars>>
    BY <1>13 DEF ReservePublishSerial, AdminPhases
  <2>2. CASE work[p].serial <= publishFile
    BY <1>7, <1>13, <2>1, <2>2 DEF ReservePublishSerial, adminFiles
  <2>3. CASE ~(work[p].serial <= publishFile)
    <3>1. /\ publishFile' = work[p].serial /\ Goto(p, "put") /\ UNCHANGED work /\ Stay
          /\ work[p].serial \in Serial /\ publishFile < work[p].serial
      BY <1>0, <1>13, <2>3, DirectoryAssumption DEF ReservePublishSerial, TypeOK, Serial
    <3>2. \A q \in Proc : q # p => pc[q] # "put"
      BY <1>0, <1>4, <2>1 DEF LockInv, AdminPhases
    <3>3. TypeOK'
      BY <1>0, <2>1, <3>1 DEF TypeOK, Goto, Stay, Phases, AdminPhases, syncVars, envVars
    <3>4. LockInv'
      BY <1>0, <1>4, <2>1, <3>1 DEF TypeOK, LockInv, Goto, Stay, AdminPhases, WritePhases
    <3>5. \A d \in sealed : 1 <= d.serial /\ d.serial < publishFile'
      BY <1>0, <3>1, DirectoryAssumption DEF SentInv, TypeOK, Serial
    <3>6. SentInv'
      BY <1>0, <2>1, <3>1, <3>5, DirectoryAssumption
         DEF SentInv, OneSerialOnePayload, syncVars, TypeOK, Serial
    <3>7. 1 <= work[p].serial
      BY <1>0, <3>1, DirectoryAssumption DEF TypeOK, Serial
    <3>8. PutInv'
      BY <1>0, <2>1, <3>1, <3>2, <3>5, <3>7 DEF PutInv, TypeOK, Goto, syncVars
    <3>9. HeldInv' /\ MarkInv'
      BY <1>0, <2>1, <3>1 DEF HeldInv, MarkInv, MarkCoversUse, TypeOK, Goto, syncVars, envVars
    <3> QED BY <3>3, <3>4, <3>6, <3>8, <3>9 DEF Inv
  <2> QED BY <2>2, <2>3
<1>14. ASSUME Send(p),
              UNCHANGED <<fileVars, stateLock, applied, adminFiles>>,
              inflight' \subseteq sealed', drop' \in sealed' \cup {NoDir}
       PROVE  /\ sealed' \subseteq Directories /\ staged' \in BOOLEAN
              /\ SentInv'
              /\ \A m \in Machine : cacheFile'[m] \in sealed' \cup {NoDir}
              /\ sealed \subseteq sealed' /\ work[p] \in sealed'
              /\ \A q \in Proc : q # p => pc[q] # "put"
  <2>1. /\ work[p] \in Directories /\ work[p].serial = publishFile /\ 1 <= work[p].serial
        /\ \A d \in sealed : d.serial < work[p].serial
        /\ sealed' = sealed \cup {work[p]}
    BY <1>0, <1>14 DEF Send, PutInv, TypeOK
  <2>2. SentInv'
    <3>1. \A d \in sealed' : 1 <= d.serial /\ d.serial <= publishFile
      BY <1>0, <2>1, DirectoryAssumption DEF SentInv, TypeOK, Serial
    <3>2. \A d \in sealed : d.serial # work[p].serial
      BY <1>0, <2>1, DirectoryAssumption DEF TypeOK, Serial
    <3>3. OneSerialOnePayload'
      BY <1>0, <2>1, <3>2 DEF SentInv, OneSerialOnePayload
    <3> QED BY <1>14, <3>1, <3>3 DEF SentInv, adminFiles
  <2>3. \A q \in Proc : q # p => pc[q] # "put"
    BY <1>0, <1>4, <1>14 DEF Send, LockInv, AdminPhases
  <2>4. staged' \in BOOLEAN
    BY <1>14 DEF Send
  <2> QED BY <1>0, <1>14, <2>1, <2>2, <2>3, <2>4 DEF HeldInv, TypeOK, fileVars
<1>15. ASSUME Put(p) PROVE Inv'
  <2>0. inflight' \subseteq sealed' /\ drop' \in sealed' \cup {NoDir} /\ pc[p] = "put"
    BY <1>0, <1>15 DEF Put, Send, HeldInv
  <2>1. /\ sealed' \subseteq Directories /\ staged' \in BOOLEAN /\ SentInv'
        /\ \A m \in Machine : cacheFile'[m] \in sealed' \cup {NoDir}
        /\ sealed \subseteq sealed' /\ work[p] \in sealed'
        /\ \A q \in Proc : q # p => pc[q] # "put"
    BY <1>14, <1>15, <2>0 DEF Put
  <2>2. TypeOK'
    BY <1>0, <1>15, <2>1 DEF Put, TypeOK, Goto, Stay, Phases, WritePhases, fileVars, adminFiles
  <2>3. LockInv'
    BY <1>0, <1>4, <1>15, <2>0 DEF Put, TypeOK, LockInv, Goto, Stay, AdminPhases, WritePhases
  <2>4. PutInv'
    BY <1>0, <1>15, <2>1 DEF Put, TypeOK, PutInv, Goto
  <2>5. HeldInv'
    BY <1>0, <1>15, <2>0, <2>1 DEF Put, TypeOK, HeldInv, Goto
  <2>6. MarkInv'
    BY <1>0, <1>15 DEF Put, TypeOK, MarkInv, MarkCoversUse, Goto, fileVars
  <2> QED BY <2>1, <2>2, <2>3, <2>4, <2>5, <2>6 DEF Inv
<1>16. ASSUME PutFails(p) PROVE Inv'
  <2>0. /\ inflight' \subseteq sealed' /\ drop' \in sealed' \cup {NoDir} /\ pc[p] = "put"
        /\ Release(p) /\ UNCHANGED <<fileVars, stateLock, applied, adminFiles, crashes>>
    BY <1>0, <1>16 DEF PutFails, Send, HeldInv
  <2>1. /\ sealed' \subseteq Directories /\ staged' \in BOOLEAN /\ SentInv'
        /\ \A m \in Machine : cacheFile'[m] \in sealed' \cup {NoDir}
        /\ sealed \subseteq sealed'
        /\ \A q \in Proc : q # p => pc[q] # "put"
    BY <1>14, <1>16, <2>0 DEF PutFails
  <2>2. TypeOK'
    BY <1>0, <2>0, <2>1 DEF TypeOK, Release, Finish, Goto, Phases, fileVars, adminFiles
  <2>3. LockInv'
    BY <1>0, <1>4, <2>0 DEF TypeOK, LockInv, Release, Finish, Goto, LockedOps, AdminCommands,
                            AdminPhases, WritePhases
  <2>4. PutInv'
    BY <1>0, <2>0, <2>1 DEF TypeOK, PutInv, Release, Finish, Goto
  <2>5. HeldInv'
    BY <1>0, <2>0, <2>1 DEF TypeOK, HeldInv, Release, Finish, Goto
  <2>6. MarkInv'
    BY <1>0, <2>0 DEF TypeOK, MarkInv, MarkCoversUse, Release, Finish, Goto, fileVars
  <2> QED BY <2>1, <2>2, <2>3, <2>4, <2>5, <2>6 DEF Inv
<1>17. ASSUME WriteSource(p) PROVE Inv'
  <2>1. TypeOK'
    BY <1>0, <1>17 DEF WriteSource, TypeOK, Goto, Stay, Phases, AdminPhases, syncVars, envVars
  <2>2. LockInv'
    BY <1>0, <1>17 DEF WriteSource, TypeOK, LockInv, Goto, Stay, AdminPhases, WritePhases
  <2>3. SentInv' /\ PutInv' /\ HeldInv' /\ MarkInv'
    BY <1>0, <1>17 DEF WriteSource, TypeOK, SentInv, OneSerialOnePayload, PutInv, HeldInv,
                       MarkInv, MarkCoversUse, Goto, syncVars, envVars
  <2> QED BY <2>1, <2>2, <2>3 DEF Inv
<1>18. ASSUME WriteBootstrap(p) PROVE Inv'
  <2>1. op[p] \in LockedOps /\ bootFile' \in Serial
    BY <1>0, <1>4, <1>18 DEF WriteBootstrap, AdminPhases, TypeOK
  <2> QED BY <1>0, <1>18, <2>1, ReleaseInv DEF WriteBootstrap, TypeOK, envVars
<1>19. ASSUME StageEdit(p) PROVE Inv'
  <2>1. op[p] \in LockedOps /\ bootFile' \in Serial /\ sourceFile' \in Directories
    BY <1>0, <1>4, <1>19 DEF StageEdit, AdminPhases, TypeOK, MaxOf
  <2> QED BY <1>0, <1>19, <2>1, ReleaseInv DEF StageEdit, TypeOK
<1> QED
  BY <1>2, <1>3, <1>6, <1>9, <1>10, <1>11, <1>12, <1>13, <1>15, <1>16, <1>17, <1>18, <1>19,
     PublishAssumption DEF AdminStep
-----------------------------------------------------------------------------
(* The environment, and all steps together.                                *)

\* Late uploads, restores, joins and crashes.
LEMMA EnvironmentInv ==
    ASSUME Inv,
           \/ LateWrite \/ RestoreSource
           \/ \E m \in Machine : Join(m)
           \/ \E p \in Proc : Crash(p) \/ CacheRefused(p)
    PROVE  Inv'
<1> USE DirectoryTypes, StateDirAssumption
<1>0. TypeOK /\ SentInv /\ PutInv /\ HeldInv /\ MarkInv /\ LockInv
  BY DEF Inv
<1>1. ASSUME LateWrite PROVE Inv'
  <2>1. TypeOK'
    BY <1>0, <1>1 DEF LateWrite, TypeOK, fileVars, adminFiles, procVars
  <2>2. LockInv' /\ SentInv' /\ PutInv'
    BY <1>0, <1>1 DEF LateWrite, LockInv, SentInv, OneSerialOnePayload, PutInv,
                      adminFiles, procVars
  <2>3. HeldInv' /\ MarkInv'
    BY <1>0, <1>1 DEF LateWrite, HeldInv, MarkInv, MarkCoversUse, fileVars, procVars
  <2> QED BY <2>1, <2>2, <2>3 DEF Inv
<1>2. ASSUME RestoreSource PROVE Inv'
  <2>1. Admin \in Node
    BY PublishAssumption
  <2>2. TypeOK'
    BY <1>0, <1>2, <2>1 DEF RestoreSource, TypeOK, syncVars, procVars
  <2>3. LockInv' /\ SentInv' /\ PutInv' /\ HeldInv' /\ MarkInv'
    BY <1>0, <1>2 DEF RestoreSource, LockInv, SentInv, OneSerialOnePayload, PutInv, HeldInv,
                      MarkInv, MarkCoversUse, syncVars, procVars
  <2> QED BY <2>2, <2>3 DEF Inv
<1>3. ASSUME NEW m \in Machine, Join(m) PROVE Inv'
  <2>1. PICK s \in 1 .. bootFile : WriteSerialFloor(m, s)
    BY <1>3 DEF Join
  <2>2. /\ s \in Serial /\ s > serialFile[m] /\ stateLock[m] = NoProc
        /\ serialFile' = [serialFile EXCEPT ![m] = s]
        /\ UNCHANGED <<cacheFile, stateFile, stateLock, pc, work, drop, sealed, applied, op,
                       adminFiles, fromCache, remote, fetchErr, adminLock, envVars>>
    BY <1>0, <1>3, <2>1, DirectoryAssumption
       DEF Join, WriteSerialFloor, StateLockFree, TypeOK, Serial
  <2>3. TypeOK'
    BY <1>0, <2>2 DEF TypeOK, adminFiles, envVars
  <2>4. LockInv' /\ SentInv' /\ PutInv' /\ HeldInv'
    BY <1>0, <2>2 DEF LockInv, SentInv, OneSerialOnePayload, PutInv, HeldInv, adminFiles, envVars
  <2>5. \A n \in Machine : serialFile[n] \in Serial /\ serialFile'[n] >= serialFile[n]
    BY <1>0, <2>2, DirectoryAssumption DEF TypeOK, Serial
  <2>6. MarkCoversUse'
    BY <1>0, <2>2, <2>3, <2>5, DirectoryAssumption DEF MarkInv, MarkCoversUse, TypeOK, Serial
  <2>7. ASSUME NEW q \in Proc, pc[q] \in {"ccache", "cstate"}
        PROVE  stateLock[host[q]] = q /\ serialFile'[host[q]] = work[q].serial
    BY <1>0, <2>2, <2>7 DEF MarkInv, TypeOK
  <2>8. ASSUME NEW q \in Proc, pc[q] = "apply"
        PROVE  work[q].serial <= serialFile'[host[q]]
    <3>1. host[q] \in Machine /\ work[q].serial \in Serial
      BY <1>0 DEF TypeOK
    <3> QED BY <1>0, <2>3, <2>5, <2>8, <3>1, DirectoryAssumption DEF MarkInv, TypeOK, Serial
  <2> QED BY <2>2, <2>3, <2>4, <2>6, <2>7, <2>8 DEF Inv, MarkInv
<1>4. \A m \in Machine : applied[m].serial <= serialFile[m]
  BY <1>0 DEF MarkInv, MarkCoversUse
<1>5. ASSUME NEW p \in Proc, Crash(p) PROVE Inv'
  <2>1. /\ remote' \in [Proc -> Directories]
        /\ fetchErr' \in [Proc -> {"none", "notfound", "other"}]
        /\ crashes' \in 0 .. MaxCrashes
    BY <1>0, <1>5, PublishAssumption DEF Crash, TypeOK
  <2> QED BY <1>0, <1>4, <1>5, <2>1, EndStep DEF Crash, TypeOK, adminFiles, fileVars
<1>6. ASSUME NEW p \in Proc, CacheRefused(p) PROVE Inv'
  <2>1. CASE op[p] \in LockedOps
    BY <1>0, <1>6, <2>1, ReleaseInv DEF CacheRefused, TypeOK, adminFiles, envVars
  <2>2. CASE op[p] \notin LockedOps
    BY <1>0, <1>4, <1>6, <2>2, EndStep
       DEF CacheRefused, TypeOK, syncVars, fileVars, adminFiles, envVars
  <2> QED BY <2>1, <2>2
<1> QED BY <1>1, <1>2, <1>3, <1>5, <1>6

\* A new network: `tincan init` has run and nothing was published.
LEMMA InitInv == Init => Inv
<1> SUFFICES ASSUME Init PROVE Inv
  OBVIOUS
<1> USE DirectoryTypes, DirectoryAssumption, StateDirAssumption, PublishAssumption
<1> USE DEF Init, StateDirInit, SyncInit
<1>1. TypeOK
  <2>1. sourceFile \in Directories /\ drop \in Directories /\ crashes \in 0 .. MaxCrashes
    OBVIOUS
  <2>2. serialFile \in [Machine -> Serial] /\ stateFile \in [Machine -> Serial]
    OBVIOUS
  <2>3. cacheFile \in [Machine -> Directories] /\ applied \in [Machine -> Directories]
    OBVIOUS
  <2>4. work \in [Proc -> Directories] /\ remote \in [Proc -> Directories]
    OBVIOUS
  <2>5. /\ pc \in [Proc -> Phases]
        /\ op \in [Proc -> LockedOps \cup SyncCommands \cup {"none"}]
        /\ fetchErr \in [Proc -> {"none", "notfound", "other"}]
    BY DEF Phases
  <2>6. fromCache \in [Proc -> BOOLEAN] /\ stateLock \in [Machine -> Proc \cup {NoProc}]
    OBVIOUS
  <2>7. /\ publishFile \in Serial /\ bootFile \in Serial /\ adminLock \in Proc \cup {NoProc}
        /\ sealed \subseteq Directories /\ inflight \subseteq Directories /\ staged \in BOOLEAN
    OBVIOUS
  <2> QED BY <2>1, <2>2, <2>3, <2>4, <2>5, <2>6, <2>7 DEF TypeOK
<1>2. LockInv
  BY DEF LockInv, LockedOps, AdminCommands, AdminPhases, WritePhases
<1>3. SentInv /\ PutInv /\ HeldInv
  BY DEF SentInv, OneSerialOnePayload, PutInv, HeldInv
<1>4. MarkInv
  BY DEF MarkInv, MarkCoversUse, NoDir
<1> QED BY <1>1, <1>2, <1>3, <1>4 DEF Inv

\* Every step preserves the invariant.
LEMMA NextInv == Inv /\ [Next]_vars => Inv'
<1> SUFFICES ASSUME Inv, [Next]_vars PROVE Inv'
  OBVIOUS
<1>1. CASE UNCHANGED vars
  BY <1>1 DEF vars, syncVars, adminFiles, procVars, envVars, Inv, TypeOK, LockInv, SentInv,
              OneSerialOnePayload, PutInv, HeldInv, MarkInv, MarkCoversUse
<1>2. CASE Next
  BY <1>2, SyncInv, AdminInv, EnvironmentInv DEF Next, AdminProc
<1> QED BY <1>1, <1>2

\* The invariant holds throughout.
LEMMA Invariance == Spec => []Inv
  BY InitInv, NextInv, PTL DEF Spec

-----------------------------------------------------------------------------
(* The theorems.                                                           *)

\* Every variable keeps its type: in particular no serial overflows past
\* MaxSerial, bumpDirectory's limit.
THEOREM TypeCorrect == Spec => []TypeOK
<1>1. Inv => TypeOK
  BY DEF Inv
<1> QED BY <1>1, Invariance, PTL

\* ReservePublishSerial does what publishDirectory's comment asks of it: no
\* serial is ever signed for two payloads.
THEOREM SerialsAreUnique == Spec => []OneSerialOnePayload
<1>1. Inv => OneSerialOnePayload
  BY DEF Inv, SentInv
<1> QED BY <1>1, Invariance, PTL

\* preparePublishSerial picks a serial above everything sent before.
THEOREM UploadsAreNewest == Spec => []UploadIsNewest
<1>1. Inv => UploadIsNewest
  BY DEF Inv, PutInv, UploadIsNewest
<1> QED BY <1>1, Invariance, PTL

\* The high-water mark of cache.Write covers the cache and what is applied.
THEOREM MarkCovers == Spec => []MarkCoversUse
<1>1. Inv => MarkCoversUse
  BY DEF Inv, MarkInv
<1> QED BY <1>1, Invariance, PTL

\* Machines at the same serial hold the same directory.
THEOREM Agreement == Spec => []CachesAgree
<1>1. ASSUME Inv, NEW m \in Machine, NEW n \in Machine,
             cacheFile[m].serial = cacheFile[n].serial
      PROVE  cacheFile[m] = cacheFile[n]
  <2>1. \A d \in sealed : d.serial # 0
    BY <1>1, DirectoryAssumption DEF Inv, SentInv, TypeOK, Directories, Serial
  <2>2. NoDir.serial = 0
    BY DEF NoDir
  <2>3. cacheFile[m] \in sealed \cup {NoDir} /\ cacheFile[n] \in sealed \cup {NoDir}
    BY <1>1 DEF Inv, HeldInv
  <2>4. \A d, e \in sealed : d.serial = e.serial => d = e
    BY <1>1 DEF Inv, SentInv, OneSerialOnePayload
  <2> HIDE DEF NoDir
  <2> QED BY <1>1, <2>1, <2>2, <2>3, <2>4
<1>2. Inv => CachesAgree
  BY <1>1 DEF CachesAgree
<1> QED BY <1>2, Invariance, PTL
\* cache.Write and WriteSerialFloor only raise the mark.
THEOREM MarkOnlyRises == Spec => MarkNeverLowers
<1> DEFINE Rises == \A m \in Machine : serialFile'[m] >= serialFile[m]
<1>1. ASSUME Inv, [Next]_vars PROVE [Rises]_vars
  <2>1. \A m \in Machine : serialFile[m] \in Serial
    BY <1>1 DEF Inv, TypeOK
  <2>2. CASE UNCHANGED serialFile
    BY <2>1, <2>2, DirectoryAssumption DEF Serial
  <2>3. ASSUME NEW p \in Proc, WriteSerial(p) PROVE Rises
    BY <1>1, <2>1, <2>3, DirectoryTypes, DirectoryAssumption, StateDirAssumption
       DEF WriteSerial, Inv, TypeOK, Serial
  <2>4. ASSUME NEW m \in Machine, Join(m) PROVE Rises
    BY <1>1, <2>1, <2>4, DirectoryAssumption DEF Join, WriteSerialFloor, Inv, TypeOK, Serial
  <2>5. ASSUME NEW p \in Proc, SyncStep(p) PROVE UNCHANGED serialFile \/ WriteSerial(p)
    BY <2>5 DEF SyncStep, SyncStart, SyncGetBlob, SyncGetFails, SyncAborts, SyncCheck,
                CacheWrite, WriteCache, WriteState, SyncDone, Apply, ReadCache, fileVars
  <2>6. ASSUME NEW p \in Proc, AdminStep(p) PROVE UNCHANGED serialFile
    BY <2>6 DEF AdminStep, AdminStart, ObserveStart, LockAdmin, Fetch, Refetch, fetchDirectory,
                LoadPublish, LoadEdit, LoadObserve, Prepare, ReservePublishSerial, Put, PutFails,
                WriteSource, WriteBootstrap, StageEdit, syncVars, fileVars
  <2>7. ASSUME NEW p \in Proc, Crash(p) \/ CacheRefused(p) PROVE UNCHANGED serialFile
    BY <2>7 DEF Crash, CacheRefused, syncVars, fileVars
  <2>8. ASSUME LateWrite \/ RestoreSource \/ UNCHANGED vars PROVE UNCHANGED serialFile
    BY <2>8 DEF LateWrite, RestoreSource, vars, syncVars, fileVars
  <2> QED BY <1>1, <2>2, <2>3, <2>4, <2>5, <2>6, <2>7, <2>8 DEF Next, AdminProc
<1> QED BY <1>1, Invariance, PTL DEF Spec, MarkNeverLowers

\* The fleet implements the abstract log: what is sent is an append-only log
\* of rising serials, and a machine's cache only moves forward through it.
THEOREM ImplementsLog == Spec => FollowsLog
<1>1. Init => Log!Init
  BY DEF Init, StateDirInit, SyncInit, Log!Init
<1>2. ASSUME Inv, [Next]_vars PROVE [Log!Next]_(Log!logVars)
  <2> USE DEF Log!logVars
  <2>1. CASE UNCHANGED <<sealed, cacheFile>>
    BY <2>1
  <2>2. ASSUME NEW p \in Proc, Send(p), UNCHANGED cacheFile PROVE Log!Next
    <3>1. /\ work[p] \in Directories /\ sealed' = sealed \cup {work[p]}
          /\ \A e \in sealed : e.serial < work[p].serial
      BY <1>2, <2>2 DEF Send, Inv, PutInv, TypeOK
    <3> QED BY <2>2, <3>1 DEF Log!Next, Log!Issue
  <2>3. ASSUME NEW p \in Proc, WriteCache(p), UNCHANGED sealed
        PROVE  Log!Next \/ UNCHANGED <<sealed, cacheFile>>
    <3> DEFINE m == host[p]
    <3>1. /\ m \in Machine /\ work[p] \in sealed
          /\ cacheFile[m].serial <= work[p].serial
          /\ cacheFile' = [cacheFile EXCEPT ![m] = work[p]]
      BY <1>2, <2>3, StateDirAssumption
         DEF WriteCache, Inv, HeldInv, MarkInv, MarkCoversUse
    <3>2. cacheFile[m].serial \in Serial /\ work[p].serial \in Serial
      BY <1>2, <3>1, DirectoryTypes DEF Inv, TypeOK
    <3>3. CASE cacheFile[m].serial < work[p].serial
      BY <2>3, <3>1, <3>3 DEF Log!Next, Log!Accept
    <3>4. CASE cacheFile[m].serial = work[p].serial
      <4>1. work[p].serial # 0
        BY <1>2, <3>1, <3>2, DirectoryAssumption DEF Inv, SentInv, Serial
      <4>2. cacheFile[m] \in sealed
        BY <1>2, <3>1, <3>4, <4>1 DEF Inv, HeldInv, NoDir
      <4>3. cacheFile[m] = work[p]
        BY <1>2, <3>1, <3>4, <4>2 DEF Inv, SentInv, OneSerialOnePayload
      <4> QED BY <1>2, <2>3, <3>1, <4>3 DEF Inv, TypeOK
    <3> QED BY <3>1, <3>2, <3>3, <3>4, DirectoryAssumption DEF Serial
  <2>4. ASSUME NEW p \in Proc, SyncStep(p)
        PROVE  UNCHANGED <<sealed, cacheFile>> \/ (WriteCache(p) /\ UNCHANGED sealed)
    BY <2>4 DEF SyncStep, SyncStart, SyncGetBlob, SyncGetFails, SyncAborts, SyncCheck,
                CacheWrite, WriteSerial, WriteState, SyncDone, Apply, ReadCache, fileVars
  <2>5. ASSUME NEW p \in Proc, AdminStep(p)
        PROVE  UNCHANGED <<sealed, cacheFile>> \/ (Send(p) /\ UNCHANGED cacheFile)
    BY <2>5 DEF AdminStep, AdminStart, ObserveStart, LockAdmin, Fetch, Refetch, fetchDirectory,
                LoadPublish, LoadEdit, LoadObserve, Prepare, ReservePublishSerial, Put, PutFails,
                WriteSource, WriteBootstrap, StageEdit, syncVars, fileVars
  <2>6. ASSUME NEW p \in Proc, Crash(p) \/ CacheRefused(p) PROVE UNCHANGED <<sealed, cacheFile>>
    BY <2>6 DEF Crash, CacheRefused, syncVars, fileVars
  <2>7. ASSUME NEW m \in Machine, Join(m) PROVE UNCHANGED <<sealed, cacheFile>>
    BY <2>7 DEF Join, WriteSerialFloor
  <2>8. ASSUME LateWrite \/ RestoreSource \/ UNCHANGED vars PROVE UNCHANGED <<sealed, cacheFile>>
    BY <2>8 DEF LateWrite, RestoreSource, vars, syncVars, fileVars
  <2> QED BY <1>2, <2>1, <2>2, <2>3, <2>4, <2>5, <2>6, <2>7, <2>8 DEF Next, AdminProc
<1> QED BY <1>1, <1>2, Invariance, PTL DEF Spec, FollowsLog, Log!Spec
=============================================================================

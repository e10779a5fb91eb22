------------------------------- MODULE Publish -------------------------------
(***************************************************************************)
(* The publishing protocol: the admin's commands (publish, add-node,        *)
(* remove-node, set-domain, with and without --no-publish), the daemon's    *)
(* endpoint observation, and the machines that sync from the drop.          *)
(*                                                                          *)
(* One machine publishes (doc/setup.md: "use one publishing machine").      *)
(* Its processes serialise on the admin lock (.admin.lock), which flock     *)
(* releases when a process dies.  An upload may fail without effect, fail   *)
(* although it was stored, or be stored after the command gave up on it.    *)
(* A write that returns an error ends the command just as a crash there     *)
(* does, so Crash stands for both.                                          *)
(***************************************************************************)
EXTENDS Sync

CONSTANTS Admin,        \* the publishing machine
          Commands,     \* the commands a process runs
          LateWrites,   \* may an abandoned upload still be stored?
          Restores,     \* may the working directory be restored or lost?
          MaxCrashes    \* bound on the processes that die

\* force is `publish --force`; edit and stage are add-node, remove-node and
\* set-domain, stage with --no-publish.
AdminCommands == {"publish", "force", "edit", "stage"}

SyncCommands == {"sync", "up", "daemon"}

ASSUME PublishAssumption ==
    /\ Admin \in Machine
    /\ Commands \in [Proc -> SUBSET (AdminCommands \cup SyncCommands)]
    /\ LateWrites \in BOOLEAN
    /\ Restores \in BOOLEAN
    /\ MaxCrashes \in Nat

VARIABLES sourceFile,    \* directory-source.bin: the working directory
          publishFile,   \* publish.serial: the highest reserved serial
          bootFile,      \* the highest serial in a bootstrap file so far
          adminLock,     \* holder of .admin.lock, or NoProc
          remote,        \* [Proc -> the fetched directory, or NoDir]
          fetchErr,      \* [Proc -> "none", "notfound" or "other"]
          inflight,      \* abandoned uploads the drop may still store
          staged,        \* does the working directory hold --no-publish edits
                         \* that were not uploaded since?
          crashes

syncVars == <<serialFile, cacheFile, stateFile, stateLock, drop, sealed, applied>>
adminFiles == <<sourceFile, publishFile, bootFile>>
procVars == <<pc, work, op, fromCache, remote, fetchErr>>
envVars == <<inflight, staged, crashes>>
vars == <<syncVars, adminFiles, procVars, adminLock, envVars>>

AdminProc == {p \in Proc : host[p] = Admin}

\* From taking the admin lock to releasing it; cwrite, ccache and cstate are
\* shared with syncs.
AdminPhases == {"fetch", "load", "stage", "refetch", "prep", "reserve",
                "put", "source", "boot"}

\* The operations that hold the admin lock.
LockedOps == AdminCommands \cup {"observe"}

Init ==
    /\ StateDirInit
    /\ SyncInit
    /\ pc = [p \in Proc |-> "idle"]
    /\ work = [p \in Proc |-> NoDir]
    /\ op = [p \in Proc |-> "none"]
    /\ sourceFile = InitDir(Admin)
    /\ publishFile = 0
    /\ bootFile = 1
    /\ adminLock = NoProc
    /\ remote = [p \in Proc |-> NoDir]
    /\ fetchErr = [p \in Proc |-> "none"]
    /\ inflight = {}
    /\ staged = FALSE
    /\ crashes = 0

\* The end of an admin command, with or without an error: unlock.
Release(p) ==
    /\ Finish(p)
    /\ adminLock' = NoProc
    /\ remote' = [remote EXCEPT ![p] = NoDir]
    /\ fetchErr' = [fetchErr EXCEPT ![p] = "none"]

Stay == UNCHANGED <<op, fromCache, adminLock, remote, fetchErr>>

-----------------------------------------------------------------------------
(* Taking the lock and reading.                                            *)

\* Fault: the admin lock is not exclusive.
LockAdminShared(p, o) ==
    /\ adminLock' = p
    /\ op' = [op EXCEPT ![p] = o]
    /\ Goto(p, "fetch")
    /\ UNCHANGED <<syncVars, adminFiles, work, fromCache, remote, fetchErr, envVars>>

LockAdmin(p, o) ==
    /\ adminLock = NoProc
    /\ adminLock' = p
    /\ op' = [op EXCEPT ![p] = o]
    /\ Goto(p, "fetch")
    /\ UNCHANGED <<syncVars, adminFiles, work, fromCache, remote, fetchErr, envVars>>

AdminStart(p, o) == pc[p] = "idle" /\ LockAdmin(p, o)

\* After applying, an admin's daemon observes; work[p] is what it synced.
ObserveStart(p) == pc[p] = "obslock" /\ LockAdmin(p, "observe")

\* fetchDirectory: a directory that opens, "not found", or another error.
fetchDirectory(p, next) ==
    /\ \/ \E d \in Readable :
             /\ Opens(Admin, d)
             /\ remote' = [remote EXCEPT ![p] = d]
             /\ fetchErr' = [fetchErr EXCEPT ![p] = "none"]
       \/ /\ NoDir \in Readable
          /\ remote' = [remote EXCEPT ![p] = NoDir]
          /\ fetchErr' = [fetchErr EXCEPT ![p] = "notfound"]
       \/ /\ remote' = [remote EXCEPT ![p] = NoDir]
          /\ fetchErr' = [fetchErr EXCEPT ![p] = "other"]
    /\ Goto(p, next)
    /\ UNCHANGED <<syncVars, adminFiles, work, op, fromCache, adminLock, envVars>>

Fetch(p) == pc[p] = "fetch" /\ fetchDirectory(p, "load")

\* saveAdminDirectory reads the drop again before it publishes.
Refetch(p) == pc[p] = "refetch" /\ fetchDirectory(p, "prep")

\* `publish` uploads the working directory as it is.
LoadPublish(p) ==
    /\ pc[p] = "load" /\ op[p] \in {"publish", "force"}
    /\ IF Missing(sourceFile)
       THEN Release(p)
       ELSE /\ work' = [work EXCEPT ![p] = sourceFile]
            /\ Goto(p, "prep")
            /\ Stay
    /\ UNCHANGED <<syncVars, adminFiles, envVars>>

\* add-node, remove-node and set-domain edit the newest directory known.
\* They fail without one, and on a name or flag that does not fit it.
LoadEdit(p) ==
    LET base == fetchAdminDirectory(sourceFile, remote[p], cacheFile[Admin]) IN
    /\ pc[p] = "load" /\ op[p] \in {"edit", "stage"}
    /\ \/ Release(p)
       \/ /\ ~Missing(base)
          /\ \E d \in Edits(base) : work' = [work EXCEPT ![p] = d]
          /\ Goto(p, IF op[p] = "stage" THEN "stage" ELSE "refetch")
          /\ Stay
    /\ UNCHANGED <<syncVars, adminFiles, envVars>>

\* Fault: observations are merged into the working directory.
LoadObserveSource(p) ==
    /\ pc[p] = "load" /\ op[p] = "observe"
    /\ IF \/ fetchErr[p] # "none"
          \/ remote[p].serial < work[p].serial
          \/ Missing(sourceFile)
          \/ pendingAdminChanges(sourceFile, remote[p])
       THEN Release(p)
       ELSE \E o \in Obs \ {sourceFile.obs} :
               /\ work' = [work EXCEPT ![p] = [sourceFile EXCEPT !.obs = o]]
               /\ Goto(p, "prep")
               /\ Stay
    /\ UNCHANGED <<syncVars, adminFiles, envVars>>

\* Fault: instead of skipping, observation fetches again until it can publish.
LoadObserveRetries(p) ==
    /\ pc[p] = "load" /\ op[p] = "observe"
    /\ Goto(p, "fetch")
    /\ Stay
    /\ UNCHANGED <<work, syncVars, adminFiles, envVars>>

\* runAdminObservation skips on a stale drop and on staged edits; otherwise
\* it merges what WireGuard sees into the published directory.
LoadObserve(p) ==
    /\ pc[p] = "load" /\ op[p] = "observe"
    /\ IF \/ fetchErr[p] # "none"
          \/ remote[p].serial < work[p].serial
          \/ Missing(sourceFile)
          \/ pendingAdminChanges(sourceFile, remote[p])
       THEN Release(p)
       ELSE \E o \in Obs :
               IF o = remote[p].obs
               THEN Release(p)
               ELSE /\ work' = [work EXCEPT ![p] = [remote[p] EXCEPT !.obs = o]]
                    /\ Goto(p, "prep")
                    /\ Stay
    /\ UNCHANGED <<syncVars, adminFiles, envVars>>

-----------------------------------------------------------------------------
(* Publishing.                                                             *)

\* Fault: the serial overflows.
PrepareUnchecked(p) ==
    LET floor == serialFloor(work[p], remote[p], serialFile[Admin], publishFile)
    IN
    /\ pc[p] = "prep"
    /\ IF reconcileAllowed(fetchErr[p], op[p] = "force") /\ Sealable(work[p])
       THEN /\ work' = [work EXCEPT ![p] = bumpDirectory(@, floor)]
            /\ Goto(p, "reserve")
            /\ Stay
       ELSE Release(p)
    /\ UNCHANGED <<syncVars, adminFiles, envVars>>

\* preparePublishSerial, and Seal, which fails without a recipient.
Prepare(p) ==
    LET floor == serialFloor(work[p], remote[p], serialFile[Admin], publishFile)
    IN
    /\ pc[p] = "prep"
    /\ IF /\ reconcileAllowed(fetchErr[p], op[p] = "force")
          /\ floor < MaxSerial
          /\ Sealable(work[p])
       THEN /\ work' = [work EXCEPT ![p] = bumpDirectory(@, floor)]
            /\ Goto(p, "reserve")
            /\ Stay
       ELSE Release(p)
    /\ UNCHANGED <<syncVars, adminFiles, envVars>>

\* Fault: the reservation is not stored.
ReserveForgotten(p) ==
    /\ pc[p] = "reserve"
    /\ StateLockFree(Admin)
    /\ IF work[p].serial <= publishFile
       THEN Release(p)
       ELSE Goto(p, "put") /\ UNCHANGED work /\ Stay
    /\ UNCHANGED <<syncVars, adminFiles, envVars>>

\* Fault: the reservation is kept in cache.serial.
ReserveInMark(p) ==
    /\ pc[p] = "reserve"
    /\ StateLockFree(Admin)
    /\ IF work[p].serial <= serialFile[Admin]
       THEN Release(p) /\ UNCHANGED serialFile
       ELSE /\ serialFile' = [serialFile EXCEPT ![Admin] = work[p].serial]
            /\ Goto(p, "put")
            /\ UNCHANGED work
            /\ Stay
    /\ UNCHANGED <<cacheFile, stateFile, stateLock, drop, sealed, applied,
                   adminFiles, envVars>>

\* Fault: the bootstrap file is written with the reservation.
ReserveInBoot(p) ==
    /\ pc[p] = "reserve"
    /\ StateLockFree(Admin)
    /\ work[p].serial > publishFile
    /\ publishFile' = work[p].serial
    /\ bootFile' = MaxOf(bootFile, work[p].serial)
    /\ Goto(p, "put")
    /\ Stay
    /\ UNCHANGED <<syncVars, work, sourceFile, envVars>>

\* ReservePublishSerial consumes the serial before the upload.
ReservePublishSerial(p) ==
    /\ pc[p] = "reserve"
    /\ StateLockFree(Admin)
    /\ IF work[p].serial <= publishFile
       THEN Release(p) /\ UNCHANGED publishFile
       ELSE /\ publishFile' = work[p].serial
            /\ Goto(p, "put")
            /\ UNCHANGED work
            /\ Stay
    /\ UNCHANGED <<syncVars, sourceFile, bootFile, envVars>>

\* The upload leaves this machine: from here on the blob may surface.
Send(p) ==
    /\ pc[p] = "put"
    /\ sealed' = sealed \cup {work[p]}
    /\ staged' = (staged /\ op[p] = "observe")

Put(p) ==
    /\ Send(p)
    /\ drop' = work[p]
    /\ Goto(p, "cwrite")
    /\ Stay
    /\ UNCHANGED <<fileVars, stateLock, applied, adminFiles, work, inflight, crashes>>

\* Put returns an error: stored all the same, stored later, or lost.
PutFails(p) ==
    /\ Send(p)
    /\ \/ drop' = work[p] /\ UNCHANGED inflight
       \/ LateWrites /\ UNCHANGED drop /\ inflight' = inflight \cup {work[p]}
       \/ UNCHANGED <<drop, inflight>>
    /\ Release(p)
    /\ UNCHANGED <<fileVars, stateLock, applied, adminFiles, crashes>>

\* cache.Write refuses a serial below the mark: the command fails there.
CacheRefused(p) ==
    /\ WriteRefused(p)
    /\ IF op[p] \in LockedOps
       THEN Release(p)
       ELSE Finish(p) /\ UNCHANGED <<adminLock, remote, fetchErr>>
    /\ UNCHANGED <<syncVars, adminFiles, envVars>>

\* cache.WriteSource after a publish.
WriteSource(p) ==
    /\ pc[p] = "source"
    /\ StateLockFree(Admin)
    /\ sourceFile' = work[p]
    /\ Goto(p, "boot")
    /\ Stay
    /\ UNCHANGED <<syncVars, publishFile, bootFile, work, envVars>>

\* netboot.json, the last write of publishDirectory.
WriteBootstrap(p) ==
    /\ pc[p] = "boot"
    /\ bootFile' = work[p].serial
    /\ Release(p)
    /\ UNCHANGED <<syncVars, sourceFile, publishFile, envVars>>

\* --no-publish: save the working directory under its old serial, which
\* `add-node --bootstrap` puts in the new node's bootstrap file.  What the
\* command leaves to be published is an edit: not a set-domain to the domain
\* that was set already, and not one that restores what is in the drop.
StageEdit(p) ==
    LET base == fetchAdminDirectory(sourceFile, remote[p], cacheFile[Admin]) IN
    /\ pc[p] = "stage"
    /\ StateLockFree(Admin)
    /\ sourceFile' = work[p]
    /\ staged' = (/\ staged \/ ~SameContent(work[p], base)
                  /\ ~SameContent(work[p], drop))
    /\ bootFile' \in {bootFile, MaxOf(bootFile, work[p].serial)}
    /\ Release(p)
    /\ UNCHANGED <<syncVars, publishFile, inflight, crashes>>

-----------------------------------------------------------------------------
(* The environment.                                                        *)

\* An upload whose command has given up reaches the drop.
LateWrite ==
    /\ \E d \in inflight : drop' = d /\ inflight' = inflight \ {d}
    /\ UNCHANGED <<fileVars, stateLock, sealed, applied, adminFiles, procVars,
                   adminLock, staged, crashes>>

\* The operator restores an old working directory, or loses it.
RestoreSource ==
    /\ Restores
    /\ adminLock = NoProc
    /\ sourceFile' \in {NoDir, InitDir(Admin)} \cup sealed
    /\ staged' = FALSE
    /\ UNCHANGED <<syncVars, publishFile, bootFile, procVars, adminLock,
                   inflight, crashes>>

\* `tincan join` with a bootstrap made now or earlier.
Join(m) ==
    /\ \E s \in 1 .. bootFile : WriteSerialFloor(m, s)
    /\ UNCHANGED <<drop, sealed, applied, adminFiles, op, fromCache, remote,
                   fetchErr, adminLock, envVars>>

\* A process dies anywhere; flock releases what it held.
Crash(p) ==
    /\ crashes < MaxCrashes
    /\ pc[p] # "idle"
    /\ crashes' = crashes + 1
    /\ Finish(p)
    /\ remote' = [remote EXCEPT ![p] = NoDir]
    /\ fetchErr' = [fetchErr EXCEPT ![p] = "none"]
    /\ stateLock' = Unlocked(stateLock, p)
    /\ adminLock' = IF adminLock = p THEN NoProc ELSE adminLock
    /\ UNCHANGED <<fileVars, drop, sealed, applied, adminFiles, inflight, staged>>

-----------------------------------------------------------------------------
(* Syncs of Sync.tla, with the admin's variables left alone.               *)

AfterApply(p) == IF op[p] = "daemon" /\ host[p] = Admin THEN "obslock" ELSE "idle"

SyncStep(p) ==
    /\ \/ \E o \in Commands[p] \cap SyncCommands : SyncStart(p, o)
       \/ SyncGetBlob(p)
       \/ SyncGetFails(p)
       \/ SyncAborts(p)
       \/ SyncCheck(p)
       \/ CacheWrite(p)
       \/ SyncDone(p)
       \/ Apply(p, AfterApply(p))
       \/ "up" \in Commands[p] /\ ReadCache(p)
    /\ UNCHANGED <<adminFiles, adminLock, remote, fetchErr, envVars>>

AdminStep(p) ==
    \/ \E o \in Commands[p] \cap AdminCommands : AdminStart(p, o)
    \/ ObserveStart(p)
    \/ Fetch(p)
    \/ LoadPublish(p)
    \/ LoadEdit(p)
    \/ LoadObserve(p)
    \/ Refetch(p)
    \/ Prepare(p)
    \/ ReservePublishSerial(p)
    \/ Put(p)
    \/ PutFails(p)
    \/ WriteSource(p)
    \/ WriteBootstrap(p)
    \/ StageEdit(p)

Next ==
    \/ \E p \in Proc : SyncStep(p) \/ CacheRefused(p) \/ Crash(p)
    \/ \E p \in AdminProc : AdminStep(p)
    \/ LateWrite
    \/ RestoreSource
    \/ \E m \in Machine \ {Admin} : Join(m)

Spec == Init /\ [][Next]_vars

\* Every process that runs keeps running.  A drop that is asked again and
\* again answers in the end: the daemon retries every interval.  A process
\* that waits for a lock gets it in the end: every holder lets go, and the
\* daemon sleeps between iterations (waitForReconcile), so flock finds the
\* lock free.  Nothing is assumed of when shell commands start, of crashes, of
\* joins or of a restore.
Fairness ==
    /\ \A p \in Proc :
          /\ WF_vars(SyncStep(p))
          /\ SF_vars(pc[p] = "cwrite" /\ (SyncStep(p) \/ CacheRefused(p)))
          /\ SF_vars(pc[p] = "get" /\ SyncStep(p) /\ pc'[p] = "check")
    /\ \A p \in AdminProc : SF_vars(pc[p] # "idle" /\ AdminStep(p))

LiveSpec == Spec /\ Fairness

-----------------------------------------------------------------------------
(* Properties.                                                             *)

Phases == {"idle", "get", "check", "synced", "apply", "obslock"}
            \cup WritePhases \cup AdminPhases

TypeOK ==
    /\ serialFile \in [Machine -> Serial]
    /\ cacheFile \in [Machine -> Directories]
    /\ stateFile \in [Machine -> Serial]
    /\ stateLock \in [Machine -> Proc \cup {NoProc}]
    /\ drop \in Directories
    /\ sealed \subseteq Directories
    /\ applied \in [Machine -> Directories]
    /\ pc \in [Proc -> Phases]
    /\ work \in [Proc -> Directories]
    /\ op \in [Proc -> LockedOps \cup SyncCommands \cup {"none"}]
    /\ fromCache \in [Proc -> BOOLEAN]
    /\ sourceFile \in Directories
    /\ publishFile \in Serial
    /\ bootFile \in Serial
    /\ adminLock \in Proc \cup {NoProc}
    /\ remote \in [Proc -> Directories]
    /\ fetchErr \in [Proc -> {"none", "notfound", "other"}]
    /\ inflight \subseteq Directories
    /\ staged \in BOOLEAN
    /\ crashes \in 0 .. MaxCrashes

\* reconcilePublishSerial and ReservePublishSerial: no two different payloads
\* are ever signed under one serial, whatever the drop answers, however an
\* upload fails, and wherever a process dies.
OneSerialOnePayload ==
    \A d, e \in sealed : d.serial = e.serial => d = e

\* preparePublishSerial: an upload about to leave carries a serial above every
\* one that left before, so no machine refuses it as a rollback of an upload
\* whose outcome the admin never learned.
UploadIsNewest ==
    \A p \in Proc : pc[p] = "put" => \A d \in sealed : d.serial < work[p].serial

\* cache.Write and WriteSerialFloor: no step, of any two racing processes,
\* lowers a machine's rollback high-water mark.
MarkNeverLowers ==
    [][\A m \in Machine : serialFile'[m] >= serialFile[m]]_vars

\* cache.Write orders its writes, and runSyncOnce returns only after it, so
\* that, crash or not, neither the cache nor WireGuard is ever ahead of the
\* mark that protects it from a rollback.
MarkCoversUse ==
    \A m \in Machine :
        cacheFile[m].serial <= serialFile[m] /\ applied[m].serial <= serialFile[m]

\* A mark only ever comes from a directory that was sent (or from init's
\* bootstrap): no crash or refused upload leaves a machine waiting for a
\* serial that was merely reserved.
MarkWasSent ==
    \A m \in Machine :
        serialFile[m] > 1 => \E d \in sealed : d.serial >= serialFile[m]

\* Two machines at the same serial hold the same directory.
CachesAgree ==
    \A m, n \in Machine :
        cacheFile[m].serial = cacheFile[n].serial => cacheFile[m] = cacheFile[n]

\* runAdminObservation publishes "the latest published membership, never a
\* restored older source": against a drop that answers with what it holds, the
\* upload has the members and the domain of the directory it replaces, whatever
\* was restored, staged or half published on this machine.
ObservationKeepsMembership ==
    \A p \in Proc : pc[p] = "put" /\ op[p] = "observe" => SameContent(work[p], drop)

\* runAdminObservation skips while pendingAdminChanges: it never uploads, and
\* so never overwrites the working directory, over edits staged with
\* --no-publish.
\* doc/networking.md: "Observation pauses while the admin has deferred
\* (`--no-publish`) edits in its working directory."
ObservationPausesWhileStaged ==
    \A p \in Proc : pc[p] = "put" /\ op[p] = "observe" => ~staged

\* runSyncOnce on an unreachable drop: the cached directory it falls back to
\* is one that cache.Write will take.
\* README.md: "Nodes cache the directory, so a temporary dead-drop outage does
\* not take down the VPN."
CacheFallbackAccepted ==
    \A p \in Proc :
        fromCache[p] /\ pc[p] = "cwrite" => work[p].serial >= serialFile[host[p]]

\* The daemon loop: once publishing stops, WireGuard on every member that runs
\* a daemon ends up with the directory in the drop, and keeps it.
MembersConverge ==
    \A p \in Proc : "daemon" \in Commands[p] =>
        <>[](host[p] \in recipientsOf(drop) => applied[host[p]] = drop)

\* No admin command or observation holds the admin lock for ever.
AdminLockReleased == []<>(adminLock = NoProc)

\* The fleet implements the log of DirectoryLog: the directories sent are the
\* log, a machine's cache is its view.
Log == INSTANCE DirectoryLog WITH log <- sealed, view <- cacheFile

FollowsLog == Log!Spec
=============================================================================

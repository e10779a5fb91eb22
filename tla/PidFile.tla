------------------------------- MODULE PidFile -------------------------------
(***************************************************************************)
(* The daemon process and its pid file: internal/daemon, the daemon part of *)
(* `tincan up --daemon` and `tincan down --stop`.                           *)
(*                                                                          *)
(* `up --daemon` runs a parent that locks the pid file, forks the daemon,   *)
(* records its pid and unlocks; the daemon then locks the file itself, keeps *)
(* the lock while it runs, and unlocks and unlinks on the way out.  A flock  *)
(* belongs to an inode, not to a name, so files are inodes: name is the one  *)
(* the path leads to.  Processes are their pids, which are not reused.       *)
(***************************************************************************)
EXTENDS Naturals

CONSTANTS Parent,     \* `tincan up --daemon` commands
          Child,      \* the daemons they fork
          child,      \* [Parent -> Child]
          Stopper,    \* `tincan down --stop` commands
          None,
          MaxInode,   \* bound on the files created
          Faults      \* may processes be killed and writes fail?

Daemonic == Parent \cup Child
Proc == Daemonic \cup Stopper

ASSUME PidFileAssumption ==
    /\ Parent \cap Child = {} /\ Daemonic \cap Stopper = {}
    /\ child \in [Parent -> Child]
    /\ \A p, q \in Parent : child[p] = child[q] => p = q
    /\ None \notin Proc
    /\ MaxInode \in Nat
    /\ Faults \in BOOLEAN

\* Inode 0 is no file.  Every creation but the first follows a removal, and a
\* process removes at most once, so MaxInode need not exceed the number of
\* parents and children plus one.
Inode == 1 .. MaxInode

VARIABLES name,       \* the inode at the path, 0 when there is none
          created,    \* inodes created so far
          content,    \* [Inode -> the recorded pid, None when empty]
          lock,       \* [Inode -> holder of its flock, or None]
          pc,         \* [Proc -> phase]
          fd,         \* [Proc -> open inode, 0 when none]
          term,       \* daemons with a SIGTERM they have not seen yet
          target,     \* [Stopper -> the pid it read]
          iface,      \* is the WireGuard interface up?
          told        \* [Stopper -> daemons reported started before it began]

files == <<name, created, content, lock>>
vars == <<files, pc, fd, term, target, iface, told>>

\* Phases in which a process holds the lock of the file it has open.
Holding == {"trunc", "write", "spawn", "trunc2", "write2", "close", "failed",
            "run", "unlock"}

Init ==
    /\ name = 0 /\ created = 0
    /\ content = [i \in Inode |-> None]
    /\ lock = [i \in Inode |-> None]
    /\ pc = [p \in Proc |-> IF p \in Child THEN "unborn" ELSE "idle"]
    /\ fd = [p \in Proc |-> 0]
    /\ term = {}
    /\ target = [s \in Stopper |-> None]
    /\ iface = FALSE
    /\ told = [s \in Stopper |-> {}]

Goto(p, label) == pc' = [pc EXCEPT ![p] = label]

\* Closing a file drops the flock taken through it.
Unlocked(p) == [i \in Inode |-> IF lock[i] = p THEN None ELSE lock[i]]

-----------------------------------------------------------------------------
(* AcquirePIDFile, AcquirePIDFileRetry.                                    *)

\* open(O_RDWR|O_CREATE).
Open(p) ==
    /\ p \in Daemonic /\ pc[p] \in {"idle", "born"}
    /\ IF name # 0
       THEN fd' = [fd EXCEPT ![p] = name] /\ UNCHANGED <<name, created>>
       ELSE /\ created < MaxInode
            /\ created' = created + 1
            /\ name' = created + 1
            /\ fd' = [fd EXCEPT ![p] = created + 1]
    /\ Goto(p, "lock")
    /\ UNCHANGED <<content, lock, term, target, iface, told>>

\* flock(LOCK_EX|LOCK_NB).
Lock(p) ==
    /\ pc[p] = "lock"
    /\ lock[fd[p]] = None
    /\ lock' = [lock EXCEPT ![fd[p]] = p]
    /\ Goto(p, "trunc")
    /\ UNCHANGED <<name, created, content, fd, term, target, iface, told>>

\* The file is locked: a parent fails, a daemon tries again for two seconds.
LockBusy(p) ==
    /\ pc[p] = "lock"
    /\ lock[fd[p]] # None
    /\ fd' = [fd EXCEPT ![p] = 0]
    /\ \/ Goto(p, "gone")
       \/ p \in Child /\ Goto(p, "born")
    /\ UNCHANGED <<files, term, target, iface, told>>

\* PIDFile.Write truncates and then writes.
Truncate(p) ==
    /\ pc[p] \in {"trunc", "trunc2"}
    /\ content' = [content EXCEPT ![fd[p]] = None]
    /\ Goto(p, IF pc[p] = "trunc" THEN "write" ELSE "write2")
    /\ UNCHANGED <<name, created, lock, fd, term, target, iface, told>>

WriteOwn(p) ==
    /\ pc[p] = "write"
    /\ content' = [content EXCEPT ![fd[p]] = p]
    /\ Goto(p, IF p \in Parent THEN "spawn" ELSE "run")
    /\ UNCHANGED <<name, created, lock, fd, term, target, iface, told>>

\* A failing Write inside AcquirePIDFile gives the file up with CloseRemove.  It
\* is the Sync that fails when the pid has been written.
WriteFails(p) ==
    /\ Faults
    /\ \/ pc[p] \in {"trunc", "write"} /\ UNCHANGED content
       \/ pc[p] = "write" /\ content' = [content EXCEPT ![fd[p]] = p]
    /\ Goto(p, "unlock")
    /\ UNCHANGED <<name, created, lock, fd, term, target, iface, told>>

-----------------------------------------------------------------------------
(* Start, in the parent.                                                   *)

\* Fault: the parent unlocks before it records the child.
SpawnUnlocks(p) ==
    /\ pc[p] = "spawn"
    /\ pc' = [pc EXCEPT ![p] = "trunc2", ![child[p]] = "born"]
    /\ lock' = Unlocked(p)
    /\ UNCHANGED <<name, created, content, fd, term, target, iface, told>>

Spawn(p) ==
    /\ pc[p] = "spawn"
    /\ \/ pc' = [pc EXCEPT ![p] = "trunc2", ![child[p]] = "born"]
       \/ Faults /\ Goto(p, "failed")
    /\ UNCHANGED <<files, fd, term, target, iface, told>>

\* proc.Release may fail afterwards: the command fails, and the daemon lives.
WriteChild(p) ==
    /\ pc[p] = "write2"
    /\ content' = [content EXCEPT ![fd[p]] = child[p]]
    /\ \/ Goto(p, "close")
       \/ Faults /\ Goto(p, "failed")
    /\ UNCHANGED <<name, created, lock, fd, term, target, iface, told>>

\* The parent cannot record the child, or cannot Sync the record: kill the child,
\* whatever it does by now.
WriteChildFails(p) ==
    LET c == child[p] IN
    /\ Faults
    /\ \/ pc[p] \in {"trunc2", "write2"} /\ UNCHANGED content
       \/ pc[p] = "write2" /\ content' = [content EXCEPT ![fd[p]] = c]
    /\ pc' = [pc EXCEPT ![p] = "failed", ![c] = "gone"]
    /\ fd' = [fd EXCEPT ![c] = 0]
    /\ term' = term \ {c}
    /\ lock' = Unlocked(c)
    /\ UNCHANGED <<name, created, target, iface, told>>

\* The deferred Close, and the end of the command: "started" or not.
Close(p) ==
    /\ pc[p] \in {"close", "failed"}
    /\ lock' = Unlocked(p)
    /\ fd' = [fd EXCEPT ![p] = 0]
    /\ Goto(p, IF pc[p] = "close" THEN "started" ELSE "gone")
    /\ UNCHANGED <<name, created, content, term, target, iface, told>>

-----------------------------------------------------------------------------
(* The daemon.                                                             *)

\* An iteration brings the interface up.
Reconcile(c) ==
    /\ c \in Child /\ pc[c] = "run"
    /\ iface' = TRUE
    /\ UNCHANGED <<files, pc, fd, term, target, told>>

\* Between iterations the loop sees the signal, and returns.
SeeTerm(c) ==
    /\ pc[c] = "run" /\ c \in term
    /\ Goto(c, "unlock")
    /\ term' = term \ {c}
    /\ UNCHANGED <<files, fd, target, iface, told>>

\* CloseRemove: unlock and close, then unlink whatever the path leads to.
CloseRemoveUnlock(p) ==
    /\ pc[p] = "unlock"
    /\ lock' = Unlocked(p)
    /\ fd' = [fd EXCEPT ![p] = 0]
    /\ Goto(p, "remove")
    /\ UNCHANGED <<name, created, content, term, target, iface, told>>

CloseRemoveUnlink(p) ==
    /\ pc[p] = "remove"
    /\ name' = 0
    /\ Goto(p, "gone")
    /\ UNCHANGED <<created, content, lock, fd, term, target, iface, told>>

-----------------------------------------------------------------------------
(* Stop and `down --stop`.                                                 *)

End(s, label) ==
    /\ Goto(s, label)
    /\ fd' = [fd EXCEPT ![s] = 0]

\* ReadPID; told remembers the daemons that count as started at this point.
StopRead(s) ==
    /\ s \in Stopper /\ pc[s] = "idle"
    /\ told' = [told EXCEPT ![s] = {child[p] : p \in {q \in Parent : pc[q] = "started"}}]
    /\ IF name = 0 THEN Goto(s, "teardown") /\ UNCHANGED target
       ELSE IF content[name] = None THEN Goto(s, "error") /\ UNCHANGED target
       ELSE Goto(s, "probe") /\ target' = [target EXCEPT ![s] = content[name]]
    /\ UNCHANGED <<files, fd, term, iface>>

\* pidFileUnlocked opens the file again, which may have gone.
ProbeOpen(s) ==
    /\ pc[s] = "probe"
    /\ IF name = 0
       THEN Goto(s, "error") /\ UNCHANGED fd
       ELSE Goto(s, "flock") /\ fd' = [fd EXCEPT ![s] = name]
    /\ UNCHANGED <<files, term, target, iface, told>>

\* The lock is free: nothing to stop, once the probe has unlocked again.
ProbeFree(s) ==
    /\ pc[s] = "flock" /\ lock[fd[s]] = None
    /\ lock' = [lock EXCEPT ![fd[s]] = s]
    /\ Goto(s, "free")
    /\ UNCHANGED <<name, created, content, fd, term, target, iface, told>>

ProbeUnlock(s) ==
    /\ pc[s] = "free"
    /\ lock' = Unlocked(s)
    /\ End(s, "teardown")
    /\ UNCHANGED <<name, created, content, term, target, iface, told>>

ProbeHeld(s) ==
    /\ pc[s] = "flock" /\ lock[fd[s]] # None
    /\ End(s, "alive")
    /\ UNCHANGED <<files, term, target, iface, told>>

Alive(p) == pc[p] \notin {"unborn", "gone", "started"}

\* PIDAlive, then.
CheckAlive(s) ==
    /\ pc[s] = "alive"
    /\ Goto(s, IF Alive(target[s]) THEN "kill" ELSE "teardown")
    /\ UNCHANGED <<files, fd, term, target, iface, told>>

\* Fault: the signal counts as caught whatever the process does.
KillCaught(s) ==
    /\ pc[s] = "kill"
    /\ Goto(s, "wait")
    /\ term' = term \cup {target[s]}
    /\ UNCHANGED <<files, fd, target, iface, told>>

\* SIGTERM.  Only the loop catches it; elsewhere the process dies of it.
Kill(s) ==
    LET t == target[s] IN
    /\ pc[s] = "kill"
    /\ IF ~Alive(t) THEN Goto(s, "error") /\ UNCHANGED <<term, lock, fd>>
       ELSE IF pc[t] = "run"
       THEN Goto(s, "wait") /\ term' = term \cup {t} /\ UNCHANGED <<lock, fd>>
       ELSE /\ pc' = [pc EXCEPT ![s] = "wait", ![t] = "gone"]
            /\ lock' = Unlocked(t)
            /\ fd' = [fd EXCEPT ![t] = 0]
            /\ UNCHANGED term
    /\ UNCHANGED <<name, created, content, target, iface, told>>

\* Poll until the process is gone, or the wait is over.
Wait(s) ==
    /\ pc[s] = "wait"
    /\ Goto(s, IF Alive(target[s]) THEN "error" ELSE "teardown")
    /\ UNCHANGED <<files, fd, term, target, iface, told>>

Teardown(s) ==
    /\ pc[s] = "teardown"
    /\ iface' = FALSE
    /\ Goto(s, "down")
    /\ UNCHANGED <<files, fd, term, target, told>>

-----------------------------------------------------------------------------
(* The operating system.                                                   *)

\* SIGKILL, a crash or a reboot of the program: the locks go, the file stays.
Crash(p) ==
    /\ Faults
    /\ p \in Daemonic /\ Alive(p) /\ pc[p] # "idle"
    /\ Goto(p, "gone")
    /\ fd' = [fd EXCEPT ![p] = 0]
    /\ lock' = Unlocked(p)
    /\ term' = term \ {p}
    /\ UNCHANGED <<name, created, content, target, iface, told>>

AcquireStep(p) ==
    \/ Open(p) \/ Lock(p) \/ LockBusy(p) \/ Truncate(p) \/ WriteOwn(p) \/ WriteFails(p)
    \/ CloseRemoveUnlock(p) \/ CloseRemoveUnlink(p)

StartStep(p) == Spawn(p) \/ WriteChild(p) \/ WriteChildFails(p) \/ Close(p)

StopStep(s) ==
    \/ StopRead(s) \/ ProbeOpen(s) \/ ProbeFree(s) \/ ProbeUnlock(s) \/ ProbeHeld(s)
    \/ CheckAlive(s) \/ Kill(s) \/ Wait(s) \/ Teardown(s)

Next ==
    \/ \E p \in Daemonic : AcquireStep(p) \/ Crash(p)
    \/ \E p \in Parent : StartStep(p)
    \/ \E c \in Child : Reconcile(c) \/ SeeTerm(c)
    \/ \E s \in Stopper : StopStep(s)

Spec == Init /\ [][Next]_vars

-----------------------------------------------------------------------------
(* Properties.                                                             *)

Phases == Holding \cup {"unborn", "idle", "born", "lock", "started",
                        "remove", "gone", "probe", "flock", "free",
                        "alive", "kill", "wait", "teardown", "down", "error"}

TypeOK ==
    /\ name \in {0} \cup Inode
    /\ created \in 0 .. MaxInode
    /\ content \in [Inode -> Daemonic \cup {None}]
    /\ lock \in [Inode -> Proc \cup {None}]
    /\ pc \in [Proc -> Phases]
    /\ fd \in [Proc -> {0} \cup Inode]
    /\ term \subseteq Child
    /\ target \in [Stopper -> Daemonic \cup {None}]
    /\ iface \in BOOLEAN
    /\ told \in [Stopper -> SUBSET Child]

\* Start and AcquirePIDFile write the pid file only under its lock, so the file
\* a running daemon holds names that daemon, however many starts, stops and
\* crashes overlap.  Stop relies on it to signal the right process.
RecordsItsDaemon ==
    \A c \in Child : pc[c] = "run" => content[fd[c]] = c

\* down.go: "Stop the daemon before teardown so its next reconcile -- or an
\* in-flight one -- can't bring the interface back up after we drop it".  A
\* daemon reported as started before `down --stop` began does not raise the
\* interface after it.
DownStaysDown ==
    [][\A c \in Child, s \in Stopper :
          pc[s] = "down" /\ c \in told[s] => ~Reconcile(c)]_vars
=============================================================================

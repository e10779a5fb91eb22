---------------------------- MODULE PidFileProof -----------------------------
(***************************************************************************)
(* The pid file a daemon holds names that daemon: proved for any number of  *)
(* starts, stops and crashes.                                               *)
(*                                                                          *)
(* The invariant adds to RecordsItsDaemon what makes it inductive: whoever  *)
(* is in a writing phase holds the flock of the file it writes, so no other *)
(* process writes the file of a running daemon.                             *)
(***************************************************************************)
EXTENDS PidFile, TLAPS

\* A process that waits for a lock, probes it or holds it has a file open, and
\* holds it where it should.
HoldInv ==
    /\ \A p \in Proc : pc[p] \in {"lock", "flock"} => fd[p] \in Inode
    /\ \A p \in Proc : pc[p] \in Holding \cup {"free"} =>
                          fd[p] \in Inode /\ lock[fd[p]] = p

\* Each phase belongs to a kind of process; a stop past its read has a target.
RoleInv ==
    /\ \A p \in Parent : pc[p] # "run"
    /\ \A s \in Stopper : pc[s] \in {"idle", "probe", "flock", "free", "alive", "kill",
                                     "wait", "teardown", "down", "error"}
    /\ \A s \in Stopper : pc[s] \in {"probe", "flock", "free", "alive", "kill", "wait"}
                             => target[s] \in Daemonic

Inv == TypeOK /\ HoldInv /\ RoleInv /\ RecordsItsDaemon

LEMMA InitInv == Init => Inv
<1> SUFFICES ASSUME Init PROVE Inv
  OBVIOUS
<1> USE PidFileAssumption DEF Init, Proc, Daemonic
<1>1. TypeOK
  <2>1. pc \in [Proc -> Phases]
    BY DEF Phases
  <2>2. name \in {0} \cup Inode /\ created \in 0 .. MaxInode
    OBVIOUS
  <2>3. term \subseteq Child /\ told \in [Stopper -> SUBSET Child] /\ iface \in BOOLEAN
    OBVIOUS
  <2>4. fd \in [Proc -> {0} \cup Inode] /\ target \in [Stopper -> Daemonic \cup {None}]
    OBVIOUS
  <2>5. content \in [Inode -> Daemonic \cup {None}] /\ lock \in [Inode -> Proc \cup {None}]
    OBVIOUS
  <2> QED BY <2>1, <2>2, <2>3, <2>4, <2>5 DEF TypeOK
<1>2. HoldInv /\ RecordsItsDaemon
  BY DEF HoldInv, RecordsItsDaemon, Holding
<1>3. RoleInv
  BY DEF RoleInv
<1> QED BY <1>1, <1>2, <1>3 DEF Inv

LEMMA AcquireInv ==
    ASSUME Inv, NEW p \in Daemonic, AcquireStep(p) PROVE Inv'
<1> USE PidFileAssumption DEF Inv, TypeOK, HoldInv, RoleInv, RecordsItsDaemon, Phases, Holding,
        Proc, Daemonic, Inode, Goto, files
<1>1. CASE Open(p) BY <1>1 DEF Open
<1>2. CASE Lock(p) BY <1>2 DEF Lock
<1>3. CASE LockBusy(p)
  <2>1. CASE Goto(p, "gone") BY <1>3, <2>1 DEF LockBusy
  <2>2. CASE p \in Child /\ Goto(p, "born") BY <1>3, <2>2 DEF LockBusy
  <2> QED BY <1>3, <2>1, <2>2 DEF LockBusy
<1>4. CASE Truncate(p) BY <1>4 DEF Truncate
<1>5. CASE WriteOwn(p) BY <1>5 DEF WriteOwn
<1>6. CASE WriteFails(p)
  <2>1. CASE UNCHANGED content BY <1>6, <2>1 DEF WriteFails
  <2>2. CASE content' = [content EXCEPT ![fd[p]] = p]
    <3>1. TypeOK' BY <1>6, <2>2 DEF WriteFails
    <3>2. HoldInv' BY <1>6 DEF WriteFails
    <3>3. RoleInv' BY <1>6 DEF WriteFails
    <3>4. RecordsItsDaemon' BY <1>6, <2>2 DEF WriteFails
    <3> QED BY <3>1, <3>2, <3>3, <3>4
  <2> QED BY <1>6, <2>1, <2>2 DEF WriteFails
<1>7. CASE CloseRemoveUnlock(p) BY <1>7 DEF CloseRemoveUnlock, Unlocked
<1>8. CASE CloseRemoveUnlink(p) BY <1>8 DEF CloseRemoveUnlink
<1> QED BY <1>1, <1>2, <1>3, <1>4, <1>5, <1>6, <1>7, <1>8 DEF AcquireStep

LEMMA StartInv ==
    ASSUME Inv, NEW p \in Parent, StartStep(p) PROVE Inv'
<1> USE PidFileAssumption DEF Inv, TypeOK, HoldInv, RoleInv, RecordsItsDaemon, Phases, Holding,
        Proc, Daemonic, Inode, Goto, files
<1>1. CASE Spawn(p)
  <2>1. CASE pc' = [pc EXCEPT ![p] = "trunc2", ![child[p]] = "born"]
    <3>0. child[p] \in Child /\ child[p] # p
      OBVIOUS
    <3>1. TypeOK' BY <1>1, <2>1, <3>0 DEF Spawn
    <3>2. HoldInv' BY <1>1, <2>1, <3>0 DEF Spawn
    <3>3. RoleInv' BY <1>1, <2>1, <3>0 DEF Spawn
    <3>4. RecordsItsDaemon' BY <1>1, <2>1, <3>0 DEF Spawn
    <3> QED BY <3>1, <3>2, <3>3, <3>4
  <2>2. CASE Goto(p, "failed")
    BY <1>1, <2>2 DEF Spawn
  <2> QED BY <1>1, <2>1, <2>2 DEF Spawn
<1>2. CASE WriteChild(p)
  <2>1. CASE Goto(p, "close") BY <1>2, <2>1 DEF WriteChild
  <2>2. CASE Goto(p, "failed") BY <1>2, <2>2 DEF WriteChild
  <2> QED BY <1>2, <2>1, <2>2 DEF WriteChild
<1>3. CASE WriteChildFails(p)
  <2>1. child[p] \in Child /\ child[p] # p
    OBVIOUS
  <2>2. TypeOK' BY <1>3, <2>1 DEF WriteChildFails, Unlocked
  <2>3. HoldInv' BY <1>3, <2>1 DEF WriteChildFails, Unlocked
  <2>4. RoleInv'
    <3>1. pc' = [pc EXCEPT ![p] = "failed", ![child[p]] = "gone"] /\ UNCHANGED target
      BY <1>3 DEF WriteChildFails
    <3> QED BY <2>1, <3>1
  <2>5. RecordsItsDaemon' BY <1>3, <2>1 DEF WriteChildFails
  <2> QED BY <2>2, <2>3, <2>4, <2>5
<1>4. CASE Close(p) BY <1>4 DEF Close, Unlocked
<1> QED BY <1>1, <1>2, <1>3, <1>4 DEF StartStep

LEMMA StopInv ==
    ASSUME Inv, NEW s \in Stopper, StopStep(s) PROVE Inv'
<1> USE PidFileAssumption DEF Inv, TypeOK, HoldInv, RoleInv, RecordsItsDaemon, Phases, Holding,
        Proc, Daemonic, Inode, Goto, files
<1>1. CASE StopRead(s)
  <2>1. {child[p] : p \in {q \in Parent : pc[q] = "started"}} \in SUBSET Child
    OBVIOUS
  <2>2. told' \in [Stopper -> SUBSET Child]
    BY <1>1, <2>1 DEF StopRead
  <2>3. UNCHANGED <<files, fd, term, iface>>
    BY <1>1 DEF StopRead
  <2>4. \/ target' = target /\ (Goto(s, "teardown") \/ Goto(s, "error"))
        \/ \E d \in Daemonic : target' = [target EXCEPT ![s] = d] /\ Goto(s, "probe")
    BY <1>1 DEF StopRead
  <2> HIDE DEF Goto
  <2>5. CASE target' = target /\ Goto(s, "teardown")
    BY <2>2, <2>3, <2>5 DEF Goto
  <2>6. CASE target' = target /\ Goto(s, "error")
    BY <2>2, <2>3, <2>6 DEF Goto
  <2>7. ASSUME NEW d \in Daemonic, target' = [target EXCEPT ![s] = d], Goto(s, "probe")
        PROVE  Inv'
    BY <2>2, <2>3, <2>7 DEF Goto
  <2> QED BY <2>4, <2>5, <2>6, <2>7
<1>2. CASE ProbeOpen(s)
  <2>1. CASE name = 0
    <3>1. TypeOK' BY <1>2, <2>1 DEF ProbeOpen
    <3>2. HoldInv' BY <1>2, <2>1 DEF ProbeOpen
    <3>3. RoleInv' BY <1>2, <2>1 DEF ProbeOpen
    <3>4. RecordsItsDaemon' BY <1>2, <2>1 DEF ProbeOpen
    <3> QED BY <3>1, <3>2, <3>3, <3>4
  <2>2. CASE name # 0
    <3>1. name \in Inode
      BY <2>2
    <3>2. pc' = [pc EXCEPT ![s] = "flock"] /\ fd' = [fd EXCEPT ![s] = name]
      BY <1>2, <2>2 DEF ProbeOpen
    <3>3. UNCHANGED <<files, term, target, iface, told>> /\ pc[s] = "probe"
      BY <1>2 DEF ProbeOpen
    <3> QED BY <3>1, <3>2, <3>3
  <2> QED BY <2>1, <2>2
<1>3. CASE ProbeFree(s) BY <1>3 DEF ProbeFree
<1>4. CASE ProbeUnlock(s) BY <1>4 DEF ProbeUnlock, End, Unlocked
<1>5. CASE ProbeHeld(s) BY <1>5 DEF ProbeHeld, End
<1>6. CASE CheckAlive(s) BY <1>6 DEF CheckAlive
<1>7. CASE Kill(s)
  <2> DEFINE t == target[s]
  <2>1. t \in Daemonic /\ t # s
    BY <1>7 DEF Kill
  <2>2. CASE ~Alive(t)
    <3>1. TypeOK' BY <1>7, <2>2 DEF Kill
    <3>2. HoldInv' BY <1>7, <2>2 DEF Kill
    <3>3. RoleInv'
      <4>1. pc' = [pc EXCEPT ![s] = "error"] /\ UNCHANGED target
        BY <1>7, <2>2 DEF Kill
      <4> QED BY <4>1
    <3>4. RecordsItsDaemon' BY <1>7, <2>2 DEF Kill
    <3> QED BY <3>1, <3>2, <3>3, <3>4
  <2>3. CASE Alive(t) /\ pc[t] = "run"
    <3>0. t \in Child BY <2>1, <2>3
    <3>1. TypeOK' BY <1>7, <2>3, <3>0 DEF Kill
    <3>2. HoldInv' BY <1>7, <2>3, <3>0 DEF Kill
    <3>3. RoleInv' BY <1>7, <2>3, <3>0 DEF Kill
    <3>4. RecordsItsDaemon' BY <1>7, <2>3, <3>0 DEF Kill
    <3> QED BY <3>1, <3>2, <3>3, <3>4
  <2>4. CASE Alive(t) /\ pc[t] # "run"
    <3>1. pc' = [pc EXCEPT ![s] = "wait", ![t] = "gone"]
      BY <1>7, <2>4 DEF Kill
    <3>2. TypeOK' BY <1>7, <2>1, <2>4, <3>1 DEF Kill, Unlocked
    <3>3. HoldInv' BY <1>7, <2>1, <2>4, <3>1 DEF Kill, Unlocked
    <3>4. RoleInv' BY <1>7, <2>1, <2>4, <3>1 DEF Kill
    <3>5. RecordsItsDaemon' BY <1>7, <2>1, <2>4, <3>1 DEF Kill
    <3> QED BY <3>2, <3>3, <3>4, <3>5
  <2> QED BY <2>2, <2>3, <2>4
<1>8. CASE Wait(s) BY <1>8 DEF Wait
<1>9. CASE Teardown(s) BY <1>9 DEF Teardown
<1> QED BY <1>1, <1>2, <1>3, <1>4, <1>5, <1>6, <1>7, <1>8, <1>9 DEF StopStep

LEMMA OtherInv ==
    ASSUME Inv,
           \/ \E p \in Daemonic : Crash(p)
           \/ \E c \in Child : Reconcile(c) \/ SeeTerm(c)
           \/ UNCHANGED vars
    PROVE  Inv'
<1> USE PidFileAssumption DEF Inv, TypeOK, HoldInv, RoleInv, RecordsItsDaemon, Phases, Holding,
        Proc, Daemonic, Inode, Goto, files
<1>1. ASSUME NEW p \in Daemonic, Crash(p) PROVE Inv' BY <1>1 DEF Crash, Unlocked, Alive
<1>2. ASSUME NEW c \in Child, Reconcile(c) PROVE Inv' BY <1>2 DEF Reconcile
<1>3. ASSUME NEW c \in Child, SeeTerm(c) PROVE Inv' BY <1>3 DEF SeeTerm
<1>4. CASE UNCHANGED vars BY <1>4 DEF vars
<1> QED BY <1>1, <1>2, <1>3, <1>4

LEMMA Invariance == Spec => []Inv
<1>1. Inv /\ [Next]_vars => Inv'
  BY AcquireInv, StartInv, StopInv, OtherInv DEF Next
<1> QED BY InitInv, <1>1, PTL DEF Spec

\* Every variable keeps its type.
THEOREM TypeCorrect == Spec => []TypeOK
<1>1. Inv => TypeOK BY DEF Inv
<1> QED BY Invariance, <1>1, PTL

\* Start, AcquirePIDFile and Stop: the file a running daemon holds records its
\* pid, for any number of overlapping starts, stops and crashes.
THEOREM FileRecordsDaemon == Spec => []RecordsItsDaemon
<1>1. Inv => RecordsItsDaemon BY DEF Inv
<1> QED BY Invariance, <1>1, PTL
=============================================================================

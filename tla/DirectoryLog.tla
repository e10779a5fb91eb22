---------------------------- MODULE DirectoryLog -----------------------------
(***************************************************************************)
(* What publishing promises a fleet: the publisher issues directories under *)
(* ever higher serials, and each machine's view moves forward through       *)
(* directories that were issued.  Skipping is allowed, going back is not.   *)
(***************************************************************************)
EXTENDS Naturals

CONSTANTS Machine,       \* the machines that follow the log
          Directories,   \* records with a serial
          NoDir          \* the view of a machine that has seen nothing

VARIABLES log,           \* the directories issued so far
          view           \* [Machine -> the directory it holds]

logVars == <<log, view>>

Init ==
    /\ log = {}
    /\ view = [m \in Machine |-> NoDir]

Issue ==
    /\ \E d \in Directories :
          /\ \A e \in log : e.serial < d.serial
          /\ log' = log \cup {d}
    /\ UNCHANGED view

Accept(m) ==
    /\ \E d \in log :
          /\ view[m].serial < d.serial
          /\ view' = [view EXCEPT ![m] = d]
    /\ UNCHANGED log

Next == Issue \/ \E m \in Machine : Accept(m)

Spec == Init /\ [][Next]_logVars
=============================================================================

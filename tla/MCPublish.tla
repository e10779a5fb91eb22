------------------------------ MODULE MCPublish ------------------------------
(***************************************************************************)
(* Instances of Publish for TLC: one admin machine, at most one client, and *)
(* one or two processes on a machine.                                      *)
(***************************************************************************)
EXTENDS Publish, TLC

CONSTANTS adm, cli, spoke,      \* nodes: the admin, a client, a plain peer
          d1, d2, c1, c2        \* processes

\* Two shells on the admin machine.
MCShells == [p \in Proc |-> IF p = d1 THEN {"publish", "force", "edit"}
                                     ELSE {"publish", "sync"}]

\* One shell, running one command after the other.
MCOneShell == [p \in Proc |-> {"publish", "sync"}]

\* The admin's daemon beside its shell.
MCDaemonAndShell == [p \in Proc |-> IF p = d1 THEN {"daemon"}
                                             ELSE {"publish", "stage"}]

\* The admin's shell, and two `up`s of a client, with --no-sync or without: on a
\* client the daemon's iteration is one of the latter.
MCFleet == [p \in Proc |-> IF p = d1 THEN {"publish", "edit"} ELSE {"up"}]

\* A daemon on every machine, and a shell that edits.
MCDaemons == [p \in Proc |-> IF p = d2 THEN {"edit"} ELSE {"daemon"}]

MCUps == Permutations({c1, c2})

MCHostAdmin == [p \in Proc |-> adm]
MCHostFleet == [p \in Proc |-> IF p \in {d1, d2} THEN adm ELSE cli]
=============================================================================

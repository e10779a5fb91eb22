------------------------------ MODULE MCPidFile ------------------------------
(***************************************************************************)
(* Instances of PidFile for TLC.                                           *)
(***************************************************************************)
EXTENDS PidFile

CONSTANTS p1, p2, p3, c1, c2, c3

MCChild == [p \in Parent |-> CASE p = p1 -> c1 [] p = p2 -> c2 [] OTHER -> c3]
=============================================================================

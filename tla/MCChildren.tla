---------------------------- MODULE MCChildren ----------------------------
(* The processes of a server, for TLC. *)
EXTENDS Children, TLC

Symmetric == Permutations(Pid)
=============================================================================

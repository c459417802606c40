--------------------------- MODULE MCSockMuxTable ---------------------------
(***************************************************************************)
(* SockMuxTable on small instances.                                        *)
(***************************************************************************)
EXTENDS SockMuxTable

CONSTANTS MaxNear, MaxFar    \* bounds: units an agent of each end sends
MCMaxSend == [e \in End |-> IF e = "near" THEN MaxNear ELSE MaxFar]

Symm == Permutations(Conn)
=============================================================================

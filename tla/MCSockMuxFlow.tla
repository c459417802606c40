--------------------------- MODULE MCSockMuxFlow ---------------------------
(***************************************************************************)
(* SockMuxFlow on small instances.                                         *)
(***************************************************************************)
EXTENDS SockMuxFlowPipe

CONSTANTS
    MaxNear, MaxFar,     \* bounds: bytes each end reads
    OOBNear, OOBFar      \* bounds: urgent bytes each end reads
MCMaxSend == [e \in End |-> IF e = "near" THEN MaxNear ELSE MaxFar]
MCMaxOOB == [e \in End |-> IF e = "near" THEN OOBNear ELSE OOBFar]
=============================================================================

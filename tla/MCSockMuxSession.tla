-------------------------- MODULE MCSockMuxSession --------------------------
(* Sizes around the minimum of set_PACKSIZE and PackSize at the start, and *)
(* unanswered packets enough for 60 seconds without an answer.            *)
EXTENDS SockMuxSession
=============================================================================

-------------------------- MODULE SockMuxFlowPipe --------------------------
(***************************************************************************)
(* SockMuxFlow implements Pipe.  The near end is open from the start, for  *)
(* it has accepted its client, the far end from the moment it has reached  *)
(* the server; an end is closing once it has sent or received CLOSE and    *)
(* gone when its agent is released.                                        *)
(***************************************************************************)
EXTENDS SockMuxFlow

PhaseOf(s) == CASE s = "NONE" -> "idle"
                [] s = "REFUSED" -> "refused"
                [] s \in Closing -> "closing"
                [] s = "FREE" -> "gone"
                [] OTHER -> "open"
PipePhase == [e \in End |-> PhaseOf(stat[e])]
PipeDone == [e \in End |-> Settled(e)]
PipeExcused == [e \in End |-> ltClosed[e] \/ expired[e]]

Conn == INSTANCE Pipe WITH
    Opener <- "near", Most <- Payload,
    phase <- PipePhase, sent <- seq,
    done <- PipeDone, excused <- PipeExcused

\* Whatever the two ends, the window and the handshake of sox.cpp do, they are
\* a pipe: no byte is made up, repeated or passed on after the end, an end
\* closes on its own or after its peer, and none is released without an excuse
\* before it has dealt with every byte.  (What sendOOB refuses is thrown away;
\* NothingLost says of which bytes that can be true.)
IsPipe == Conn!Spec

\* And the pipe does not stop: what was read at one end comes out at the other
\* or is thrown away there, and an end that closes is gone at last.
PipeRuns == Conn!LiveSpec
=============================================================================

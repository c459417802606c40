-------------------------------- MODULE Pipe --------------------------------
(***************************************************************************)
(* What a SockMux tunnel promises for one connection: a pipe in both       *)
(* directions between the sockets of its two ends.  Bytes are counted:     *)
(* none comes out twice and none that was not sent; an end closes on its   *)
(* own or after its peer; and it is not gone before it has dealt with all  *)
(* that was sent to it unless it is excused: its own socket has ended, or  *)
(* its time to linger is over.  SockMuxFlow implements it.                 *)
(***************************************************************************)
EXTENDS Naturals

CONSTANTS
    End, Peer(_),
    Opener,   \* the end that accepted the client
    Most      \* bytes taken from a socket at once

VARIABLES
    phase,    \* idle, refused, open, closing, gone
    sent,     \* bytes an end has taken from its socket
    done,     \* bytes of the peer's stream it has written or thrown away
              \* (urgent bytes its socket did not take are thrown away)
    excused   \* it may end without having written all of them
vars == <<phase, sent, done, excused>>

Init ==
    /\ phase = [e \in End |-> IF e = Opener THEN "open" ELSE "idle"]
    /\ sent = [e \in End |-> 0]
    /\ done = [e \in End |-> 0]
    /\ excused = [e \in End |-> FALSE]

Open(e) ==
    /\ phase[e] = "idle"
    /\ phase' = [phase EXCEPT ![e] = "open"]
    /\ UNCHANGED <<sent, done, excused>>

Refuse(e) ==
    /\ phase[e] = "idle"
    /\ phase' = [phase EXCEPT ![e] = "refused"]
    /\ UNCHANGED <<sent, done, excused>>

Write(e) ==
    /\ phase[e] = "open"
    /\ \E n \in 1 .. Most : sent' = [sent EXCEPT ![e] = @ + n]
    /\ UNCHANGED <<phase, done, excused>>

Deliver(e) ==
    /\ phase[e] \in {"open", "closing"}
    /\ \E n \in 1 .. sent[Peer(e)] - done[e] : done' = [done EXCEPT ![e] = @ + n]
    /\ UNCHANGED <<phase, sent, excused>>

\* The end's own socket ends: what is to be written to it is thrown away.
CloseSelf(e) ==
    /\ phase[e] = "open"
    /\ phase' = [phase EXCEPT ![e] = "closing"]
    /\ excused' = [excused EXCEPT ![e] = TRUE]
    /\ \E n \in 0 .. sent[Peer(e)] - done[e] : done' = [done EXCEPT ![e] = @ + n]
    /\ UNCHANGED sent

\* The peer has closed, or refused; it sends no more.
CloseAfter(e) ==
    /\ phase[e] = "open"
    /\ phase[Peer(e)] \in {"closing", "gone", "refused"}
    /\ phase' = [phase EXCEPT ![e] = "closing"]
    /\ UNCHANGED <<sent, done, excused>>

Excuse(e) ==
    /\ phase[e] \in {"open", "closing"} /\ ~excused[e]
    /\ excused' = [excused EXCEPT ![e] = TRUE]
    /\ UNCHANGED <<phase, sent, done>>

Leave(e) ==
    /\ phase[e] = "closing"
    /\ done[e] = sent[Peer(e)] \/ excused[e]
    /\ phase' = [phase EXCEPT ![e] = "gone"]
    /\ UNCHANGED <<sent, done, excused>>

Next ==
    \E e \in End :
        \/ Open(e) \/ Refuse(e) \/ Write(e) \/ Deliver(e)
        \/ CloseSelf(e) \/ CloseAfter(e) \/ Excuse(e) \/ Leave(e)

Spec == Init /\ [][Next]_vars

\* What was sent comes out, and an end that closes is gone at last.
LiveSpec == Spec /\ \A e \in End : WF_vars(Deliver(e)) /\ WF_vars(Leave(e))
=============================================================================

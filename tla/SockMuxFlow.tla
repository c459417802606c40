---------------------------- MODULE SockMuxFlow ----------------------------
(***************************************************************************)
(* One connection carried by a SockMux tunnel (src/delegate/src/sox.cpp):  *)
(* the two agents that stand for its two sockets, the packets they         *)
(* exchange over the comm connection, the window that keeps an agent from  *)
(* sending more than its peer can buffer, and the CLOSE/CLOSED handshake.  *)
(*                                                                         *)
(* "near" is the end that accepted the client (sox_accept1), "far" the end *)
(* that connects to the server when it receives CONNECT.  chan[e] holds    *)
(* the packets on their way TO end e: the comm connection is a TCP stream, *)
(* so it is FIFO and loses nothing while it is up.  Packets of the other   *)
(* connections of the tunnel do not touch these two agents and are left    *)
(* out; reuse of agent ids is the subject of SockMuxTable.                 *)
(*                                                                         *)
(* Bytes are counted, their values are not kept: a byte is its position in *)
(* the stream its end has sent.                                            *)
(***************************************************************************)
EXTENDS Integers, Sequences

CONSTANTS
    PackSize,    \* PackSize: bytes of a packet, header included
    PHSIZE,      \* PHSIZE: bytes of the header
    PWSIZE,      \* PWSIZE: the largest packet a peer may negotiate
    MAXPENDING,  \* MAXPENDING: packets an agent may have outstanding
    MaxSend,     \* bound: [End -> Nat], bytes an end reads from its socket
    MaxOOB       \* bound: [End -> Nat], urgent bytes it reads from there

End == {"near", "far"}

ASSUME SizeAssumption ==
    /\ PackSize \in Nat /\ PHSIZE \in Nat /\ PWSIZE \in Nat
    /\ MAXPENDING \in Nat \ {0}
    /\ PHSIZE < PackSize /\ PackSize <= PWSIZE
ASSUME BoundAssumption == MaxSend \in [End -> Nat] /\ MaxOOB \in [End -> Nat]

Peer(e) == IF e = "near" THEN "far" ELSE "near"

Payload == PackSize - PHSIZE               \* most bytes a SEND carries
Window == PackSize * MAXPENDING            \* PackSize*PqueSize
MAXBUFSIZE == (MAXPENDING + 2) * PWSIZE    \* the size of Buffer.b_buf

VARIABLES
    stat,     \* a_stat; without an agent: "NONE" before CONNECT, "REFUSED"
              \* when no server was reached, "FREE" after sox_fdset
    rpend,    \* a_rpend, bytes pending in remote
    lbuf,     \* a_lbuf.b_rem, bytes not yet written to the local socket
    ltClosed, \* a_ltCLOSED # 0
    rev,      \* events of this end's current poll not yet handled
    chan,     \* packets on their way to an end
    \* History, read by no guard but the bounds:
    seq,      \* bytes this end has put into SEND and SENDOOB
    oob,      \* how many of them were urgent
    urgent,   \* which of them were urgent: their positions
    lost,     \* urgent bytes of the peer that sendOOB did not take
    got,      \* position in the peer's stream this end has received up to
    gack,     \* position in its own stream it knows to be out of the peer
    leak,     \* credit that SENTOOB never gave back
    extra,    \* bytes sent over the window after Flush or SENTOOB
              \* had cleared the waiting status
    expired   \* the linger time ran out with output still buffered

hist == <<seq, oob, urgent, lost, got, gack, leak, extra, expired>>
vars == <<stat, rpend, lbuf, ltClosed, rev, chan, seq, oob, urgent, lost,
          got, gack, leak, extra, expired>>

Waiting == {"SENDING", "SENDINGOOB"}       \* SOX_WAITING
Closing == {"CLOSE", "CLOSED"}
Absent == {"NONE", "REFUSED", "FREE"}       \* no agent in the table
Status == {"CONNECT", "CONNECTED", "SEND", "SENT", "SENTOOB"}
             \cup Waiting \cup Closing \cup Absent
Event == {"COMM", "OUT", "PRI", "IN", "PUSH"}
PackType == {"CONNECT", "CONNECTED", "SEND", "SENT", "SENDOOB", "SENTOOB",
             "CLOSE", "CLOSED"}

(***************************************************************************)
(* A packet.  len is what the receiver reads from it: the payload's length *)
(* or, in an acknowledgement, the number it carries.  The other fields are *)
(* history: of is the length an acknowledgement answers, seq and ack the   *)
(* sender's positions when it sent the packet.                             *)
(***************************************************************************)
Packet == [type : PackType, len : Int, of : Nat, seq : Nat, ack : Nat]
Pack(t, n, o, s, a) ==
    [type |-> t, len |-> n, of |-> o, seq |-> s, ack |-> a]

\* End e has an agent, and one that is not closing.
Present(e) == stat[e] \notin Absent
Open(e) == stat[e] \notin Absent \cup Closing

\* What has left end e's buffer, for its local socket or for good.
Settled(e) == got[e] - lbuf[e]

(***************************************************************************)
(* sox_accept1 has created the near agent and written CONNECT.  Data that  *)
(* get_conndata adds to CONNECT or CONNECTED goes straight to the new      *)
(* socket (put_conndata), before any SEND and outside the window: it is    *)
(* not counted here.                                                       *)
(***************************************************************************)
Init ==
    /\ stat = [e \in End |-> IF e = "near" THEN "CONNECT" ELSE "NONE"]
    /\ rpend = [e \in End |-> 0]
    /\ lbuf = [e \in End |-> 0]
    /\ ltClosed = [e \in End |-> FALSE]
    /\ rev = [e \in End |-> {}]
    /\ chan = [e \in End |-> IF e = "far"
                               THEN <<Pack("CONNECT", 0, 0, 0, 0)>> ELSE <<>>]
    /\ seq = [e \in End |-> 0]
    /\ gack = [e \in End |-> 0]
    /\ oob = [e \in End |-> 0]
    /\ urgent = [e \in End |-> {}]
    /\ lost = [e \in End |-> {}]
    /\ got = [e \in End |-> 0]
    /\ leak = [e \in End |-> 0]
    /\ extra = [e \in End |-> 0]
    /\ expired = [e \in End |-> FALSE]

-----------------------------------------------------------------------------
(***************************************************************************)
(* One turn of sox_clock1: sox_fdset decides what is polled, PollInsOuts   *)
(* reports events, and the turn handles them in order: the comm connection *)
(* first, then this agent's output, urgent input and input.                *)
(***************************************************************************)
\* The local events sox_fdset asks for.  Every change of a_stat, and every
\* change of lbuf from or to empty (writeb), clears Qfdset: what is polled
\* always follows from the present state.
Qev(e) ==
    (IF stat[e] \in {"CONNECT", "CLOSE"} \cup Waiting \cup Absent
       THEN {} ELSE {"PRI", "IN"})
    \cup (IF lbuf[e] > 0 /\ stat[e] \notin Absent THEN {"OUT"} ELSE {})

\* What is on its way may have arrived, or not yet.
Poll(e) ==
    /\ rev[e] = {}
    /\ \E ready \in SUBSET (Qev(e) \cup {"COMM"}) :
         /\ ready # {}
         /\ "COMM" \in ready => chan[e] # <<>>
         /\ rev' = [rev EXCEPT ![e] = ready]
    /\ UNCHANGED <<stat, rpend, lbuf, ltClosed, chan, hist>>

\* Event v is the one end e handles now.
Turn(e, v) ==
    /\ v \in rev[e]
    /\ CASE v = "COMM" -> TRUE
         [] v = "OUT"  -> "COMM" \notin rev[e]
         [] v = "PRI"  -> rev[e] \cap {"COMM", "OUT"} = {}
         [] v = "IN"   -> rev[e] \cap {"COMM", "OUT", "PRI"} = {}
         [] v = "PUSH" -> rev[e] = {"PUSH"}

Done(e, v) == rev' = [rev EXCEPT ![e] = @ \ {v}]

\* End e writes packets to the comm connection.
Send(e, pk) == chan' = [chan EXCEPT ![Peer(e)] = Append(@, pk)]
\* End e takes the first packet off the comm connection, and may write one.
Take(e) == chan' = [chan EXCEPT ![e] = Tail(@)]
TakeSend(e, pk) ==
    chan' = [chan EXCEPT ![e] = Tail(@), ![Peer(e)] = Append(@, pk)]

(***************************************************************************)
(* PS_OUT: writesock(NULL) writes some of the buffered bytes; what went    *)
(* out is reported with SENT, also by an agent that is CLOSED.             *)
(***************************************************************************)
\* As if only the flush that empties the buffer were reported.
FlushAckWhenEmpty(e) ==
    /\ Turn(e, "OUT")
    /\ \E w \in 0 .. lbuf[e] :
         /\ lbuf' = [lbuf EXCEPT ![e] = @ - w]
         /\ IF w > 0 /\ w = lbuf[e]
              THEN Send(e, Pack("SENT", w, w, seq[e], Settled(e) + w))
              ELSE UNCHANGED chan
    /\ Done(e, "OUT")
    /\ UNCHANGED <<stat, rpend, ltClosed, hist>>

Flush(e) ==
    /\ Turn(e, "OUT")
    /\ \E w \in 0 .. lbuf[e] :
         \/ /\ w = 0
            /\ UNCHANGED <<stat, lbuf, chan>>
         \/ /\ w > 0
            /\ lbuf' = [lbuf EXCEPT ![e] = @ - w]
            /\ stat' = [stat EXCEPT ![e] = IF @ = "CLOSED" THEN @ ELSE "SENT"]
            /\ Send(e, Pack("SENT", w, w, seq[e], Settled(e) + w))
    /\ Done(e, "OUT")
    /\ UNCHANGED <<rpend, ltClosed, hist>>

(***************************************************************************)
(* sox_relay1: from the local socket to the comm connection.               *)
(***************************************************************************)
\* An agent that is closing ignores its input.
RelayIgnored(e, v) ==
    /\ Turn(e, v)
    /\ stat[e] \in Closing
    /\ Done(e, v)
    /\ UNCHANGED <<stat, rpend, lbuf, ltClosed, chan, hist>>

\* As if the window were never checked.
SendStatNeverStop(r) == "SEND"

\* The status after a SEND that leaves r bytes pending in the remote.
SendStat(r) == IF Window < r THEN "SENDING" ELSE "SEND"

Relay(e) ==
    /\ Turn(e, "IN")
    /\ Open(e)
    /\ \E n \in 1 .. Payload :
         /\ seq[e] + n <= MaxSend[e]
         /\ rpend' = [rpend EXCEPT ![e] = @ + n]
         /\ seq' = [seq EXCEPT ![e] = @ + n]
         /\ extra' = [extra EXCEPT ![e] =
                IF Window < rpend[e] /\ stat[e] # "SEND" THEN @ + n ELSE @]
         /\ Send(e, Pack("SEND", n, n, seq[e] + n, Settled(e)))
    /\ stat' = [stat EXCEPT ![e] = SendStat(rpend'[e])]
    /\ Done(e, "IN")
    /\ UNCHANGED <<lbuf, ltClosed, oob, urgent, lost, got, gack, leak, expired>>

\* recvOOB gives urgent bytes: they are sent now, or, when ordinary input
\* precedes them, after it (SOX_OOBPUSH); PUSH is that second call.
RelayOOB(e, v) ==
    /\ Turn(e, v)
    /\ Open(e)
    /\ \E n \in 1 .. Payload :
         /\ oob[e] + n <= MaxOOB[e]
         /\ rpend' = [rpend EXCEPT ![e] = @ + n]
         /\ seq' = [seq EXCEPT ![e] = @ + n]
         /\ oob' = [oob EXCEPT ![e] = @ + n]
         /\ urgent' = [urgent EXCEPT ![e] = @ \cup (seq[e] + 1 .. seq[e] + n)]
         /\ Send(e, Pack("SENDOOB", n, n, seq[e] + n, Settled(e)))
    /\ stat' = [stat EXCEPT ![e] = "SENDINGOOB"]
    /\ Done(e, v)
    /\ UNCHANGED <<lbuf, ltClosed, lost, got, gack, leak, extra, expired>>

PushOOB(e) ==
    /\ Turn(e, "PRI")
    /\ Open(e)
    /\ oob[e] < MaxOOB[e]
    /\ rev' = [rev EXCEPT ![e] = (@ \ {"PRI"}) \cup {"PUSH"}]
    /\ UNCHANGED <<stat, rpend, lbuf, ltClosed, chan, hist>>

\* "sensed OOB but no-OOB": nothing is read.
NoOOB(e) ==
    /\ Turn(e, "PRI")
    /\ Open(e)
    /\ Done(e, "PRI")
    /\ UNCHANGED <<stat, rpend, lbuf, ltClosed, chan, hist>>

\* read() fails with EAGAIN: sock2comm has noted a_ltCLOSED all the same.
RelayAgain(e) ==
    /\ Turn(e, "IN")
    /\ Open(e)
    /\ ltClosed' = [ltClosed EXCEPT ![e] = TRUE]
    /\ Done(e, "IN")
    /\ UNCHANGED <<stat, rpend, lbuf, chan, hist>>

\* As if CLOSE were written ahead of what is queued for the peer.
RelayEofUrgent(e, v) ==
    /\ Turn(e, v)
    /\ Open(e)
    /\ ltClosed' = [ltClosed EXCEPT ![e] = TRUE]
    /\ stat' = [stat EXCEPT ![e] = "CLOSE"]
    /\ lbuf' = [lbuf EXCEPT ![e] = 0]
    /\ chan' = [chan EXCEPT ![Peer(e)] =
                   <<Pack("CLOSE", 0, 0, seq[e], Settled(e))>> \o @]
    /\ Done(e, v)
    /\ UNCHANGED <<rpend, hist>>

\* End of file or an error on the local socket: what is buffered for it is
\* discarded and CLOSE is sent.
RelayEof(e, v) ==
    /\ Turn(e, v)
    /\ Open(e)
    /\ ltClosed' = [ltClosed EXCEPT ![e] = TRUE]
    /\ stat' = [stat EXCEPT ![e] = "CLOSE"]
    /\ lbuf' = [lbuf EXCEPT ![e] = 0]
    /\ Send(e, Pack("CLOSE", 0, 0, seq[e], Settled(e)))
    /\ Done(e, v)
    /\ UNCHANGED <<rpend, hist>>

-----------------------------------------------------------------------------
(***************************************************************************)
(* sox_COMMIN: a packet from the comm connection.                          *)
(***************************************************************************)
\* The packet that end e handles now is of type t.
Recv(e, t) ==
    /\ Turn(e, "COMM")
    /\ chan[e] # <<>>
    /\ Head(chan[e]).type = t

\* An agent that is closing drops all packets but CLOSE and CLOSED, and a
\* packet for an agent that is gone finds nobody, but for CLOSE.
RecvIgnored(e) ==
    /\ Turn(e, "COMM")
    /\ chan[e] # <<>>
    /\ \/ stat[e] \in Closing /\ Head(chan[e]).type \notin {"CLOSE", "CLOSED"}
       \/ ~Present(e) /\ Head(chan[e]).type \notin {"CLOSE", "CONNECT"}
    /\ Take(e)
    /\ Done(e, "COMM")
    /\ UNCHANGED <<stat, rpend, lbuf, ltClosed, hist>>

\* SOX_CONNECT: connected to the server.
RecvConnect(e) ==
    /\ Recv(e, "CONNECT")
    /\ stat' = [stat EXCEPT ![e] = "CONNECTED"]
    /\ TakeSend(e, Pack("CONNECTED", 0, 0, seq[e], Settled(e)))
    /\ Done(e, "COMM")
    /\ UNCHANGED <<rpend, lbuf, ltClosed, hist>>

\* SOX_CONNECT: no server could be reached; no agent is made.
RecvConnectFail(e) ==
    /\ Recv(e, "CONNECT")
    /\ stat' = [stat EXCEPT ![e] = "REFUSED"]
    /\ TakeSend(e, Pack("CLOSE", 0, 0, seq[e], Settled(e)))
    /\ Done(e, "COMM")
    /\ UNCHANGED <<rpend, lbuf, ltClosed, hist>>

RecvConnected(e) ==
    /\ Recv(e, "CONNECTED")
    /\ Open(e)
    /\ stat' = [stat EXCEPT ![e] = "CONNECTED"]
    /\ Take(e)
    /\ Done(e, "COMM")
    /\ UNCHANGED <<rpend, lbuf, ltClosed, hist>>

\* As if a write that fails with EAGAIN dropped the packet.
RecvSendDropUnwritten(e) ==
    /\ Recv(e, "SEND")
    /\ Open(e)
    /\ LET m == Head(chan[e]) IN
       \E w \in 0 .. lbuf[e] + m.len :
         \/ w = 0 /\ Take(e) /\ UNCHANGED <<lbuf, got>>
         \/ /\ w > 0
            /\ lbuf' = [lbuf EXCEPT ![e] = @ + m.len - w]
            /\ got' = [got EXCEPT ![e] = @ + m.len]
            /\ TakeSend(e, Pack("SENT", w, w, seq[e], Settled(e) + w))
    /\ Done(e, "COMM")
    /\ UNCHANGED <<stat, rpend, ltClosed, seq, oob, urgent, lost, gack, leak,
                   extra, expired>>

\* As if a failed write were reported like a complete one.
RecvSendAckLost(e) ==
    /\ Recv(e, "SEND")
    /\ Open(e)
    /\ LET m == Head(chan[e]) IN
         TakeSend(e, Pack("SENT", m.len, m.len, seq[e], Settled(e)))
    /\ Done(e, "COMM")
    /\ UNCHANGED <<stat, rpend, lbuf, ltClosed, hist>>

\* As if the packet were reported when received, and again when flushed.
RecvSendAckReceipt(e) ==
    /\ Recv(e, "SEND")
    /\ Open(e)
    /\ LET m == Head(chan[e]) IN
       \E w \in 0 .. lbuf[e] + m.len :
         /\ lbuf' = [lbuf EXCEPT ![e] = @ + m.len - w]
         /\ got' = [got EXCEPT ![e] = @ + m.len]
         /\ TakeSend(e, Pack("SENT", m.len, m.len, seq[e], Settled(e) + w))
    /\ Done(e, "COMM")
    /\ UNCHANGED <<stat, rpend, ltClosed, seq, oob, urgent, lost, gack, leak,
                   extra, expired>>

\* writeb takes w bytes off the buffered ones and then off the new ones; the
\* rest is buffered.  Nothing written, nothing acknowledged.
RecvSend(e) ==
    /\ Recv(e, "SEND")
    /\ Open(e)
    /\ LET m == Head(chan[e]) IN
       \E w \in 0 .. lbuf[e] + m.len :
         /\ lbuf' = [lbuf EXCEPT ![e] = @ + m.len - w]
         /\ got' = [got EXCEPT ![e] = @ + m.len]
         /\ IF w = 0
              THEN Take(e)
              ELSE TakeSend(e, Pack("SENT", w, w, seq[e], Settled(e) + w))
    /\ Done(e, "COMM")
    /\ UNCHANGED <<stat, rpend, ltClosed, seq, oob, urgent, lost, gack, leak,
                   extra, expired>>

\* As if input were resumed only with room for a whole packet.
SentStatNeedsRoom(s, r) == IF r + Payload < Window THEN "SENT" ELSE s

\* The status after SENT left r bytes pending: input is resumed below Window.
SentStat(s, r) == IF r < Window THEN "SENT" ELSE s

RecvSent(e) ==
    /\ Recv(e, "SENT")
    /\ Open(e)
    /\ LET m == Head(chan[e]) IN
         /\ rpend' = [rpend EXCEPT ![e] = @ - m.len]
         /\ stat' = [stat EXCEPT ![e] = SentStat(@, rpend[e] - m.len)]
         /\ gack' = [gack EXCEPT ![e] = @ + m.of]
    /\ Take(e)
    /\ Done(e, "COMM")
    /\ UNCHANGED <<lbuf, ltClosed, seq, oob, urgent, lost, got, leak, extra,
                   expired>>

\* The bytes an urgent packet carries, but for the first w.
Rest(m, w) == m.seq - m.len + w + 1 .. m.seq

\* sendOOB goes round writeb and its buffer: what it writes overtakes what is
\* buffered, and what it does not write is lost, for nothing keeps it.  Its
\* result, -1 and short counts included, is what SENTOOB reports.
RecvSendOOB(e) ==
    /\ Recv(e, "SENDOOB")
    /\ Open(e)
    /\ LET m == Head(chan[e]) IN
       \E w \in {-1} \cup 0 .. m.len :
         /\ got' = [got EXCEPT ![e] = @ + m.len]
         /\ lost' = [lost EXCEPT ![e] = @ \cup Rest(m, IF w < 0 THEN 0 ELSE w)]
         /\ TakeSend(e, Pack("SENTOOB", w, m.len, seq[e], Settled(e) + m.len))
    /\ Done(e, "COMM")
    /\ UNCHANGED <<stat, rpend, lbuf, ltClosed, seq, oob, urgent, gack, leak,
                   extra, expired>>

RecvSentOOB(e) ==
    /\ Recv(e, "SENTOOB")
    /\ Open(e)
    /\ LET m == Head(chan[e]) IN
         /\ rpend' = [rpend EXCEPT ![e] = @ - m.len]
         /\ gack' = [gack EXCEPT ![e] = @ + m.of]
         /\ leak' = [leak EXCEPT ![e] = @ + m.of - m.len]
    /\ stat' = [stat EXCEPT ![e] = "SENTOOB"]
    /\ Take(e)
    /\ Done(e, "COMM")
    /\ UNCHANGED <<lbuf, ltClosed, seq, oob, urgent, lost, got, extra, expired>>

\* As if CLOSE were answered by an agent that has sent CLOSE, too.
RecvCloseAlwaysAnswers(e) ==
    /\ Recv(e, "CLOSE")
    /\ stat' = [stat EXCEPT ![e] = IF Present(e) THEN "CLOSED" ELSE @]
    /\ TakeSend(e, Pack("CLOSED", 0, 0, seq[e], Settled(e)))
    /\ Done(e, "COMM")
    /\ UNCHANGED <<rpend, lbuf, ltClosed, hist>>

\* As if CLOSE were never answered.
RecvCloseNeverAnswers(e) ==
    /\ Recv(e, "CLOSE")
    /\ stat' = [stat EXCEPT ![e] = IF Present(e) THEN "CLOSED" ELSE @]
    /\ Take(e)
    /\ Done(e, "COMM")
    /\ UNCHANGED <<rpend, lbuf, ltClosed, hist>>

\* CLOSE is answered by CLOSED, also when the agent is gone, but not by an
\* agent that has sent CLOSE itself.
RecvClose(e) ==
    /\ Recv(e, "CLOSE")
    /\ stat' = [stat EXCEPT ![e] = IF Present(e) THEN "CLOSED" ELSE @]
    /\ IF stat[e] = "CLOSE"
         THEN Take(e)
         ELSE TakeSend(e, Pack("CLOSED", 0, 0, seq[e], Settled(e)))
    /\ Done(e, "COMM")
    /\ UNCHANGED <<rpend, lbuf, ltClosed, hist>>

RecvClosed(e) ==
    /\ Recv(e, "CLOSED")
    /\ Present(e)
    /\ stat' = [stat EXCEPT ![e] = "CLOSED"]
    /\ Take(e)
    /\ Done(e, "COMM")
    /\ UNCHANGED <<rpend, lbuf, ltClosed, hist>>

-----------------------------------------------------------------------------
\* As if buffered output did not keep an agent.
FreeAtOnce(e) ==
    /\ rev[e] = {}
    /\ stat[e] = "CLOSED"
    /\ stat' = [stat EXCEPT ![e] = "FREE"]
    /\ UNCHANGED <<rpend, lbuf, ltClosed, rev, chan, hist>>

(***************************************************************************)
(* sox_fdset closes the socket of a CLOSED agent and gives the agent back. *)
(* With output still buffered it waits until Llinger seconds have passed,  *)
(* unless a_ltCLOSED is set; bytes still in lbuf then are lost.  Polls may  *)
(* come before it: sox_fdset runs only when Qfdset is clear, and delAgent  *)
(* in its loop makes it pass over the agent after a released one.          *)
(***************************************************************************)
Free(e) ==
    /\ rev[e] = {}
    /\ stat[e] = "CLOSED"
    /\ lbuf[e] = 0 \/ ltClosed[e] \/ expired[e]
    /\ stat' = [stat EXCEPT ![e] = "FREE"]
    /\ UNCHANGED <<rpend, lbuf, ltClosed, rev, chan, hist>>

\* Llinger seconds after the CLOSE.
LingerExpires(e) ==
    /\ stat[e] = "CLOSED" /\ lbuf[e] > 0 /\ ~expired[e]
    /\ expired' = [expired EXCEPT ![e] = TRUE]
    /\ UNCHANGED <<stat, rpend, lbuf, ltClosed, rev, chan, seq, oob, urgent,
                   lost, got, gack, leak, extra>>

-----------------------------------------------------------------------------
Handle(e) ==
    \/ Flush(e)
    \/ Relay(e) \/ RelayAgain(e) \/ PushOOB(e) \/ NoOOB(e)
    \/ \E v \in {"PRI", "PUSH"} : RelayOOB(e, v)
    \/ \E v \in {"PRI", "IN"} : RelayEof(e, v)
    \/ \E v \in {"PRI", "IN", "PUSH"} : RelayIgnored(e, v)
    \/ RecvIgnored(e) \/ RecvConnect(e) \/ RecvConnectFail(e)
    \/ RecvConnected(e) \/ RecvSend(e) \/ RecvSent(e)
    \/ RecvSendOOB(e) \/ RecvSentOOB(e) \/ RecvClose(e) \/ RecvClosed(e)

Next == \E e \in End : Poll(e) \/ Handle(e) \/ Free(e) \/ LingerExpires(e)

Spec == Init /\ [][Next]_vars

(***************************************************************************)
(* Both processes stay in the loop of sox_mainX, what is written to the    *)
(* comm connection arrives, and a local socket that has output buffered is *)
(* writable again and again (its reader lives).                            *)
(***************************************************************************)
Fairness ==
    \A e \in End :
        /\ WF_vars(Handle(e)) /\ SF_vars(Free(e))
        /\ SF_vars(Poll(e) /\ "COMM" \in rev'[e])
        /\ SF_vars(Poll(e) /\ "OUT" \in rev'[e])
        /\ SF_vars(Flush(e) /\ lbuf'[e] < lbuf[e])
FairSpec == Spec /\ Fairness

-----------------------------------------------------------------------------
(***************************************************************************)
(* Properties.                                                             *)
(***************************************************************************)
\* Every variable holds a value the code's types allow; a_rpend, unsigned in
\* the code, never wraps below zero.
TypeOK ==
    /\ stat \in [End -> Status]
    /\ rpend \in [End -> Nat]
    /\ lbuf \in [End -> Nat]
    /\ ltClosed \in [End -> BOOLEAN]
    /\ rev \in [End -> SUBSET Event]
    /\ chan \in [End -> Seq(Packet)]
    /\ seq \in [End -> Nat] /\ oob \in [End -> Nat]
    /\ urgent \in [End -> SUBSET Nat] /\ lost \in [End -> SUBSET Nat]
    /\ got \in [End -> Nat] /\ gack \in [End -> Nat]
    /\ leak \in [End -> Nat] /\ extra \in [End -> Nat]
    /\ expired \in [End -> BOOLEAN]

\* The next payload an open agent takes from the comm connection starts
\* exactly where the last one it took ended: what it receives has no gap, no
\* repetition and no reordering.  (At the socket urgent bytes overtake the
\* buffered ones, see RecvSendOOB.)
InOrder ==
    \A e \in End :
        Open(e) /\ chan[e] # <<>> /\ Head(chan[e]).type \in {"SEND", "SENDOOB"}
            => Head(chan[e]).seq = got[e] + Head(chan[e]).len

\* What an agent buffers for its socket never exceeds its peer's window by
\* more than one packet, the bytes the peer read over its window because a
\* flush or an urgent byte had cleared its waiting status (extra), and its
\* urgent bytes, which the window does not stop.
BufferBound ==
    \A e \in End :
        lbuf[e] <= Window + Payload + extra[Peer(e)] + oob[Peer(e)]

\* A SOX_WAITING agent is "waiting remote, stop local input" (sox.cpp:163):
\* the window then keeps the bytes buffered at the peer within b_buf.
BufferFits == \A e \in End : lbuf[e] <= MAXBUFSIZE

\* The sum of a sequence of numbers.
Total(s) ==
    LET sum[i \in 0 .. Len(s)] == IF i = 0 THEN 0 ELSE sum[i - 1] + s[i]
    IN  sum[Len(s)]

\* The bytes that the packets of types T on their way to end e account for.
InFlight(e, T) ==
    Total([i \in 1 .. Len(chan[e]) |->
             IF chan[e][i].type \in T THEN chan[e][i].of ELSE 0])

\* a_rpend is what its comment says, "bytes pending in remote": the payload
\* in flight, the bytes in the peer's buffer and the acknowledgements in
\* flight, plus the credit that failed urgent sends never gave back.
CreditLedger ==
    \A e \in End : LET p == Peer(e) IN
        Open(e) /\ Open(p) =>
            rpend[e] = leak[e] + InFlight(p, {"SEND", "SENDOOB"})
                         + lbuf[p] + InFlight(e, {"SENT", "SENTOOB"})

\* An agent released after its peer's CLOSE, with nothing left in its buffer
\* and without end of file on its own side, has received the whole stream:
\* CLOSE overtakes no data.
CleanClose ==
    \A e \in End :
        stat[e] = "FREE" /\ ~ltClosed[e] /\ lbuf[e] = 0
            => got[e] = seq[Peer(e)]

\* An agent that is released although its own socket has not ended and its time
\* to linger is not over has passed on every byte its peer ever read, not only
\* received it, as CleanClose says: what it has not written was read as urgent
\* and refused by sendOOB, and no ordinary byte is among it.
NothingLost ==
    \A e \in End : stat[e] = "FREE" /\ ~ltClosed[e] /\ ~expired[e] =>
        /\ Settled(e) = seq[Peer(e)]
        /\ lost[e] \subseteq urgent[Peer(e)]

\* Once an agent is released, the packets still on their way to it are the
\* SENTs of a peer that flushes its buffer after it has answered CLOSED; no
\* data and no part of the handshake can reach the id's next owner.
FreedIsQuiet ==
    \A e \in End : stat[e] = "FREE" =>
        \A i \in 1 .. Len(chan[e]) : chan[e][i].type = "SENT"

\* An agent that stopped reading because its window was exceeded reads again
\* (or closes): some SENT comes that brings a_rpend below the window, unless
\* urgent bytes that sendOOB refused have used the window up.  Their credit
\* never comes back, and an agent that has lost all of it may stop for good.
Resumed ==
    \A e \in End :
        stat[e] = "SENDING" ~> stat[e] # "SENDING" \/ leak[e] >= Window

\* An agent that has entered the close handshake is released in the end, also
\* when both sides send CLOSE at once or the peer is already gone.
Released ==
    \A e \in End : (stat[e] \in Closing) ~> (stat[e] = "FREE")

-----------------------------------------------------------------------------
(***************************************************************************)
(* The inductive invariant.  An end is Live until it sends or receives     *)
(* CLOSE.  The packets on their way to a Live end carry on, without a gap, *)
(* from what it has received and seen acknowledged to where its peer is.   *)
(***************************************************************************)
Live(e) == stat[e] \notin Closing \cup {"REFUSED", "FREE"}

\* End e may still write SEND or SENT packets.
Sender(e) == Live(e) \/ lbuf[e] > 0

\* A packet's share of its sender's stream, and of its receiver's.
Carries(pk) == IF pk.type \in {"SEND", "SENDOOB"} THEN pk.of ELSE 0
Answers(pk) == IF pk.type \in {"SENT", "SENTOOB"} THEN pk.of ELSE 0

\* The positions after the first i packets on their way to e.
SeqAt(e, i) == IF i = 0 THEN got[e] ELSE chan[e][i].seq
AckAt(e, i) == IF i = 0 THEN gack[e] ELSE chan[e][i].ack

Chain(e) ==
    Live(e) =>
        /\ \A i \in 1 .. Len(chan[e]) :
             /\ SeqAt(e, i) = SeqAt(e, i - 1) + Carries(chan[e][i])
             /\ AckAt(e, i) = AckAt(e, i - 1) + Answers(chan[e][i])
        /\ SeqAt(e, Len(chan[e])) = seq[Peer(e)]
        /\ Sender(Peer(e)) => AckAt(e, Len(chan[e])) = Settled(Peer(e))

\* What is in flight lies behind its sender's positions.
PacketOK(pk) ==
    /\ pk.type \in {"SEND", "SENDOOB", "SENT"} => pk.len = pk.of
    /\ pk.len <= pk.of
Packets(e) ==
    \A i \in 1 .. Len(chan[e]) :
        /\ PacketOK(chan[e][i])
        /\ chan[e][i].seq <= seq[Peer(e)]
        /\ chan[e][i].ack <= Settled(Peer(e))

\* Only what the peer has read as urgent is sent, and lost, as such.
Urgent(e) ==
    /\ lost[e] \subseteq urgent[Peer(e)]
    /\ \A i \in 1 .. Len(chan[e]) :
         chan[e][i].type = "SENDOOB" => Rest(chan[e][i], 0) \subseteq urgent[Peer(e)]

\* a_rpend and the positions, and the window.
Counts(e) ==
    /\ rpend[e] = leak[e] + seq[e] - gack[e]
    /\ got[e] <= seq[Peer(e)]
    /\ gack[Peer(e)] <= Settled(e)
    /\ stat[e] = "SEND" => rpend[e] <= Window
    /\ seq[e] - gack[e] <= Window + Payload + extra[e] + oob[e]

\* Before the connection is made the near end is silent.
Opening ==
    /\ stat["near"] \notin {"NONE", "REFUSED"}
    /\ stat["far"] \in {"NONE", "REFUSED"} =>
         /\ lbuf["near"] = 0 /\ lbuf["far"] = 0
         /\ stat["near"] \in {"CONNECT", "CLOSED", "FREE"}
         /\ stat["near"] = "CONNECT" => rev["near"] \subseteq {"COMM"}
         /\ stat["near"] = "CONNECT" /\ stat["far"] = "REFUSED" =>
              Len(chan["near"]) = 1 /\ chan["near"][1].type = "CLOSE"
    /\ stat["far"] = "NONE" =>
         /\ stat["near"] = "CONNECT"
         /\ Len(chan["near"]) = 0
         /\ Len(chan["far"]) = 1 /\ chan["far"][1].type = "CONNECT"

\* A packet of type t is on its way to end e.
In(e, t) == \E i \in 1 .. Len(chan[e]) : chan[e][i].type = t
\* Nothing but SENT follows packet i.
OnlySent(e, i) == \A j \in i + 1 .. Len(chan[e]) : chan[e][j].type = "SENT"

\* Where the CLOSE handshake stands at end e.
Handshake(e) ==
    /\ Live(e) => /\ Live(Peer(e)) \/ stat[Peer(e)] \in {"CLOSE", "REFUSED"}
                  /\ ~In(e, "CLOSED")
                  /\ In(e, "CLOSE") <=> ~Live(Peer(e))
    /\ stat[e] = "CLOSE" =>
         /\ stat[Peer(e)] # "REFUSED"
         /\ stat[Peer(e)] \in {"CLOSED", "FREE"} => ~In(Peer(e), "CLOSE")
         /\ ltClosed[e] /\ lbuf[e] = 0
    /\ stat[e] \in {"CLOSED", "FREE"} =>
         /\ ~Live(Peer(e))
         /\ OnlySent(e, 0)
         /\ ltClosed[e] \/ got[e] = seq[Peer(e)]
    /\ stat[e] = "REFUSED" => ~In(e, "CLOSE")
    /\ In(e, "CONNECT") => stat[e] = "NONE"

\* CLOSE is the last packet its sender writes; only SENT follows CLOSED.
LastWords(e) ==
    \A i \in 1 .. Len(chan[e]) :
        /\ chan[e][i].type = "CLOSE" =>
             i = Len(chan[e]) /\ ~Sender(Peer(e))
        /\ chan[e][i].type = "CLOSED" =>
             stat[Peer(e)] \in {"CLOSED", "FREE"} /\ OnlySent(e, i)

\* An end without an agent has nothing but the comm connection to handle.
Polled(e) == stat[e] \in Absent => rev[e] \subseteq {"COMM"}

IInv ==
    /\ TypeOK
    /\ Opening
    /\ \A e \in End : /\ Chain(e) /\ Packets(e) /\ Counts(e)
                      /\ Handshake(e) /\ LastWords(e) /\ Polled(e)
=============================================================================

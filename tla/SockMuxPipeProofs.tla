------------------------- MODULE SockMuxPipeProofs -------------------------
(***************************************************************************)
(* The refinement of SockMuxFlowPipe, proved for every packet size, window *)
(* and bound: each step of the two ends is a step of Pipe or leaves it as  *)
(* it is.  What a step needs of the state before it comes from the         *)
(* inductive invariant of SockMuxFlowProofs.                               *)
(***************************************************************************)
EXTENDS SockMuxFlowPipe, SockMuxFlowProofs

\* The phase follows the status of one agent.
LEMMA PhaseStep ==
    ASSUME NEW e \in End, NEW s, stat \in [End -> Status],
           stat' = [stat EXCEPT ![e] = s]
    PROVE  PipePhase' = [PipePhase EXCEPT ![e] = PhaseOf(s)]
  BY DEF PipePhase

\* Each status has its phase.
LEMMA Phases ==
    ASSUME IInv, NEW e \in End
    PROVE  /\ PipePhase[e] = PhaseOf(stat[e])
           /\ Open(e) => PipePhase[e] = "open"
           /\ stat[e] \in Closing => PipePhase[e] = "closing"
           /\ stat[e] = "NONE" => PipePhase[e] = "idle"
           /\ stat[e] = "FREE" => PipePhase[e] = "gone"
           /\ stat[e] = "REFUSED" => PipePhase[e] = "refused"
           /\ PhaseOf("CLOSED") = "closing" /\ PhaseOf("CLOSE") = "closing"
           /\ PhaseOf("FREE") = "gone" /\ PhaseOf("REFUSED") = "refused"
           /\ \A s \in Status \ (Closing \cup Absent) : PhaseOf(s) = "open"
  BY DEF PipePhase, PhaseOf, Open, Closing, Absent, Status, Waiting

\* The positions an end has reached lie within its peer's stream.
LEMMA Reached ==
    ASSUME IInv, NEW e \in End
    PROVE  /\ Peer(e) \in End /\ got[e] \in Nat /\ lbuf[e] \in Nat
           /\ seq[e] \in Nat /\ seq[Peer(e)] \in Nat
           /\ got[e] <= seq[Peer(e)] /\ lbuf[e] <= got[e]
           /\ PipeDone[e] = got[e] - lbuf[e]
<1>1. TypeOK /\ Counts(e) /\ Counts(Peer(e)) /\ Peer(e) \in End /\ Peer(Peer(e)) = e
  BY Parts, Peers
<1>3. /\ got[e] \in Nat /\ lbuf[e] \in Nat /\ seq[e] \in Nat
      /\ seq[Peer(e)] \in Nat
  BY <1>1, Types
<1>4. got[e] <= seq[Peer(e)]
  BY <1>1 DEF Counts
<1>5. PipeDone[e] = got[e] - lbuf[e]
  BY DEF PipeDone, Settled
<1>2. gack[Peer(e)] <= got[e] - lbuf[e] /\ gack[Peer(e)] \in Nat
  BY <1>1, Types DEF Counts, Settled
<1> QED
  BY <1>1, <1>2, <1>3, <1>4, <1>5

\* A step that keeps both buffers and positions keeps what is done.
LEMMA DoneSame ==
    ASSUME UNCHANGED <<lbuf, got>> PROVE PipeDone' = PipeDone
  BY DEF PipeDone, Settled

\* n more bytes of one end are out of its buffer: done grows by n there, and only there.
LEMMA DoneStep ==
    ASSUME IInv, NEW e \in End, NEW n,
           \A x \in End : x # e => lbuf'[x] = lbuf[x] /\ got'[x] = got[x],
           got'[e] - lbuf'[e] = PipeDone[e] + n
    PROVE  PipeDone' = [PipeDone EXCEPT ![e] = @ + n]
  BY DEF PipeDone, Settled

\* Nobody becomes excused while a_ltCLOSED and the linger time stay.
LEMMA ExcusedSame ==
    ASSUME UNCHANGED <<ltClosed, expired>> PROVE PipeExcused' = PipeExcused
  BY DEF PipeExcused

\* Once a_ltCLOSED is set or the linger time is over the end is excused.
LEMMA ExcusedStep ==
    ASSUME IInv, NEW e \in End,
           \/ ltClosed' = [ltClosed EXCEPT ![e] = TRUE] /\ expired' = expired
           \/ expired' = [expired EXCEPT ![e] = TRUE] /\ ltClosed' = ltClosed
    PROVE  PipeExcused' = [PipeExcused EXCEPT ![e] = TRUE]
<1>1. ltClosed \in [End -> BOOLEAN] /\ expired \in [End -> BOOLEAN]
  BY Parts DEF TypeOK
<1>2. ASSUME NEW x \in End
      PROVE  PipeExcused'[x] = [PipeExcused EXCEPT ![e] = TRUE][x]
  BY <1>1, <1>2, Zenon DEF PipeExcused
<1> QED
  BY <1>2 DEF PipeExcused

\* A step that keeps the phases, the streams and the excuses is none of Pipe's.
LEMMA Stutters ==
    ASSUME UNCHANGED <<PipePhase, seq, PipeDone, PipeExcused>>
    PROVE  [Conn!Next]_(Conn!vars)
  BY DEF Conn!vars

\* A step of one end is a step of Pipe.
LEMMA Steps ==
    ASSUME NEW e \in End,
           \/ Conn!Open(e) \/ Conn!Refuse(e) \/ Conn!Write(e) \/ Conn!Deliver(e)
           \/ Conn!CloseSelf(e) \/ Conn!CloseAfter(e) \/ Conn!Excuse(e) \/ Conn!Leave(e)
    PROVE  [Conn!Next]_(Conn!vars)
  BY DEF Conn!Next

\* An agent that stays open stays in its phase.
LEMMA PhaseOpen ==
    ASSUME IInv, NEW e \in End, Open(e),
           NEW s \in Status \ (Closing \cup Absent), stat' = [stat EXCEPT ![e] = s]
    PROVE  PipePhase' = PipePhase
<1>1. stat \in [End -> Status]
  BY Parts DEF TypeOK
<1>2. PhaseOf(s) = "open" /\ PipePhase[e] = "open"
  BY Phases
<1>3. PipePhase' = [PipePhase EXCEPT ![e] = "open"]
  BY <1>1, <1>2, PhaseStep
<1> QED
  BY <1>2, <1>3 DEF PipePhase

\* The phases of the pipe follow a_stat and nothing else.
LEMMA PhaseSame == ASSUME stat' = stat PROVE PipePhase' = PipePhase
  BY DEF PipePhase

\* n more bytes have left the buffer of an agent.
LEMMA Delivers ==
    ASSUME IInv, NEW e \in End, Open(e) \/ stat[e] \in Closing, NEW n \in Nat,
           UNCHANGED <<PipePhase, seq, PipeExcused>>,
           \A x \in End : x # e => lbuf'[x] = lbuf[x] /\ got'[x] = got[x],
           got'[e] - lbuf'[e] = PipeDone[e] + n,
           n <= seq[Peer(e)] - PipeDone[e]
    PROVE  [Conn!Next]_(Conn!vars)
<1>1. PipeDone' = [PipeDone EXCEPT ![e] = @ + n]
  BY DoneStep
<1>2. PipePhase[e] \in {"open", "closing"}
  BY Phases
<1>3. PipeDone[e] \in Int /\ seq[Peer(e)] \in Nat
  BY Reached
<1>4. CASE n = 0
  <2>2. PipeDone = [x \in End |-> PipeDone[x]] /\ PipeDone[e] + n = PipeDone[e]
    BY <1>3, <1>4 DEF PipeDone
  <2>1. PipeDone' = PipeDone
    BY <1>1, <2>2
  <2> QED
    BY <2>1, Stutters
<1>5. CASE n # 0
  <2>1. n \in 1 .. seq[Peer(e)] - PipeDone[e]
    BY <1>3, <1>5
  <2>2. Conn!Deliver(e)
    BY <1>1, <1>2, <2>1 DEF Conn!Deliver
  <2> QED
    BY <2>2, Steps
<1> QED
  BY <1>4, <1>5

\* PS_OUT: a flush delivers; a CLOSE agent has nothing to flush.
LEMMA FlushPipe == ASSUME IInv, NEW e \in End, Flush(e) PROVE [Conn!Next]_(Conn!vars)
<1>1. TypeOK /\ Handshake(e) /\ Polled(e) /\ stat \in [End -> Status]
      /\ lbuf \in [End -> Nat]
  BY Parts DEF TypeOK
<1>2. PipeExcused' = PipeExcused /\ seq' = seq /\ got' = got
  BY ExcusedSame DEF Flush, hist
<1>3. PICK w \in 0 .. lbuf[e] :
         \/ w = 0 /\ UNCHANGED <<stat, lbuf, chan>>
         \/ /\ w > 0
            /\ lbuf' = [lbuf EXCEPT ![e] = @ - w]
            /\ stat' = [stat EXCEPT ![e] = IF @ = "CLOSED" THEN @ ELSE "SENT"]
  BY DEF Flush
<1>4. CASE w = 0 /\ UNCHANGED <<stat, lbuf, chan>>
  BY <1>2, <1>4, PhaseSame, DoneSame, Stutters
<1>5. CASE /\ w > 0
           /\ lbuf' = [lbuf EXCEPT ![e] = @ - w]
           /\ stat' = [stat EXCEPT ![e] = IF @ = "CLOSED" THEN @ ELSE "SENT"]
  <2>1. stat[e] # "CLOSE" /\ w \in Nat
    BY <1>1, <1>3, <1>5 DEF Handshake
  <2>2. stat[e] \notin Absent
    BY <1>1 DEF Flush, Turn, Polled
  <2>3. PipePhase' = PipePhase
    <3>1. CASE stat[e] = "CLOSED"
      <4>1. stat' = stat
        BY <1>1, <1>5, <3>1
      <4> QED
        BY <4>1, PhaseSame
    <3>2. CASE stat[e] # "CLOSED"
      <4>1. Open(e) /\ "SENT" \in Status \ (Closing \cup Absent)
        BY <2>1, <2>2, <3>2 DEF Open, Closing, Absent, Status, Waiting
      <4>2. stat' = [stat EXCEPT ![e] = "SENT"]
        BY <1>5, <3>2
      <4> QED
        BY <4>1, <4>2, PhaseOpen
    <3> QED
      BY <3>1, <3>2
  <2>4. Open(e) \/ stat[e] \in Closing
    BY <2>2 DEF Open
  <2>5. /\ got'[e] - lbuf'[e] = PipeDone[e] + w
        /\ w <= seq[Peer(e)] - PipeDone[e]
    BY <1>1, <1>2, <1>3, <1>5, Reached
  <2>6. \A x \in End : x # e => lbuf'[x] = lbuf[x] /\ got'[x] = got[x]
    BY <1>1, <1>2, <1>5
  <2> QED
    BY <1>2, <2>1, <2>3, <2>4, <2>5, <2>6, Delivers
<1> QED
  BY <1>3, <1>4, <1>5

\* sox_relay1: bytes are read and sent.
LEMMA WritePipe ==
    ASSUME IInv, NEW e \in End, Open(e), NEW n \in 1 .. Payload,
           NEW s \in Status \ (Closing \cup Absent), stat' = [stat EXCEPT ![e] = s],
           seq' = [seq EXCEPT ![e] = @ + n],
           UNCHANGED <<lbuf, got, ltClosed, expired>>
    PROVE  [Conn!Next]_(Conn!vars)
<1>1. PipePhase' = PipePhase /\ PipeDone' = PipeDone /\ PipeExcused' = PipeExcused
  BY PhaseOpen, DoneSame, ExcusedSame
<1>2. PipePhase[e] = "open"
  BY Phases
<1>3. Conn!Write(e)
  BY <1>1, <1>2 DEF Conn!Write
<1> QED
  BY <1>3, Steps

\* sock2comm of ordinary data writes into the pipe.
LEMMA RelayPipe == ASSUME IInv, NEW e \in End, Relay(e) PROVE [Conn!Next]_(Conn!vars)
<1>1. PICK n \in 1 .. Payload : seq' = [seq EXCEPT ![e] = @ + n]
  BY DEF Relay
<1>2. SendStat(rpend'[e]) \in Status \ (Closing \cup Absent)
  BY DEF SendStat, Status, Closing, Absent, Waiting
<1> QED
  BY <1>1, <1>2, WritePipe DEF Relay

\* sock2comm of urgent data writes into the pipe as well.
LEMMA RelayOOBPipe ==
    ASSUME IInv, NEW e \in End, NEW v, RelayOOB(e, v) PROVE [Conn!Next]_(Conn!vars)
<1>1. PICK n \in 1 .. Payload : seq' = [seq EXCEPT ![e] = @ + n]
  BY DEF RelayOOB
<1>2. "SENDINGOOB" \in Status \ (Closing \cup Absent)
  BY DEF Status, Closing, Absent, Waiting
<1> QED
  BY <1>1, <1>2, WritePipe DEF RelayOOB

\* An end gets its excuse, or has it already.
LEMMA ExcusePipe ==
    ASSUME IInv, NEW e \in End, Open(e) \/ stat[e] \in Closing,
           UNCHANGED <<stat, seq, lbuf, got>>,
           \/ ltClosed' = [ltClosed EXCEPT ![e] = TRUE] /\ expired' = expired
           \/ expired' = [expired EXCEPT ![e] = TRUE] /\ ltClosed' = ltClosed
    PROVE  [Conn!Next]_(Conn!vars)
<1>1. PipeExcused' = [PipeExcused EXCEPT ![e] = TRUE]
  BY ExcusedStep
<1>2. PipePhase' = PipePhase /\ PipeDone' = PipeDone
  BY PhaseSame, DoneSame
<1>3. PipeExcused \in [End -> BOOLEAN]
  BY DEF PipeExcused
<1>4. CASE PipeExcused[e]
  <2>1. PipeExcused' = PipeExcused
    BY <1>1, <1>3, <1>4
  <2> QED
    BY <1>2, <2>1, Stutters
<1>5. CASE ~PipeExcused[e]
  <2>1. PipePhase[e] \in {"open", "closing"}
    BY Phases
  <2>2. Conn!Excuse(e)
    BY <1>1, <1>2, <1>5, <2>1 DEF Conn!Excuse
  <2> QED
    BY <2>2, Steps
<1> QED
  BY <1>4, <1>5

\* End of file on the local socket.
LEMMA RelayEofPipe ==
    ASSUME IInv, NEW e \in End, NEW v, RelayEof(e, v) PROVE [Conn!Next]_(Conn!vars)
<1>1. /\ Open(e) /\ stat' = [stat EXCEPT ![e] = "CLOSE"]
      /\ ltClosed' = [ltClosed EXCEPT ![e] = TRUE] /\ expired' = expired
      /\ lbuf' = [lbuf EXCEPT ![e] = 0] /\ seq' = seq /\ got' = got
  BY DEF RelayEof, hist
<1>2. TypeOK /\ stat \in [End -> Status] /\ lbuf \in [End -> Nat]
  BY Parts DEF TypeOK
<1>3. PipeExcused' = [PipeExcused EXCEPT ![e] = TRUE]
  BY <1>1, ExcusedStep
<1>8. PhaseOf("CLOSE") = "closing" /\ PipePhase[e] = "open"
  BY <1>1, Phases
<1>4. PipePhase' = [PipePhase EXCEPT ![e] = "closing"]
  <2>1. PipePhase' = [PipePhase EXCEPT ![e] = PhaseOf("CLOSE")]
    BY <1>1, <1>2, PhaseStep
  <2> QED
    BY <1>8, <2>1
<1>5. /\ lbuf[e] \in 0 .. seq[Peer(e)] - PipeDone[e]
      /\ got'[e] - lbuf'[e] = PipeDone[e] + lbuf[e]
  BY <1>1, <1>2, Reached
<1>6. PipeDone' = [PipeDone EXCEPT ![e] = @ + lbuf[e]]
  <2>1. \A x \in End : x # e => lbuf'[x] = lbuf[x] /\ got'[x] = got[x]
    BY <1>1, <1>2
  <2> QED
    BY <1>5, <2>1, DoneStep
<1>7. Conn!CloseSelf(e)
  BY <1>1, <1>3, <1>4, <1>5, <1>6, <1>8 DEF Conn!CloseSelf
<1> QED
  BY <1>7, Steps

\* SOX_CONNECT: an end without an agent opens, or refuses.
LEMMA ConnectPipe ==
    ASSUME IInv, NEW e \in End, RecvConnect(e) \/ RecvConnectFail(e)
    PROVE  [Conn!Next]_(Conn!vars)
<1>1. /\ Recv(e, "CONNECT") /\ UNCHANGED <<seq, lbuf, got, ltClosed, expired>>
      /\ \E s \in {"CONNECTED", "REFUSED"} : stat' = [stat EXCEPT ![e] = s]
  BY DEF RecvConnect, RecvConnectFail, hist
<1>2. stat[e] = "NONE"
  <2>1. chan[e] # <<>> /\ Head(chan[e]).type = "CONNECT"
    BY <1>1 DEF Recv
  <2>2. In(e, "CONNECT")
    BY <2>1, HeadFacts DEF In
  <2> QED
    BY <2>2, Parts DEF Handshake
<1>3. PipePhase[e] = "idle" /\ PhaseOf("REFUSED") = "refused" /\ stat \in [End -> Status]
  BY <1>2, Parts, Phases DEF TypeOK
<1>4. PhaseOf("CONNECTED") = "open"
  BY DEF PhaseOf, Closing
<1>5. UNCHANGED <<PipeDone, PipeExcused>>
  BY <1>1, DoneSame, ExcusedSame
<1>6. CASE stat' = [stat EXCEPT ![e] = "CONNECTED"]
  <2>1. PipePhase' = [PipePhase EXCEPT ![e] = PhaseOf("CONNECTED")]
    BY <1>3, <1>6, PhaseStep
  <2>2. Conn!Open(e)
    BY <1>1, <1>3, <1>4, <1>5, <2>1 DEF Conn!Open
  <2> QED
    BY <2>2, Steps
<1>7. CASE stat' = [stat EXCEPT ![e] = "REFUSED"]
  <2>1. PipePhase' = [PipePhase EXCEPT ![e] = PhaseOf("REFUSED")]
    BY <1>3, <1>7, PhaseStep
  <2>2. Conn!Refuse(e)
    BY <1>1, <1>3, <1>5, <2>1 DEF Conn!Refuse
  <2> QED
    BY <2>2, Steps
<1> QED
  BY <1>1, <1>6, <1>7

\* Acknowledgements and CONNECTED move an open agent only among open statuses.
LEMMA AnswerPipe ==
    ASSUME IInv, NEW e \in End, RecvConnected(e) \/ RecvSent(e) \/ RecvSentOOB(e)
    PROVE  [Conn!Next]_(Conn!vars)
<1>1. Open(e) /\ UNCHANGED <<seq, lbuf, got, ltClosed, expired>>
  BY DEF RecvConnected, RecvSent, RecvSentOOB, hist
<1>2. stat[e] \in Status \ (Closing \cup Absent)
  BY <1>1, Parts, Types DEF Open
<1>3. \E s \in Status \ (Closing \cup Absent) : stat' = [stat EXCEPT ![e] = s]
  <2>1. {"CONNECTED", "SENT", "SENTOOB"} \subseteq Status \ (Closing \cup Absent)
    BY DEF Status, Closing, Absent, Waiting
  <2>2. \A r : SentStat(stat[e], r) \in Status \ (Closing \cup Absent)
    BY <1>2, <2>1 DEF SentStat
  <2> QED
    BY <2>1, <2>2 DEF RecvConnected, RecvSent, RecvSentOOB
<1>4. UNCHANGED <<PipePhase, PipeDone, PipeExcused>>
  BY <1>1, <1>3, PhaseOpen, DoneSame, ExcusedSame
<1> QED
  BY <1>1, <1>4, Stutters

\* SEND: w bytes go to the socket.  SENDOOB: the whole packet is over.
LEMMA DataPipe ==
    ASSUME IInv, NEW e \in End, RecvSend(e) \/ RecvSendOOB(e)
    PROVE  [Conn!Next]_(Conn!vars)
<1> DEFINE m == chan[e][1]
<1>1. /\ Open(e) /\ chan[e] # <<>> /\ UNCHANGED <<stat, seq, ltClosed, expired>>
      /\ Head(chan[e]).type \in {"SEND", "SENDOOB"}
  BY DEF RecvSend, RecvSendOOB, Recv
<1>2. /\ Head(chan[e]) = m /\ m.len \in Nat
      /\ got[e] + m.len <= seq[Peer(e)]
  <2>1. Live(e)
    BY <1>1, OpenLive
  <2> QED
    BY <1>1, <2>1, HeadFacts DEF PacketOK, Carries
<1>3. lbuf \in [End -> Nat] /\ got \in [End -> Nat]
  BY Parts DEF TypeOK
<1>4. got' = [got EXCEPT ![e] = @ + m.len]
  BY <1>2 DEF RecvSend, RecvSendOOB
<1>5. \E w \in 0 .. lbuf[e] + m.len : lbuf' = [lbuf EXCEPT ![e] = @ + m.len - w]
  <2>1. CASE RecvSend(e)
    BY <1>2, <2>1 DEF RecvSend
  <2>2. CASE RecvSendOOB(e)
    <3>1. lbuf' = [lbuf EXCEPT ![e] = @ + m.len - m.len]
      BY <1>2, <1>3, <2>2 DEF RecvSendOOB
    <3>2. m.len \in 0 .. lbuf[e] + m.len
      BY <1>2, <1>3
    <3> QED
      BY <3>1, <3>2
  <2> QED
    BY <2>1, <2>2
<1>6. PICK w \in 0 .. lbuf[e] + m.len : lbuf' = [lbuf EXCEPT ![e] = @ + m.len - w]
  BY <1>5
<1>7. /\ w \in Nat /\ got'[e] - lbuf'[e] = PipeDone[e] + w
      /\ w <= seq[Peer(e)] - PipeDone[e]
  BY <1>2, <1>3, <1>4, <1>6, Reached
<1>8. \A x \in End : x # e => lbuf'[x] = lbuf[x] /\ got'[x] = got[x]
  BY <1>3, <1>4, <1>6
<1>9. UNCHANGED <<PipePhase, PipeExcused>>
  BY <1>1, PhaseSame, ExcusedSame
<1> QED
  BY <1>1, <1>7, <1>8, <1>9, Delivers

\* CLOSE reaches an open agent only when the peer is closing, gone or has
\* refused; CLOSED reaches none.
LEMMA ClosePipe ==
    ASSUME IInv, NEW e \in End, RecvClose(e) \/ RecvClosed(e)
    PROVE  [Conn!Next]_(Conn!vars)
<1>1. /\ UNCHANGED <<seq, lbuf, got, ltClosed, expired>>
      /\ stat' = [stat EXCEPT ![e] = IF Present(e) THEN "CLOSED" ELSE @]
      /\ chan[e] # <<>> /\ Head(chan[e]).type \in {"CLOSE", "CLOSED"}
  BY DEF RecvClose, RecvClosed, Recv, hist
<1>2. UNCHANGED <<PipeDone, PipeExcused>>
  BY <1>1, DoneSame, ExcusedSame
<1>3. stat \in [End -> Status] /\ Handshake(e) /\ Peer(e) \in End
  BY Parts, Peers DEF TypeOK
<1>4. CASE ~Present(e)
  <2>1. stat' = stat
    BY <1>1, <1>3, <1>4
  <2> QED
    BY <1>1, <1>2, <2>1, PhaseSame, Stutters
<1>5. CASE stat[e] \in Closing
  <2>1. Present(e)
    BY <1>5 DEF Present, Closing, Absent
  <2>2. PipePhase' = [PipePhase EXCEPT ![e] = PhaseOf("CLOSED")]
    BY <1>1, <1>3, <2>1, PhaseStep
  <2>3. PipePhase[e] = PhaseOf("CLOSED")
    BY <1>5, Phases
  <2>4. PipePhase' = PipePhase
    BY <2>2, <2>3 DEF PipePhase
  <2> QED
    BY <1>1, <1>2, <2>4, Stutters
<1>6. CASE Open(e)
  <2>1. Live(e) /\ Present(e)
    BY <1>6, OpenLive DEF Open, Present
  <2>2. In(e, "CLOSE") \/ In(e, "CLOSED")
    BY <1>1, HeadFacts DEF In
  <2>3. ~Live(Peer(e))
    BY <1>3, <2>1, <2>2 DEF Handshake
  <2>4. PipePhase[Peer(e)] \in {"closing", "gone", "refused"}
    BY <1>3, <2>3, Phases DEF Live
  <2>5. PipePhase' = [PipePhase EXCEPT ![e] = PhaseOf("CLOSED")]
    BY <1>1, <1>3, <2>1, PhaseStep
  <2>6. PipePhase[e] = "open" /\ PhaseOf("CLOSED") = "closing"
    BY <1>6, Phases
  <2>7. Conn!CloseAfter(e)
    BY <1>1, <1>2, <2>4, <2>5, <2>6 DEF Conn!CloseAfter
  <2> QED
    BY <2>7, Steps
<1> QED
  BY <1>4, <1>5, <1>6 DEF Open, Present

\* sox_fdset: nothing is missing when nothing is buffered, unless the end has
\* seen its own socket end.
LEMMA FreePipe == ASSUME IInv, NEW e \in End, Free(e) PROVE [Conn!Next]_(Conn!vars)
<1>1. /\ UNCHANGED <<seq, lbuf, got, ltClosed, expired>>
      /\ stat[e] = "CLOSED" /\ stat' = [stat EXCEPT ![e] = "FREE"]
      /\ lbuf[e] = 0 \/ ltClosed[e] \/ expired[e]
  BY DEF Free, hist
<1>2. UNCHANGED <<PipeDone, PipeExcused>>
  BY <1>1, DoneSame, ExcusedSame
<1>3. stat \in [End -> Status] /\ Handshake(e)
  BY Parts DEF TypeOK
<1>4. PipePhase[e] = "closing" /\ PhaseOf("FREE") = "gone"
  BY <1>1, Phases DEF Closing
<1>5. PipePhase' = [PipePhase EXCEPT ![e] = "gone"]
  <2>1. PipePhase' = [PipePhase EXCEPT ![e] = PhaseOf("FREE")]
    BY <1>1, <1>3, PhaseStep
  <2> QED
    BY <1>4, <2>1
<1>6. PipeDone[e] = seq[Peer(e)] \/ PipeExcused[e]
  <2>1. CASE ltClosed[e] \/ expired[e]
    BY <2>1 DEF PipeExcused
  <2>2. CASE ~ltClosed[e] /\ ~expired[e]
    <3>1. lbuf[e] = 0 /\ got[e] = seq[Peer(e)]
      BY <1>1, <1>3, <2>2 DEF Handshake
    <3> QED
      BY <3>1, Reached
  <2> QED
    BY <2>1, <2>2
<1>7. Conn!Leave(e)
  BY <1>1, <1>2, <1>4, <1>5, <1>6 DEF Conn!Leave
<1> QED
  BY <1>7, Steps

\* Polls, and events and packets that are ignored.
LEMMA QuietPipe ==
    ASSUME UNCHANGED <<stat, seq, lbuf, got, ltClosed, expired>>
    PROVE  [Conn!Next]_(Conn!vars)
  BY PhaseSame, DoneSame, ExcusedSame, Stutters

\* Every event of a turn is a step of the pipe or a stutter.
LEMMA HandlePipe == ASSUME IInv, NEW e \in End, Handle(e) PROVE [Conn!Next]_(Conn!vars)
<1>1. CASE PushOOB(e) \/ NoOOB(e) \/ RecvIgnored(e)
           \/ \E v \in {"PRI", "IN", "PUSH"} : RelayIgnored(e, v)
  BY <1>1, QuietPipe DEF PushOOB, NoOOB, RecvIgnored, RelayIgnored, hist
<1>2. CASE RelayAgain(e)
  BY <1>2, ExcusePipe DEF RelayAgain, hist
<1> QED
  BY <1>1, <1>2, FlushPipe, RelayPipe, RelayOOBPipe, RelayEofPipe, ConnectPipe,
     AnswerPipe, DataPipe, ClosePipe DEF Handle

\* The two ends of sox.cpp, with their window, their buffers and their
\* handshake, implement the pipe between two sockets that Pipe describes, for
\* every size of packets and window and whatever is sent.
THEOREM Refines == Spec => IsPipe
<1>1. Init => Conn!Init
  <2> SUFFICES ASSUME Init PROVE Conn!Init
    OBVIOUS
  <2>1. PipePhase = [e \in End |-> IF e = "near" THEN "open" ELSE "idle"]
    BY DEF Init, PipePhase, PhaseOf, End, Closing
  <2>2. PipeDone = [e \in End |-> 0]
    BY DEF Init, PipeDone, Settled
  <2>3. PipeExcused = [e \in End |-> FALSE]
    BY DEF Init, PipeExcused
  <2> QED
    BY <2>1, <2>2, <2>3 DEF Init, Conn!Init
<1>2. IInv /\ [Next]_vars => [Conn!Next]_(Conn!vars)
  <2> SUFFICES ASSUME IInv, [Next]_vars PROVE [Conn!Next]_(Conn!vars)
    OBVIOUS
  <2>1. ASSUME NEW e \in End, Poll(e) PROVE [Conn!Next]_(Conn!vars)
    BY <2>1, QuietPipe DEF Poll, hist
  <2>2. ASSUME NEW e \in End, LingerExpires(e) PROVE [Conn!Next]_(Conn!vars)
    BY <2>2, ExcusePipe DEF LingerExpires, Closing
  <2>3. CASE UNCHANGED vars
    BY <2>3, QuietPipe DEF vars
  <2> QED
    BY <2>1, <2>2, <2>3, HandlePipe, FreePipe DEF Next
<1> QED
  BY <1>1, <1>2, Inductive, PTL DEF Spec, IsPipe, Conn!Spec

-----------------------------------------------------------------------------
(* What follows from the pipe alone. *)

\* Where an end without excuse closes, its peer has closed before and sends no
\* more: what it has then is all.
Over == {"closing", "gone", "refused"}
PInv ==
    /\ seq \in [End -> Nat] /\ PipeDone \in [End -> Nat]
    /\ PipePhase = [e \in End |-> PipePhase[e]]
    /\ PipeExcused = [e \in End |-> PipeExcused[e]]
    /\ \A e \in End :
         /\ PipeDone[e] <= seq[Peer(e)]
         /\ PipePhase[e] \in {"closing", "gone"} /\ ~PipeExcused[e]
              => PipePhase[Peer(e)] \in Over
         /\ PipePhase[e] = "gone" /\ ~PipeExcused[e] => PipeDone[e] = seq[Peer(e)]

\* The steps of a pipe that move bytes.
LEMMA PipeBytes ==
    ASSUME PInv, NEW e \in End, Conn!Write(e) \/ Conn!Deliver(e)
    PROVE  PInv'
<1>1. Payload \in Nat /\ Peer(e) \in End
  BY Sizes, Peers
<1>2. CASE Conn!Write(e)
  <2>1. /\ PipePhase[e] = "open" /\ UNCHANGED <<PipePhase, PipeDone, PipeExcused>>
        /\ \E n \in 1 .. Payload : seq' = [seq EXCEPT ![e] = @ + n]
    BY <1>2 DEF Conn!Write
  <2>2. PICK n \in 1 .. Payload : seq' = [seq EXCEPT ![e] = @ + n]
    BY <2>1
  <2>3. n \in Nat
    BY <1>1
  <2>4. /\ seq' \in [End -> Nat] /\ seq'[e] >= seq[e]
        /\ \A x \in End : x # e => seq'[x] = seq[x]
    BY <2>2, <2>3 DEF PInv
  <2>5. ASSUME NEW x \in End
        PROVE  /\ PipeDone[x] <= seq'[Peer(x)]
               /\ PipePhase[x] = "gone" /\ ~PipeExcused[x] => PipeDone[x] = seq'[Peer(x)]
    <3>1. CASE Peer(x) = e
      <4>1. PipePhase[Peer(x)] \notin Over
        BY <2>1, <3>1 DEF Over
      <4>2. PipeDone[x] <= seq[e] /\ PipeDone[x] \in Nat /\ seq[e] \in Nat /\ seq'[e] \in Nat
        BY <2>4, <3>1 DEF PInv
      <4>3. PipeDone[x] <= seq'[e]
        BY <2>4, <4>2
      <4> QED
        BY <3>1, <4>1, <4>3 DEF PInv
    <3>2. CASE Peer(x) # e
      <4>1. Peer(x) \in End /\ seq'[Peer(x)] = seq[Peer(x)]
        BY <2>4, <3>2, Peers
      <4> QED
        BY <4>1 DEF PInv
    <3> QED
      BY <3>1, <3>2
  <2> QED
    BY <2>1, <2>4, <2>5 DEF PInv
<1>3. CASE Conn!Deliver(e)
  <2>1. /\ PipePhase[e] \in {"open", "closing"} /\ UNCHANGED <<PipePhase, seq, PipeExcused>>
        /\ \E n \in 1 .. seq[Peer(e)] - PipeDone[e] :
             PipeDone' = [PipeDone EXCEPT ![e] = @ + n]
    BY <1>3 DEF Conn!Deliver
  <2>2. PICK n \in 1 .. seq[Peer(e)] - PipeDone[e] : PipeDone' = [PipeDone EXCEPT ![e] = @ + n]
    BY <2>1
  <2>3. seq[Peer(e)] \in Nat /\ PipeDone[e] \in Nat
    BY <1>1 DEF PInv
  <2>4. /\ PipeDone[e] + n \in Nat /\ PipeDone[e] + n <= seq[Peer(e)]
    BY <2>3
  <2>5. /\ PipeDone' \in [End -> Nat] /\ PipeDone'[e] = PipeDone[e] + n
        /\ \A x \in End : x # e => PipeDone'[x] = PipeDone[x]
    BY <2>2, <2>4 DEF PInv
  <2> QED
    BY <2>1, <2>4, <2>5 DEF PInv
<1> QED
  BY <1>2, <1>3

\* The steps of a pipe that open and close it.
LEMMA PipePhases ==
    ASSUME PInv, NEW e \in End,
           \/ Conn!Open(e) \/ Conn!Refuse(e) \/ Conn!CloseSelf(e) \/ Conn!CloseAfter(e)
           \/ Conn!Excuse(e) \/ Conn!Leave(e)
    PROVE  PInv'
<1>1. /\ Peer(e) \in End /\ Peer(e) # e /\ Peer(Peer(e)) = e
      /\ \A x \in End : x = e \/ x = Peer(e)
  BY Peers
<1>2. CASE Conn!Open(e) \/ Conn!Refuse(e)
  <2>1. /\ PipePhase[e] = "idle" /\ UNCHANGED <<seq, PipeDone, PipeExcused>>
        /\ \E s \in {"open", "refused"} : PipePhase' = [PipePhase EXCEPT ![e] = s]
    BY <1>2 DEF Conn!Open, Conn!Refuse
  <2>2. PICK s \in {"open", "refused"} : PipePhase' = [PipePhase EXCEPT ![e] = s]
    BY <2>1
  <2>3. /\ PipePhase'[e] = s /\ PipePhase'[Peer(e)] = PipePhase[Peer(e)]
        /\ PipePhase' = [x \in End |-> PipePhase'[x]]
    BY <1>1, <2>2 DEF PInv
  <2>4. PipePhase[Peer(e)] \in {"closing", "gone"} => PipeExcused[Peer(e)]
    BY <1>1, <2>1 DEF PInv, Over
  <2> QED
    BY <1>1, <2>1, <2>3, <2>4 DEF PInv
<1>3. CASE Conn!CloseSelf(e)
  <2>1. /\ PipePhase' = [PipePhase EXCEPT ![e] = "closing"] /\ seq' = seq
        /\ PipeExcused' = [PipeExcused EXCEPT ![e] = TRUE] /\ PipePhase[e] = "open"
        /\ \E n \in 0 .. seq[Peer(e)] - PipeDone[e] :
             PipeDone' = [PipeDone EXCEPT ![e] = @ + n]
    BY <1>3 DEF Conn!CloseSelf
  <2>2. PICK n \in 0 .. seq[Peer(e)] - PipeDone[e] : PipeDone' = [PipeDone EXCEPT ![e] = @ + n]
    BY <2>1
  <2>3. seq[Peer(e)] \in Nat /\ PipeDone[e] \in Nat
    BY <1>1 DEF PInv
  <2>4. PipeDone[e] + n \in Nat /\ PipeDone[e] + n <= seq[Peer(e)]
    BY <2>3
  <2>5. /\ PipeDone' \in [End -> Nat] /\ PipeDone'[e] = PipeDone[e] + n
        /\ PipeDone'[Peer(e)] = PipeDone[Peer(e)]
    BY <1>1, <2>2, <2>4 DEF PInv
  <2>6. /\ PipePhase'[e] = "closing" /\ PipePhase'[Peer(e)] = PipePhase[Peer(e)]
        /\ PipePhase' = [x \in End |-> PipePhase'[x]]
    BY <1>1, <2>1 DEF PInv
  <2>7. /\ PipeExcused'[e] = TRUE /\ PipeExcused'[Peer(e)] = PipeExcused[Peer(e)]
        /\ PipeExcused' = [x \in End |-> PipeExcused'[x]]
    BY <1>1, <2>1 DEF PInv
  <2> QED
    BY <1>1, <2>1, <2>4, <2>5, <2>6, <2>7 DEF PInv, Over
<1>4. CASE Conn!CloseAfter(e) \/ Conn!Leave(e)
  <2>1. /\ UNCHANGED <<seq, PipeDone, PipeExcused>>
        /\ \/ /\ PipePhase[Peer(e)] \in Over
              /\ PipePhase' = [PipePhase EXCEPT ![e] = "closing"]
           \/ /\ PipePhase[e] = "closing" /\ (PipeDone[e] = seq[Peer(e)] \/ PipeExcused[e])
              /\ PipePhase' = [PipePhase EXCEPT ![e] = "gone"]
    BY <1>4 DEF Conn!CloseAfter, Conn!Leave, Over
  <2>2. /\ PipePhase'[e] \in {"closing", "gone"} /\ PipePhase'[Peer(e)] = PipePhase[Peer(e)]
        /\ PipePhase' = [x \in End |-> PipePhase'[x]]
        /\ PipePhase'[e] = "gone" => PipeDone[e] = seq[Peer(e)] \/ PipeExcused[e]
        /\ PipePhase[Peer(e)] \in Over \/ PipeExcused[e]
    BY <1>1, <2>1 DEF PInv
  <2> QED
    BY <1>1, <2>1, <2>2 DEF PInv, Over
<1>5. CASE Conn!Excuse(e)
  <2>1. /\ UNCHANGED <<seq, PipeDone, PipePhase>>
        /\ PipeExcused' = [PipeExcused EXCEPT ![e] = TRUE]
    BY <1>5 DEF Conn!Excuse
  <2>2. /\ PipeExcused'[e] = TRUE /\ PipeExcused'[Peer(e)] = PipeExcused[Peer(e)]
        /\ PipeExcused' = [x \in End |-> PipeExcused'[x]]
    BY <1>1, <2>1 DEF PInv
  <2> QED
    BY <1>1, <2>1, <2>2 DEF PInv
<1> QED
  BY <1>2, <1>3, <1>4, <1>5

-----------------------------------------------------------------------------
(* What sendOOB refuses was urgent. *)

\* At both ends, only what was read as urgent is sent, and lost, as such.
OnlyUrgent == \A e \in End : Urgent(e)

\* The packets on their way are those of before, but for one that carries no
\* urgent bytes.
LEMMA Travels ==
    ASSUME TypeOK, NEW e \in End, NEW pk \in Packet, pk.type # "SENDOOB",
           \/ chan' = chan \/ Send(e, pk)
           \/ chan[e] # <<>> /\ (Take(e) \/ TakeSend(e, pk))
    PROVE  \A x \in End : \A j \in 1 .. Len(chan'[x]) :
             chan'[x][j].type = "SENDOOB" =>
               \E i \in 1 .. Len(chan[x]) : chan'[x][j] = chan[x][i]
<1>1. /\ Peer(e) \in End /\ Peer(e) # e /\ \A x \in End : x = e \/ x = Peer(e)
      /\ Len(chan[e]) \in Nat /\ Len(chan[Peer(e)]) \in Nat
  BY Peers, Types
<1>2. CASE chan' = chan
  BY <1>2
<1>3. CASE Send(e, pk)
  <2>1. /\ chan'[e] = chan[e] /\ Len(chan'[Peer(e)]) = Len(chan[Peer(e)]) + 1
        /\ \A i \in 1 .. Len(chan[Peer(e)]) : chan'[Peer(e)][i] = chan[Peer(e)][i]
        /\ chan'[Peer(e)][Len(chan'[Peer(e)])] = pk
    BY <1>3, SendFacts
  <2> QED
    BY <1>1, <2>1
<1>4. CASE chan[e] # <<>> /\ Take(e)
  <2>1. /\ chan'[Peer(e)] = chan[Peer(e)] /\ Len(chan'[e]) = Len(chan[e]) - 1
        /\ \A i \in 1 .. Len(chan'[e]) : chan'[e][i] = chan[e][i + 1]
    BY <1>4, TakeFacts
  <2>2. \A j \in 1 .. Len(chan'[e]) : j + 1 \in 1 .. Len(chan[e])
    BY <1>1, <2>1
  <2> QED
    BY <1>1, <2>1, <2>2
<1>5. CASE chan[e] # <<>> /\ TakeSend(e, pk)
  <2>1. /\ Len(chan'[Peer(e)]) = Len(chan[Peer(e)]) + 1
        /\ \A i \in 1 .. Len(chan[Peer(e)]) : chan'[Peer(e)][i] = chan[Peer(e)][i]
        /\ chan'[Peer(e)][Len(chan'[Peer(e)])] = pk
        /\ Len(chan'[e]) = Len(chan[e]) - 1
        /\ \A i \in 1 .. Len(chan'[e]) : chan'[e][i] = chan[e][i + 1]
    BY <1>5, TakeSendFacts
  <2>2. \A j \in 1 .. Len(chan'[e]) : j + 1 \in 1 .. Len(chan[e])
    BY <1>1, <2>1
  <2>3. \A j \in 1 .. Len(chan'[e]) : \E i \in 1 .. Len(chan[e]) : chan'[e][j] = chan[e][i]
    BY <2>1, <2>2
  <2>4. \A j \in 1 .. Len(chan'[Peer(e)]) :
          chan'[Peer(e)][j].type = "SENDOOB" =>
            \E i \in 1 .. Len(chan[Peer(e)]) : chan'[Peer(e)][j] = chan[Peer(e)][i]
    BY <1>1, <2>1
  <2> QED
    BY <1>1, <2>3, <2>4
<1> QED
  BY <1>2, <1>3, <1>4, <1>5

\* Where no urgent packet is written and no urgent byte given up, OnlyUrgent stays.
LEMMA UrgentKept ==
    ASSUME TypeOK, OnlyUrgent, NEW e \in End, NEW pk \in Packet, pk.type # "SENDOOB",
           \/ chan' = chan \/ Send(e, pk)
           \/ chan[e] # <<>> /\ (Take(e) \/ TakeSend(e, pk)),
           UNCHANGED <<urgent, lost>>
    PROVE  OnlyUrgent'
<1>1. \A x \in End : \A j \in 1 .. Len(chan'[x]) :
         chan'[x][j].type = "SENDOOB" =>
           \E i \in 1 .. Len(chan[x]) : chan'[x][j] = chan[x][i]
  BY Travels
<1> QED
  BY <1>1, Peers DEF OnlyUrgent, Urgent

\* The positions an end writes into its packets are numbers.
LEMMA Positions ==
    ASSUME IInv, NEW e \in End PROVE Settled(e) \in Nat /\ seq[e] \in Nat
<1>1. TypeOK /\ Counts(e) /\ Peer(e) \in End
  BY Parts, Peers
<1>2. /\ seq[e] \in Nat /\ Settled(e) \in Int /\ gack[Peer(e)] \in Nat
      /\ gack[Peer(e)] <= Settled(e)
  BY <1>1, Types DEF Counts
<1> QED
  BY <1>2

\* Events that write no packet, or one of the handshake.
LEMMA UrgentHandshake ==
    ASSUME IInv, OnlyUrgent, NEW e \in End,
           \/ RelayAgain(e) \/ PushOOB(e) \/ NoOOB(e) \/ RecvIgnored(e)
           \/ \E v \in {"PRI", "IN"} : RelayEof(e, v)
           \/ \E v \in {"PRI", "IN", "PUSH"} : RelayIgnored(e, v)
           \/ RecvConnect(e) \/ RecvConnectFail(e) \/ RecvConnected(e)
           \/ RecvSent(e) \/ RecvSentOOB(e) \/ RecvClose(e) \/ RecvClosed(e)
    PROVE  OnlyUrgent'
<1>1. TypeOK
  BY Parts
<1>2. UNCHANGED <<urgent, lost>>
  BY DEF RelayAgain, PushOOB, NoOOB, RecvIgnored, RelayEof, RelayIgnored, RecvConnect,
         RecvConnectFail, RecvConnected, RecvSent, RecvSentOOB, RecvClose, RecvClosed, hist
<1>3. \E t \in {"CONNECTED", "CLOSE", "CLOSED"} :
         \/ chan' = chan
         \/ Send(e, Pack(t, 0, 0, seq[e], Settled(e)))
         \/ chan[e] # <<>> /\ Take(e)
         \/ chan[e] # <<>> /\ TakeSend(e, Pack(t, 0, 0, seq[e], Settled(e)))
  BY DEF RelayAgain, PushOOB, NoOOB, RecvIgnored, RelayEof, RelayIgnored, RecvConnect,
         RecvConnectFail, RecvConnected, RecvSent, RecvSentOOB, RecvClose, RecvClosed, Recv
<1>4. PICK t \in {"CONNECTED", "CLOSE", "CLOSED"} :
         \/ chan' = chan
         \/ Send(e, Pack(t, 0, 0, seq[e], Settled(e)))
         \/ chan[e] # <<>> /\ Take(e)
         \/ chan[e] # <<>> /\ TakeSend(e, Pack(t, 0, 0, seq[e], Settled(e)))
  BY <1>3
<1>5. t \in PackType /\ t # "SENDOOB"
  BY DEF PackType
<1> DEFINE pk == Pack(t, 0, 0, seq[e], Settled(e))
<1>6. pk \in Packet /\ pk.type = t
  BY <1>5, Positions, PackFacts
<1> HIDE DEF pk
<1> QED
  BY <1>1, <1>2, <1>4, <1>5, <1>6, UrgentKept DEF pk

\* Ordinary bytes, passed on or acknowledged.
LEMMA UrgentOrdinary ==
    ASSUME IInv, OnlyUrgent, NEW e \in End, Flush(e) \/ Relay(e) \/ RecvSend(e)
    PROVE  OnlyUrgent'
<1>1. TypeOK /\ Payload \in Nat /\ lbuf[e] \in Nat /\ seq[e] \in Nat
  BY Parts, Types, Sizes
<1>2. UNCHANGED <<urgent, lost>>
  BY DEF Flush, Relay, RecvSend, hist
<1>3. \E pk \in Packet :
         /\ pk.type # "SENDOOB"
         /\ \/ chan' = chan \/ Send(e, pk)
            \/ chan[e] # <<>> /\ (Take(e) \/ TakeSend(e, pk))
  <2>1. CASE Flush(e)
    <3>1. PICK w \in 0 .. lbuf[e] :
             chan' = chan \/ Send(e, Pack("SENT", w, w, seq[e], Settled(e) + w))
      BY <2>1 DEF Flush
    <3>2. w \in Nat /\ Settled(e) + w \in Nat /\ "SENT" \in PackType
      BY <1>1, Positions DEF PackType
    <3>3. PICK a \in Nat : a = Settled(e) + w
      BY <3>2
    <3>4. /\ Pack("SENT", w, w, seq[e], a) \in Packet
          /\ Pack("SENT", w, w, seq[e], a).type # "SENDOOB"
      BY <1>1, <3>2 DEF Pack, Packet
    <3> QED
      BY <3>1, <3>3, <3>4
  <2>2. CASE Relay(e)
    <3>1. PICK n \in 1 .. Payload : Send(e, Pack("SEND", n, n, seq[e] + n, Settled(e)))
      BY <2>2 DEF Relay
    <3>2. n \in Nat /\ seq[e] + n \in Nat /\ Settled(e) \in Nat
      BY <1>1, Positions
    <3>3. /\ Pack("SEND", n, n, seq[e] + n, Settled(e)) \in Packet
          /\ Pack("SEND", n, n, seq[e] + n, Settled(e)).type # "SENDOOB"
      BY <3>2 DEF Pack, Packet, PackType
    <3> QED
      BY <3>1, <3>3
  <2>3. CASE RecvSend(e)
    <3>1. chan[e] # <<>> /\ Head(chan[e]).type = "SEND"
      BY <2>3 DEF RecvSend, Recv
    <3>2. PICK n \in Nat : n = Head(chan[e]).len
      BY <3>1, HeadFacts DEF PacketOK
    <3>3. PICK w \in 0 .. lbuf[e] + n :
             Take(e) \/ TakeSend(e, Pack("SENT", w, w, seq[e], Settled(e) + w))
      BY <2>3, <3>2 DEF RecvSend
    <3>4. w \in Nat /\ Settled(e) + w \in Nat /\ "SENT" \in PackType
      BY <1>1, <3>2, Positions DEF PackType
    <3>5. PICK a \in Nat : a = Settled(e) + w
      BY <3>4
    <3>6. /\ Pack("SENT", w, w, seq[e], a) \in Packet
          /\ Pack("SENT", w, w, seq[e], a).type # "SENDOOB"
      BY <1>1, <3>4 DEF Pack, Packet
    <3>7. Take(e) \/ TakeSend(e, Pack("SENT", w, w, seq[e], a))
      BY <3>3, <3>5
    <3> QED
      BY <3>1, <3>6, <3>7
  <2> QED
    BY <2>1, <2>2, <2>3
<1> QED
  BY <1>1, <1>2, <1>3, UrgentKept

\* sock2comm notes as urgent what it sends as urgent.
LEMMA UrgentRelayOOB ==
    ASSUME IInv, OnlyUrgent, NEW e \in End, NEW v, RelayOOB(e, v)
    PROVE  OnlyUrgent'
<1> DEFINE p == Peer(e)
<1>1. /\ TypeOK /\ Payload \in Nat /\ seq[e] \in Nat /\ Settled(e) \in Nat
      /\ p \in End /\ p # e /\ Peer(p) = e /\ Len(chan[p]) \in Nat
      /\ \A x \in End : x = e \/ x = p
  BY Parts, Types, Sizes, Peers, Positions
<1>2. PICK n \in 1 .. Payload :
        /\ urgent' = [urgent EXCEPT ![e] = @ \cup (seq[e] + 1 .. seq[e] + n)]
        /\ Send(e, Pack("SENDOOB", n, n, seq[e] + n, Settled(e)))
        /\ lost' = lost
  BY DEF RelayOOB
<1> DEFINE pk == Pack("SENDOOB", n, n, seq[e] + n, Settled(e))
<1>3. n \in Nat /\ seq[e] + n \in Nat
  BY <1>1
<1>4. pk \in Packet /\ pk.len = n /\ pk.seq = seq[e] + n
  BY <1>1, <1>3 DEF Pack, Packet, PackType
<1>5. Rest(pk, 0) = seq[e] + 1 .. seq[e] + n
  <2>1. pk.seq - pk.len + 0 + 1 = seq[e] + 1
    BY <1>1, <1>3, <1>4
  <2> QED
    BY <1>4, <2>1 DEF Rest
<1>6. /\ urgent'[e] = urgent[e] \cup (seq[e] + 1 .. seq[e] + n) /\ urgent'[p] = urgent[p]
  <2>1. urgent \in [End -> SUBSET Nat]
    BY <1>1 DEF TypeOK
  <2> QED
    BY <1>1, <1>2, <2>1
<1>7. /\ chan'[e] = chan[e] /\ Len(chan'[p]) = Len(chan[p]) + 1
      /\ \A i \in 1 .. Len(chan[p]) : chan'[p][i] = chan[p][i]
      /\ chan'[p][Len(chan'[p])] = pk
  BY <1>1, <1>2, <1>4, SendFacts
<1>8. Urgent(e)'
  BY <1>1, <1>2, <1>6, <1>7 DEF OnlyUrgent, Urgent
<1>9. Urgent(p)'
  <2>1. /\ lost[p] \subseteq urgent[e]
        /\ \A i \in 1 .. Len(chan[p]) :
             chan[p][i].type = "SENDOOB" => Rest(chan[p][i], 0) \subseteq urgent[e]
    BY <1>1 DEF OnlyUrgent, Urgent
  <2> HIDE DEF pk
  <2>2. ASSUME NEW i \in 1 .. Len(chan'[p]), chan'[p][i].type = "SENDOOB"
        PROVE  Rest(chan'[p][i], 0) \subseteq urgent'[e]
    <3>1. CASE i \in 1 .. Len(chan[p])
      BY <1>6, <1>7, <2>1, <2>2, <3>1
    <3>2. CASE i \notin 1 .. Len(chan[p])
      <4>1. i = Len(chan'[p])
        BY <1>1, <1>7, <3>2
      <4> QED
        BY <1>5, <1>6, <1>7, <4>1
    <3> QED
      BY <3>1, <3>2
  <2> QED
    BY <1>1, <1>2, <1>6, <2>1, <2>2 DEF Urgent
<1> QED
  BY <1>1, <1>8, <1>9 DEF OnlyUrgent

\* sendOOB gives up nothing but the bytes of an urgent packet.
LEMMA UrgentRecvSendOOB ==
    ASSUME IInv, OnlyUrgent, NEW e \in End, RecvSendOOB(e)
    PROVE  OnlyUrgent'
<1> DEFINE m == chan[e][1]
           p == Peer(e)
<1>1. /\ TypeOK /\ chan[e] # <<>> /\ Head(chan[e]).type = "SENDOOB" /\ urgent' = urgent
      /\ p \in End /\ p # e /\ Peer(p) = e /\ \A x \in End : x = e \/ x = p
  BY Parts, Peers DEF RecvSendOOB, Recv
<1>2. /\ Head(chan[e]) = m /\ m.type = "SENDOOB" /\ m.len \in Nat /\ m.of \in Nat
      /\ m.seq \in Nat /\ 1 \in 1 .. Len(chan[e])
  BY <1>1, HeadFacts DEF PacketOK
<1>3. PICK w \in {-1} \cup 0 .. m.len :
        /\ lost' = [lost EXCEPT ![e] = @ \cup Rest(m, IF w < 0 THEN 0 ELSE w)]
        /\ TakeSend(e, Pack("SENTOOB", w, m.len, seq[e], Settled(e) + m.len))
  BY <1>2 DEF RecvSendOOB
<1> DEFINE pk == Pack("SENTOOB", w, m.len, seq[e], Settled(e) + m.len)
<1>4. pk \in Packet /\ pk.type # "SENDOOB"
  <2>1. w \in Int /\ "SENTOOB" \in PackType
    BY <1>2 DEF PackType
  <2>2. PICK o \in Nat : o = m.len
    BY <1>2
  <2>3. PICK a \in Nat : a = Settled(e) + m.len
    BY <2>2, Positions
  <2>4. seq[e] \in Nat
    BY Positions
  <2>5. /\ Pack("SENTOOB", w, o, seq[e], a) \in Packet
        /\ Pack("SENTOOB", w, o, seq[e], a).type # "SENDOOB"
    BY <2>1, <2>4 DEF Pack, Packet
  <2> QED
    BY <2>2, <2>3, <2>5
<1>5. PICK k \in Nat : k = (IF w < 0 THEN 0 ELSE w)
  BY <1>2
<1>6. Rest(m, k) \subseteq Rest(m, 0)
  BY <1>2, <1>5 DEF Rest
<1>7. Rest(m, 0) \subseteq urgent[p]
  BY <1>1, <1>2 DEF OnlyUrgent, Urgent
<1>8. lost'[e] \subseteq lost[e] \cup Rest(m, k) /\ lost'[p] = lost[p]
  <2>1. lost \in [End -> SUBSET Nat]
    BY <1>1 DEF TypeOK
  <2> QED
    BY <1>1, <1>3, <1>5, <2>1
<1>9. \A x \in End : \A j \in 1 .. Len(chan'[x]) :
         chan'[x][j].type = "SENDOOB" =>
           \E i \in 1 .. Len(chan[x]) : chan'[x][j] = chan[x][i]
  <2> HIDE DEF pk
  <2> QED
    BY <1>1, <1>3, <1>4, Travels DEF pk
<1>10. \A x \in End : lost'[x] \subseteq urgent[Peer(x)]
  <2>1. lost[e] \subseteq urgent[p] /\ lost[p] \subseteq urgent[e]
    BY <1>1 DEF OnlyUrgent, Urgent
  <2> QED
    BY <1>1, <1>6, <1>7, <1>8, <2>1
<1> QED
  BY <1>1, <1>9, <1>10 DEF OnlyUrgent, Urgent

\* Only what was read as urgent is ever lost to sendOOB.
LEMMA AlwaysUrgent == Spec => []OnlyUrgent
<1>1. Init => OnlyUrgent
  <2> SUFFICES ASSUME Init PROVE OnlyUrgent
    OBVIOUS
  <2>1. /\ chan["near"] = <<>> /\ Len(chan["far"]) = 1 /\ chan["far"][1].type = "CONNECT"
        /\ \A e \in End : lost[e] = {}
    BY DEF Init, End, Pack
  <2> QED
    BY <2>1 DEF OnlyUrgent, Urgent, End
<1>2. IInv /\ OnlyUrgent /\ [Next]_vars => OnlyUrgent'
  <2> SUFFICES ASSUME IInv, OnlyUrgent, [Next]_vars PROVE OnlyUrgent'
    OBVIOUS
  <2>1. CASE UNCHANGED <<chan, urgent, lost>>
    BY <2>1 DEF OnlyUrgent, Urgent
  <2>2. ASSUME NEW e \in End, Poll(e) \/ Free(e) \/ LingerExpires(e) PROVE OnlyUrgent'
    BY <2>1, <2>2 DEF Poll, Free, LingerExpires, hist
  <2>3. ASSUME NEW e \in End, Handle(e) PROVE OnlyUrgent'
    BY <2>3, UrgentHandshake, UrgentOrdinary, UrgentRelayOOB, UrgentRecvSendOOB DEF Handle
  <2> QED
    BY <2>1, <2>2, <2>3 DEF Next, vars
<1> QED
  BY <1>1, <1>2, Inductive, PTL DEF Spec

\* What an agent of sox.cpp released without excuse has not written, sendOOB
\* has refused, and it was urgent.  That its stream is all there reads the
\* abstract specification only, and carries over by Refines.
THEOREM AllPassedOn == Spec => []NothingLost
<1>1. Conn!Init => PInv
  BY Peers DEF Conn!Init, PInv
<1>2. PInv /\ [Conn!Next]_(Conn!vars) => PInv'
  <2> SUFFICES ASSUME PInv, [Conn!Next]_(Conn!vars) PROVE PInv'
    OBVIOUS
  <2>1. CASE UNCHANGED Conn!vars
    BY <2>1 DEF Conn!vars, PInv
  <2> QED
    BY <2>1, PipeBytes, PipePhases DEF Conn!Next
<1>3. PInv /\ OnlyUrgent => NothingLost
  BY DEF PInv, OnlyUrgent, Urgent, NothingLost, PipePhase, PhaseOf, PipeDone, PipeExcused,
         Closing
<1>4. IsPipe => []PInv
  BY <1>1, <1>2, PTL DEF IsPipe, Conn!Spec
<1> QED
  BY <1>3, <1>4, AlwaysUrgent, Refines, PTL
=============================================================================

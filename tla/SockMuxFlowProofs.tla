------------------------- MODULE SockMuxFlowProofs -------------------------
(***************************************************************************)
(* SockMuxFlow holds its invariants for every packet size, window and      *)
(* amount of data.  IInv is shown to be inductive, one lemma per action;   *)
(* the properties follow from it.                                          *)
(***************************************************************************)
EXTENDS SockMuxFlowLemmas

\* The parts of the invariant at one end, and back.
LEMMA Parts ==
    ASSUME IInv, NEW x \in End
    PROVE  /\ TypeOK /\ Opening /\ Chain(x) /\ Packets(x) /\ Counts(x)
           /\ Handshake(x) /\ LastWords(x) /\ Polled(x)
  BY DEF IInv

\* The conjuncts of IInv that mention two ends, for both ends at once.
LEMMA Whole ==
    ASSUME NEW e \in End, TypeOK', Opening',
           Chain(e)', Packets(e)', Counts(e)', Handshake(e)', LastWords(e)', Polled(e)',
           Chain(Peer(e))', Packets(Peer(e))', Counts(Peer(e))', Handshake(Peer(e))',
           LastWords(Peer(e))', Polled(Peer(e))'
    PROVE  IInv'
<1>1. \A x \in End : x = e \/ x = Peer(e)
  BY Peers
<1>2. \A x \in End : /\ Chain(x)' /\ Packets(x)' /\ Counts(x)'
                     /\ Handshake(x)' /\ LastWords(x)' /\ Polled(x)'
  BY <1>1
<1> QED
  BY <1>2 DEF IInv

\* A status that is Open is Live, and only NONE is Live and not Open.
LEMMA OpenLive ==
    ASSUME NEW x \in End
    PROVE  /\ Open(x) => Live(x) /\ Sender(x)
           /\ Live(x) /\ stat[x] # "NONE" => Open(x)
  BY DEF Open, Live, Sender, Absent, Closing

\* An agent that reads its socket, or receives anything but CLOSE, belongs to
\* a connection that has been made.
LEMMA Started ==
    ASSUME IInv, NEW e \in End, Open(e),
           \/ ~(rev[e] \subseteq {"COMM"})
           \/ lbuf[e] > 0
           \/ Len(chan[e]) >= 1 /\ chan[e][1].type # "CLOSE"
    PROVE  stat["near"] \notin {"NONE", "REFUSED"} /\ stat["far"] \notin {"NONE", "REFUSED"}
<1>1. Opening /\ Len(chan[e]) \in Nat
  BY Parts, Types
<1>2. CASE e = "near"
  BY <1>1, <1>2 DEF Opening, Open, Closing, Absent
<1>3. CASE e = "far"
  BY <1>1, <1>3 DEF Opening, Open, Closing, Absent
<1> QED
  BY <1>2, <1>3 DEF End

\* Once the connection is made, Opening has nothing left to say.
LEMMA OpeningOver ==
    ASSUME stat'["near"] \notin {"NONE", "REFUSED"}, stat'["far"] \notin {"NONE", "REFUSED"}
    PROVE  Opening'
  BY DEF Opening

\* Steps that only choose or forget events, or note a_ltCLOSED.
LEMMA QuietStep ==
    ASSUME IInv, TypeOK', NEW e \in End,
           UNCHANGED <<stat, rpend, lbuf, chan, seq, oob, got, gack, leak, extra>>,
           \A x \in End : ltClosed[x] => ltClosed'[x],
           \A x \in End : Polled(x)',
           stat["far"] \in {"NONE", "REFUSED"} /\ stat["near"] = "CONNECT"
             => rev'["near"] \subseteq {"COMM"}
    PROVE  IInv'
<1>1. Opening'
  <2>1. Opening
    BY Parts
  <2> QED
    BY <2>1 DEF Opening
<1>2. ASSUME NEW x \in End
      PROVE  Chain(x)' /\ Packets(x)' /\ Counts(x)' /\ Handshake(x)' /\ LastWords(x)'
  <2>1. /\ Chain(x) /\ Packets(x) /\ Counts(x) /\ Handshake(x) /\ LastWords(x)
    BY Parts
  <2>2. Chain(x)' /\ Packets(x)' /\ LastWords(x)'
    BY <2>1 DEF Chain, Packets, LastWords, SeqAt, AckAt, Sender, Live, Settled, OnlySent
  <2>3. Counts(x)'
    BY <2>1 DEF Counts, Settled
  <2>4. Handshake(x)'
    BY <2>1 DEF Handshake, Live, In, OnlySent
  <2> QED
    BY <2>2, <2>3, <2>4
<1> QED
  BY <1>1, <1>2 DEF IInv

\* PollInsOuts reports events: only the set of events to handle changes.
LEMMA PollInv == ASSUME IInv, NEW e \in End, Poll(e) PROVE IInv'
<1>1. TypeOK /\ Opening /\ \A x \in End : Polled(x)
  BY Parts
<1>2. PICK ready \in SUBSET (Qev(e) \cup {"COMM"}) : rev' = [rev EXCEPT ![e] = ready]
  BY DEF Poll
<1>3. Qev(e) \subseteq Event
  BY DEF Qev, Event
<1>4. TypeOK'
  BY <1>1, <1>2, <1>3 DEF TypeOK, Poll, hist, Event
<1>5. rev \in [End -> SUBSET Event]
  BY <1>1 DEF TypeOK
<1>6. rev'[e] \subseteq Qev(e) \cup {"COMM"} /\ \A x \in End \ {e} : rev'[x] = rev[x]
  BY <1>2, <1>5
<1>7. \A x \in End : Polled(x)'
  BY <1>1, <1>6 DEF Polled, Poll, Qev
<1>8. stat["far"] \in {"NONE", "REFUSED"} /\ stat["near"] = "CONNECT"
        => rev'["near"] \subseteq {"COMM"}
  BY <1>1, <1>6 DEF Opening, Qev, End
<1> QED
  BY <1>4, <1>7, <1>8, QuietStep DEF Poll, hist

\* Handling an event forgets it.
LEMMA DoneFacts ==
    ASSUME TypeOK, NEW e \in End, NEW v, Done(e, v)
    PROVE  /\ rev' \in [End -> SUBSET Event]
           /\ \A x \in End : rev'[x] \subseteq rev[x]
  BY DEF TypeOK, Done

\* Dealing with an event keeps Polled.
LEMMA PolledDone ==
    ASSUME IInv, NEW e \in End, NEW v, Done(e, v),
           \A x \in End : stat'[x] \in Absent => stat[x] \in Absent \/ rev'[x] \subseteq {"COMM"}
    PROVE  \A x \in End : Polled(x)'
<1>1. \A x \in End : Polled(x) /\ rev'[x] \subseteq rev[x]
  BY Parts, DoneFacts
<1> QED
  BY <1>1 DEF Polled

\* A step that only deals with an event keeps the invariant.
LEMMA QuietDone ==
    ASSUME IInv, TypeOK', NEW e \in End, NEW v, Done(e, v),
           UNCHANGED <<stat, rpend, lbuf, chan, seq, oob, got, gack, leak, extra>>,
           \A x \in End : ltClosed[x] => ltClosed'[x]
    PROVE  IInv'
<1>1. \A x \in End : Polled(x)'
  BY PolledDone
<1>2. Opening /\ rev'["near"] \subseteq rev["near"]
  BY Parts, DoneFacts DEF End
<1>3. stat["far"] \in {"NONE", "REFUSED"} /\ stat["near"] = "CONNECT"
        => rev'["near"] \subseteq {"COMM"}
  BY <1>2 DEF Opening
<1> QED
  BY <1>1, <1>3, QuietStep

\* Input of a closing agent, ignored by sox_relay1.
LEMMA RelayIgnoredInv ==
    ASSUME IInv, NEW e \in End, NEW v, RelayIgnored(e, v) PROVE IInv'
<1>1. TypeOK /\ Done(e, v)
  BY Parts DEF RelayIgnored
<1>2. TypeOK'
  BY <1>1, DoneFacts DEF TypeOK, RelayIgnored, hist
<1> QED
  BY <1>1, <1>2, QuietDone DEF RelayIgnored, hist

\* Urgent input was announced and none was there.
LEMMA NoOOBInv == ASSUME IInv, NEW e \in End, NoOOB(e) PROVE IInv'
<1>1. TypeOK /\ Done(e, "PRI")
  BY Parts DEF NoOOB
<1>2. TypeOK'
  BY <1>1, DoneFacts DEF TypeOK, NoOOB, hist
<1> QED
  BY <1>1, <1>2, QuietDone DEF NoOOB, hist

\* EAGAIN: a_ltCLOSED is set, which no other conjunct contradicts.
LEMMA RelayAgainInv == ASSUME IInv, NEW e \in End, RelayAgain(e) PROVE IInv'
<1>1. TypeOK /\ Done(e, "IN") /\ ltClosed' = [ltClosed EXCEPT ![e] = TRUE]
  BY Parts DEF RelayAgain
<1>2. ltClosed \in [End -> BOOLEAN]
  BY <1>1 DEF TypeOK
<1>3. ltClosed' \in [End -> BOOLEAN] /\ \A x \in End : ltClosed[x] => ltClosed'[x]
  BY <1>1, <1>2
<1>4. TypeOK'
  BY <1>1, <1>3, DoneFacts DEF TypeOK, RelayAgain, hist
<1> QED
  BY <1>1, <1>3, <1>4, QuietDone DEF RelayAgain, hist

\* Urgent input put off until after the ordinary input.
LEMMA PushOOBInv == ASSUME IInv, NEW e \in End, PushOOB(e) PROVE IInv'
<1>1. TypeOK /\ rev' = [rev EXCEPT ![e] = (rev[e] \ {"PRI"}) \cup {"PUSH"}]
      /\ "PRI" \in rev[e] /\ Open(e)
  BY Parts DEF PushOOB, Turn
<1>2. rev \in [End -> SUBSET Event]
  BY <1>1 DEF TypeOK
<1>3. /\ rev' \in [End -> SUBSET Event]
      /\ \A x \in End : x = e \/ rev'[x] = rev[x]
  BY <1>1, <1>2 DEF Event
<1>4. TypeOK'
  BY <1>1, <1>3 DEF TypeOK, PushOOB, hist
<1>5. \A x \in End : Polled(x)
  BY Parts
<1>6. \A x \in End : Polled(x)'
  BY <1>1, <1>3, <1>5 DEF Polled, PushOOB, Open
<1>7. stat["far"] \notin {"NONE", "REFUSED"}
  BY <1>1, Started
<1> QED
  BY <1>4, <1>6, <1>7, QuietStep DEF PushOOB, hist

\* The linger time runs out.
LEMMA LingerExpiresInv == ASSUME IInv, NEW e \in End, LingerExpires(e) PROVE IInv'
<1>1. TypeOK /\ Opening /\ \A x \in End : Polled(x)
  BY Parts
<1>2. TypeOK'
  BY <1>1 DEF TypeOK, LingerExpires
<1>3. \A x \in End : Polled(x)'
  BY <1>1 DEF Polled, LingerExpires
<1>4. stat["far"] \in {"NONE", "REFUSED"} /\ stat["near"] = "CONNECT"
        => rev'["near"] \subseteq {"COMM"}
  BY <1>1 DEF Opening, LingerExpires
<1> QED
  BY <1>2, <1>3, <1>4, QuietStep DEF LingerExpires

\* sox_fdset releases an agent: its peer is closing already.
LEMMA FreeInv == ASSUME IInv, NEW e \in End, Free(e) PROVE IInv'
<1>1. /\ TypeOK /\ Opening
      /\ \A x \in End : /\ Chain(x) /\ Packets(x) /\ Counts(x) /\ Handshake(x)
                        /\ LastWords(x) /\ Polled(x)
  BY Parts
<1>2. stat \in [End -> Status] /\ "FREE" \in Status
  BY <1>1 DEF TypeOK, Status, Absent
<1>3. /\ stat[e] = "CLOSED" /\ stat'[e] = "FREE" /\ rev'[e] = {}
      /\ \A x \in End : x = e \/ stat'[x] = stat[x]
      /\ stat' \in [End -> Status]
  BY <1>2 DEF Free
<1>4. TypeOK'
  BY <1>1, <1>3 DEF TypeOK, Free, hist
<1>5. UNCHANGED <<rpend, lbuf, ltClosed, rev, chan, seq, oob, urgent, lost, got,
                  gack, leak, extra, expired>>
  BY DEF Free, hist
<1>6. Opening'
  BY <1>1, <1>3, <1>5 DEF Opening, End
<1>7. ASSUME NEW x \in End
      PROVE  /\ Chain(x)' /\ Packets(x)' /\ Counts(x)' /\ Handshake(x)'
             /\ LastWords(x)' /\ Polled(x)'
  <2>1. Peer(x) \in End
    BY Peers
  <2>2. \A y \in End : (Live(y)' <=> Live(y)) /\ (Sender(y)' <=> Sender(y))
    BY <1>3, <1>5 DEF Live, Sender, Closing
  <2>3. Chain(x)' /\ Packets(x)'
    BY <1>1, <1>5, <2>1, <2>2 DEF Chain, Packets, SeqAt, AckAt, Settled
  <2>4. LastWords(x)'
    BY <1>1, <1>3, <1>5, <2>1, <2>2, LastWordsSame
  <2>5. Counts(x)'
    BY <1>1, <1>3, <1>5 DEF Counts, Settled
  <2>6. \A y \in End : (\A t : In(y, t)' <=> In(y, t)) /\ (OnlySent(y, 0)' <=> OnlySent(y, 0))
    BY <1>5, InSame
  <2>7. Handshake(x)'
    BY <1>1, <1>3, <1>5, <2>1, <2>2, <2>6 DEF Handshake
  <2>8. Polled(x)'
    BY <1>1, <1>3, <1>5 DEF Polled
  <2> QED
    BY <2>3, <2>4, <2>5, <2>7, <2>8
<1> QED
  BY <1>4, <1>6, <1>7 DEF IInv

-----------------------------------------------------------------------------
(***************************************************************************)
(* Steps that write a packet.                                              *)
(***************************************************************************)
\* The handshake is not touched by the data of a connection that is open.
LEMMA HandshakeData ==
    ASSUME NEW e \in End, Handshake(e), Handshake(Peer(e)),
           Live(e), Live(e)', stat[e] # "NONE", stat'[e] # "NONE",
           stat[Peer(e)] # "NONE",
           stat'[Peer(e)] = stat[Peer(e)],
           ltClosed' = ltClosed, lbuf'[Peer(e)] = lbuf[Peer(e)],
           \A x \in End : \A t \in {"CLOSE", "CLOSED", "CONNECT"} : In(x, t)' => In(x, t),
           In(e, "CLOSE") => In(e, "CLOSE")'
    PROVE  Handshake(e)' /\ Handshake(Peer(e))'
<1>1. Peer(e) \in End /\ Peer(Peer(e)) = e
  BY Peers
<1>2. Live(Peer(e))' <=> Live(Peer(e))
  BY DEF Live
<1>3. Handshake(e)'
  BY <1>1, <1>2 DEF Handshake, Live, Closing
<1>4. Handshake(Peer(e))'
  BY <1>1, <1>2 DEF Handshake, Live, Closing
<1> QED
  BY <1>3, <1>4

\* PS_OUT: bytes leave the buffer and a SENT for them is written.
LEMMA FlushInv == ASSUME IInv, NEW e \in End, Flush(e) PROVE IInv'
<1> DEFINE p == Peer(e)
<1>1. /\ TypeOK /\ Opening /\ p \in End /\ p # e /\ Peer(p) = e
      /\ Chain(e) /\ Packets(e) /\ Counts(e) /\ Handshake(e) /\ LastWords(e) /\ Polled(e)
      /\ Chain(p) /\ Packets(p) /\ Counts(p) /\ Handshake(p) /\ LastWords(p) /\ Polled(p)
  BY Parts, Peers
<1>2. Done(e, "OUT") /\ "OUT" \in rev[e]
      /\ UNCHANGED <<rpend, ltClosed, seq, oob, urgent, lost, got, gack, leak,
                     extra, expired>>
  BY DEF Flush, Turn, hist
<1>3. rev' \in [End -> SUBSET Event] /\ \A x \in End : Polled(x)'
  <2>1. \A x \in End : stat'[x] \in Absent => stat[x] \in Absent
    <3>1. stat \in [End -> Status]
      BY <1>1 DEF TypeOK
    <3> QED
      BY <3>1 DEF Flush, Absent
  <2> QED
    BY <1>1, <1>2, <2>1, DoneFacts, PolledDone
<1>4. CASE UNCHANGED <<stat, lbuf, chan>>
  <2>1. TypeOK'
    BY <1>1, <1>2, <1>3, <1>4 DEF TypeOK
  <2> QED
    BY <1>2, <1>4, <2>1, QuietDone
<1>5. ASSUME NEW w \in 1 .. lbuf[e],
             lbuf' = [lbuf EXCEPT ![e] = lbuf[e] - w],
             stat' = [stat EXCEPT ![e] = IF stat[e] = "CLOSED" THEN stat[e] ELSE "SENT"],
             Send(e, Pack("SENT", w, w, seq[e], Settled(e) + w))
      PROVE  IInv'
  <2>1. /\ lbuf[e] \in Nat /\ seq[e] \in Nat /\ seq[p] \in Nat /\ got[e] \in Nat
        /\ Settled(e) = got[e] - lbuf[e] /\ stat[e] \in Status /\ gack[p] \in Nat
        /\ Len(chan[p]) \in Nat
    BY <1>1, Types
  <2>2. gack[p] <= Settled(e)
    BY <1>1 DEF Counts
  <2> DEFINE pk == Pack("SENT", w, w, seq[e], Settled(e) + w)
  <2>3. Settled(e) + w \in Nat /\ w \in Nat /\ w > 0 /\ w <= lbuf[e] /\ lbuf[e] > 0
    BY <2>1, <2>2
  <2>4. /\ pk \in Packet /\ pk.type = "SENT" /\ pk.len = w /\ pk.of = w
        /\ pk.seq = seq[e] /\ pk.ack = Settled(e) + w
    <3>1. "SENT" \in PackType /\ w \in Int
      BY DEF PackType
    <3> QED
      BY <2>1, <2>3, <3>1 DEF Pack, Packet
  <2>5. /\ chan' \in [End -> Seq(Packet)] /\ chan'[e] = chan[e]
        /\ Len(chan'[p]) = Len(chan[p]) + 1
        /\ \A i \in 1 .. Len(chan[p]) : chan'[p][i] = chan[p][i]
        /\ chan'[p][Len(chan'[p])] = pk
    BY <1>1, <1>5, <2>4, SendFacts
  <2>6. /\ lbuf' \in [End -> Nat] /\ lbuf'[e] = lbuf[e] - w /\ lbuf'[p] = lbuf[p]
        /\ stat' \in [End -> Status] /\ stat'[p] = stat[p]
        /\ stat'[e] = IF stat[e] = "CLOSED" THEN "CLOSED" ELSE "SENT"
    <3>1. lbuf \in [End -> Nat] /\ stat \in [End -> Status] /\ "SENT" \in Status
      BY <1>1 DEF TypeOK, Status
    <3> QED
      BY <1>1, <1>5, <2>3, <3>1
  <2>7. TypeOK'
    BY <1>1, <1>2, <1>3, <2>5, <2>6 DEF TypeOK
  <2>8. /\ Settled(e)' = Settled(e) + w /\ Settled(p)' = Settled(p)
        /\ Settled(p) \in Int
    BY <1>1, <1>2, <2>1, <2>6, Types DEF Settled
  \* With output buffered the agent is there and has not sent CLOSE.
  <2>9. stat[e] \notin Absent \cup {"CLOSE"}
    BY <1>1, <1>2, <2>3 DEF Polled, Handshake
  <2>10. stat["near"] \notin {"NONE", "REFUSED"} /\ stat["far"] \notin {"NONE", "REFUSED"}
    BY <1>1, <2>3, <2>9 DEF Opening, End, Absent
  <2>11. Opening'
    <3>1. stat'["near"] \notin {"NONE", "REFUSED"} /\ stat'["far"] \notin {"NONE", "REFUSED"}
      BY <1>1, <2>6, <2>10 DEF End
    <3> QED
      BY <3>1, OpeningOver
  <2>12. (Live(e)' <=> Live(e)) /\ (Live(p)' <=> Live(p)) /\ (Sender(p)' <=> Sender(p))
         /\ Sender(e)
    BY <2>3, <2>6, <2>9 DEF Live, Sender, Closing, Absent
  <2>13. Chain(e)' /\ Packets(e)' /\ LastWords(e)'
    <3>1. /\ seq'[p] = seq[p] /\ seq'[p] >= seq[p] /\ Settled(p)' >= Settled(p)
          /\ got'[e] = got[e] /\ gack'[e] = gack[e]
      BY <1>2, <2>1, <2>8
    <3>2. Chain(e)'
      BY <1>1, <2>5, <2>8, <2>12, <3>1, ChainSame
    <3>3. Packets(e)'
      BY <1>1, <2>5, <2>7, <3>1, PacketsSame
    <3>4. LastWords(e)'
      BY <1>1, <2>5, <2>6, <2>12, LastWordsSame
    <3> QED
      BY <3>2, <3>3, <3>4
  <2>14. Carries(pk) = 0 /\ Answers(pk) = w /\ PacketOK(pk)
    BY <2>4, <2>3 DEF Carries, Answers, PacketOK
  <2>15. Chain(p)'
    <3>1. seq'[Peer(p)] = seq[Peer(p)] + Carries(pk) /\ pk.seq = seq'[Peer(p)]
      BY <1>1, <1>2, <2>1, <2>4, <2>14
    <3>2. /\ pk.ack = Settled(Peer(p)) + Answers(pk) /\ Sender(Peer(p))
          /\ Settled(Peer(p))' = pk.ack
      BY <1>1, <2>4, <2>8, <2>12, <2>14
    <3> QED
      BY <1>1, <1>2, <2>1, <2>4, <2>5, <2>12, <3>1, <3>2, ChainSend
  <2>16. Packets(p)'
    <3>1. /\ seq'[Peer(p)] >= seq[Peer(p)] /\ Settled(Peer(p))' >= Settled(Peer(p))
          /\ pk.seq <= seq'[Peer(p)] /\ pk.ack <= Settled(Peer(p))'
      BY <1>1, <1>2, <2>1, <2>3, <2>4, <2>8
    <3> QED
      BY <1>1, <2>4, <2>5, <2>7, <2>14, <3>1, PacketsSend
  <2>17. ~In(p, "CLOSE")
    BY <1>1, <2>12 DEF LastWords, In
  <2>18. LastWords(p)'
    BY <1>1, <2>1, <2>4, <2>5, <2>6, <2>9, <2>17, LastWordsSend DEF Absent
  <2>19. Counts(e)' /\ Counts(p)'
    <3>1. Counts(e)'
      BY <1>1, <1>2, <2>1, <2>2, <2>3, <2>6, <2>8 DEF Counts
    <3>2. Counts(p)'
      BY <1>1, <1>2, <2>1, <2>6, <2>8 DEF Counts
    <3> QED
      BY <3>1, <3>2
  <2>20. /\ \A t : In(e, t)' <=> In(e, t)
         /\ \A t : In(p, t)' <=> (In(p, t) \/ t = "SENT")
         /\ OnlySent(e, 0)' <=> OnlySent(e, 0)
         /\ OnlySent(p, 0) => OnlySent(p, 0)'
    BY <1>1, <2>1, <2>4, <2>5, InSame, InSend
  <2>21. Handshake(e)' /\ Handshake(p)'
    <3>0. stat[e] = "CLOSED" \/ Live(e)
      BY <2>9 DEF Live, Closing, Absent
    <3>1. CASE Live(e)
      <4>1. stat[e] # "NONE" /\ stat'[e] # "NONE" /\ stat[p] # "NONE"
        BY <1>1, <2>6, <2>10 DEF End
      <4>2. \A x \in End : \A t \in {"CLOSE", "CLOSED", "CONNECT"} : In(x, t)' => In(x, t)
        BY <2>20, Peers
      <4> QED
        BY <1>1, <1>2, <3>1, <2>6, <2>12, <2>20, <4>1, <4>2, HandshakeData
    <3>2. CASE stat[e] = "CLOSED"
      <4>1. ~Live(e) /\ stat'[e] = "CLOSED"
        BY <3>2, <2>6 DEF Live, Closing
      <4>2. ~In(e, "CONNECT")
        BY <1>1, <3>2 DEF Handshake
      <4>3. Handshake(e)'
        BY <1>1, <1>2, <3>2, <4>1, <4>2, <2>6, <2>12, <2>20 DEF Handshake
      <4>4. Handshake(p)'
        BY <1>1, <1>2, <3>2, <4>1, <2>6, <2>10, <2>12, <2>20 DEF Handshake
      <4> QED
        BY <4>3, <4>4
    <3> QED
      BY <3>0, <3>1, <3>2
  <2> QED
    BY <1>1, <1>3, <2>7, <2>11, <2>13, <2>15, <2>16, <2>18, <2>19, <2>21, Whole
<1>6. \/ UNCHANGED <<stat, lbuf, chan>>
      \/ \E w \in 1 .. lbuf[e] :
           /\ lbuf' = [lbuf EXCEPT ![e] = lbuf[e] - w]
           /\ stat' = [stat EXCEPT ![e] = IF stat[e] = "CLOSED" THEN stat[e] ELSE "SENT"]
           /\ Send(e, Pack("SENT", w, w, seq[e], Settled(e) + w))
  <2>1. lbuf[e] \in Nat
    BY <1>1, Types
  <2> QED
    BY <2>1 DEF Flush
<1> QED
  BY <1>4, <1>5, <1>6

\* Facts that all the steps of an open agent with a peer share.
LEMMA DataStep ==
    ASSUME IInv, NEW e \in End, NEW v, Done(e, v), Open(e),
           stat["near"] \notin {"NONE", "REFUSED"}, stat["far"] \notin {"NONE", "REFUSED"},
           stat'[e] \notin Absent \cup Closing, stat'[Peer(e)] = stat[Peer(e)],
           lbuf'[Peer(e)] = lbuf[Peer(e)]
    PROVE  /\ Opening' /\ Polled(e)' /\ Polled(Peer(e))'
           /\ Live(e) /\ Live(e)' /\ Sender(e) /\ Sender(e)'
           /\ stat[e] # "NONE" /\ stat'[e] # "NONE" /\ stat[Peer(e)] # "NONE"
           /\ stat[Peer(e)] \in {"CLOSED", "FREE"} => stat'[Peer(e)] \in {"CLOSED", "FREE"}
           /\ stat[e] \notin {"CLOSED", "FREE"}
           /\ Live(Peer(e))' <=> Live(Peer(e))
           /\ Sender(Peer(e))' <=> Sender(Peer(e))
           /\ ~In(Peer(e), "CLOSE") /\ ~In(Peer(e), "CLOSED")
<1>1. Peer(e) \in End /\ Peer(Peer(e)) = e /\ LastWords(Peer(e)) /\ LastWords(e)
  BY Parts, Peers
<1>2. /\ Live(e) /\ Live(e)' /\ Sender(e) /\ Sender(e)'
      /\ stat[e] # "NONE" /\ stat'[e] # "NONE" /\ stat[Peer(e)] # "NONE"
      /\ stat[e] \notin {"CLOSED", "FREE"}
  BY <1>1 DEF Open, Live, Sender, Absent, Closing, End
<1>3. Opening'
  <2>1. stat'["near"] \notin {"NONE", "REFUSED"} /\ stat'["far"] \notin {"NONE", "REFUSED"}
    BY <1>1, Peers DEF End, Absent
  <2> QED
    BY <2>1, OpeningOver
<1>4. Polled(e)' /\ Polled(Peer(e))'
  <2>1. \A x \in End : stat'[x] \in Absent => stat[x] \in Absent
    BY Peers
  <2> QED
    BY <1>1, <2>1, PolledDone
<1>5. (Live(Peer(e))' <=> Live(Peer(e))) /\ (Sender(Peer(e))' <=> Sender(Peer(e)))
  BY DEF Live, Sender
<1>6. ~In(Peer(e), "CLOSE") /\ ~In(Peer(e), "CLOSED")
  BY <1>1, <1>2 DEF LastWords, In
<1> QED
  BY <1>2, <1>3, <1>4, <1>5, <1>6

\* The parts of the invariant common to every step that writes one packet.
LEMMA DataSend ==
    ASSUME IInv, TypeOK', NEW e \in End, NEW v, Done(e, v), Open(e),
           stat["near"] \notin {"NONE", "REFUSED"}, stat["far"] \notin {"NONE", "REFUSED"},
           stat'[e] \notin Absent \cup Closing, stat'[Peer(e)] = stat[Peer(e)],
           UNCHANGED <<lbuf, ltClosed, got, gack>>,
           NEW pk \in Packet, Send(e, pk), pk.type \in {"SEND", "SENDOOB"}, PacketOK(pk),
           seq'[e] = seq[e] + pk.of, seq'[Peer(e)] = seq[Peer(e)],
           pk.seq = seq'[e], pk.ack = Settled(e),
           Counts(e)', Counts(Peer(e))'
    PROVE  IInv'
<1> DEFINE p == Peer(e)
<1>1. /\ TypeOK /\ p \in End /\ p # e /\ Peer(p) = e
      /\ Chain(e) /\ Packets(e) /\ Handshake(e) /\ LastWords(e)
      /\ Chain(p) /\ Packets(p) /\ Handshake(p) /\ LastWords(p)
  BY Parts, Peers
<1>2. /\ Opening' /\ Polled(e)' /\ Polled(p)'
      /\ Live(e) /\ Live(e)' /\ Sender(e) /\ Sender(e)'
      /\ stat[e] # "NONE" /\ stat'[e] # "NONE" /\ stat[p] # "NONE"
      /\ stat[p] \in {"CLOSED", "FREE"} => stat'[p] \in {"CLOSED", "FREE"}
      /\ stat[e] \notin {"CLOSED", "FREE"}
      /\ (Live(p)' <=> Live(p)) /\ (Sender(p)' <=> Sender(p))
      /\ ~In(p, "CLOSE") /\ ~In(p, "CLOSED")
  BY DataStep
<1>3. /\ chan'[e] = chan[e] /\ Len(chan[p]) \in Nat
      /\ Len(chan'[p]) = Len(chan[p]) + 1
      /\ \A i \in 1 .. Len(chan[p]) : chan'[p][i] = chan[p][i]
      /\ chan'[p][Len(chan'[p])] = pk
  BY <1>1, SendFacts, Types
<1>4. Settled(e)' = Settled(e) /\ Settled(p)' = Settled(p)
  BY DEF Settled
<1>5. /\ seq[e] \in Nat /\ seq[p] \in Nat /\ Settled(e) \in Int /\ Settled(p) \in Int
      /\ pk.of \in Nat /\ seq'[e] \in Nat /\ pk.seq \in Nat
  BY <1>1, Types, TypesNext, PacketTypes
<1>6. /\ seq'[p] >= seq[p] /\ Settled(p)' >= Settled(p)
      /\ seq'[e] >= seq[e] /\ Settled(e)' >= Settled(e)
      /\ pk.seq <= seq'[e] /\ pk.ack <= Settled(e)'
  BY <1>4, <1>5
<1>7. Carries(pk) = pk.of /\ Answers(pk) = 0
  BY DEF Carries, Answers
<1>8. Chain(e)'
  BY <1>1, <1>2, <1>3, <1>4, ChainSame
<1>9. Packets(e)'
  BY <1>1, <1>3, <1>6, PacketsSame
<1>10. LastWords(e)'
  BY <1>1, <1>2, <1>3, LastWordsSame
<1>11. Chain(p)'
  <2>1. /\ seq'[Peer(p)] = seq[Peer(p)] + Carries(pk) /\ pk.seq = seq'[Peer(p)]
        /\ pk.ack = Settled(Peer(p)) + Answers(pk) /\ Settled(Peer(p))' = pk.ack
    BY <1>1, <1>4, <1>5, <1>7
  <2> QED
    BY <1>1, <1>2, <1>3, <2>1, ChainSend
<1>12. Packets(p)'
  BY <1>1, <1>3, <1>6, PacketsSend
<1>13. LastWords(p)'
  BY <1>1, <1>2, <1>3, LastWordsSend
<1>14. /\ \A x \in End : \A t \in {"CLOSE", "CLOSED", "CONNECT"} : In(x, t)' => In(x, t)
       /\ In(e, "CLOSE") => In(e, "CLOSE")'
  <2>1. \A t : In(e, t)' <=> In(e, t)
    BY <1>3, InSame
  <2>2. \A t : In(p, t)' <=> (In(p, t) \/ pk.type = t)
    BY <1>1, <1>3, InSend
  <2> QED
    BY <2>1, <2>2, Peers
<1>15. Handshake(e)' /\ Handshake(p)'
  BY <1>1, <1>2, <1>14, HandshakeData
<1> QED
  BY <1>2, <1>8, <1>9, <1>10, <1>11, <1>12, <1>13, <1>15, Whole

\* The parts of the invariant common to every step that takes one packet.
LEMMA DataTake ==
    ASSUME IInv, TypeOK', NEW e \in End, NEW v, Done(e, v), Open(e),
           stat["near"] \notin {"NONE", "REFUSED"}, stat["far"] \notin {"NONE", "REFUSED"},
           stat'[e] \notin Absent \cup Closing, stat'[Peer(e)] = stat[Peer(e)],
           lbuf'[Peer(e)] = lbuf[Peer(e)], got'[Peer(e)] = got[Peer(e)],
           gack'[Peer(e)] = gack[Peer(e)], UNCHANGED <<ltClosed, seq>>,
           chan[e] # <<>>, Take(e), chan[e][1].type \notin {"CLOSE", "CLOSED"},
           got'[e] = got[e] + Carries(chan[e][1]),
           gack'[e] = gack[e] + Answers(chan[e][1]),
           Settled(e)' = Settled(e),
           Counts(e)', Counts(Peer(e))'
    PROVE  IInv'
<1> DEFINE p == Peer(e)
<1>1. /\ TypeOK /\ p \in End /\ p # e /\ Peer(p) = e
      /\ Chain(e) /\ Packets(e) /\ Handshake(e) /\ LastWords(e)
      /\ Chain(p) /\ Packets(p) /\ Handshake(p) /\ LastWords(p)
  BY Parts, Peers
<1>2. /\ Opening' /\ Polled(e)' /\ Polled(p)'
      /\ Live(e) /\ Live(e)' /\ Sender(e) /\ Sender(e)'
      /\ stat[e] # "NONE" /\ stat'[e] # "NONE" /\ stat[p] # "NONE"
      /\ stat[p] \in {"CLOSED", "FREE"} => stat'[p] \in {"CLOSED", "FREE"}
      /\ stat[e] \notin {"CLOSED", "FREE"}
      /\ (Live(p)' <=> Live(p)) /\ (Sender(p)' <=> Sender(p))
      /\ ~In(p, "CLOSE") /\ ~In(p, "CLOSED")
  BY DataStep
<1>3. /\ chan'[p] = chan[p] /\ Len(chan[e]) \in Nat /\ Len(chan[e]) >= 1
      /\ Len(chan'[e]) = Len(chan[e]) - 1
      /\ \A i \in 1 .. Len(chan'[e]) : chan'[e][i] = chan[e][i + 1]
  BY <1>1, TakeFacts, Types
<1>4. Settled(p)' = Settled(p)
  BY DEF Settled
<1>5. seq[e] \in Nat /\ seq[p] \in Nat /\ Settled(e) \in Int /\ Settled(p) \in Int
  BY <1>1, Types
<1>6. /\ seq'[p] >= seq[p] /\ Settled(p)' >= Settled(p)
      /\ seq'[e] >= seq[e] /\ Settled(e)' >= Settled(e)
  BY <1>4, <1>5
<1>7. Chain(e)'
  BY <1>1, <1>2, <1>3, <1>4, ChainTake
<1>8. Packets(e)'
  BY <1>1, <1>3, <1>6, PacketsTake
<1>9. LastWords(e)'
  BY <1>1, <1>2, <1>3, LastWordsTake
<1>10. Chain(p)'
  BY <1>1, <1>2, <1>3, ChainSame
<1>11. Packets(p)'
  BY <1>1, <1>3, <1>6, PacketsSame
<1>12. LastWords(p)'
  BY <1>1, <1>2, <1>3, LastWordsSame
<1>13. /\ \A x \in End : \A t \in {"CLOSE", "CLOSED", "CONNECT"} : In(x, t)' => In(x, t)
       /\ In(e, "CLOSE") => In(e, "CLOSE")'
  <2>1. \A t : In(p, t)' <=> In(p, t)
    BY <1>1, <1>3, InSame
  <2>2. \A t : In(e, t) <=> (In(e, t)' \/ chan[e][1].type = t)
    BY <1>3, InTake
  <2> QED
    BY <2>1, <2>2, Peers
<1>14. Handshake(e)' /\ Handshake(p)'
  BY <1>1, <1>2, <1>13, HandshakeData
<1> QED
  BY <1>2, <1>7, <1>8, <1>9, <1>10, <1>11, <1>12, <1>14, Whole

\* The same for a step that takes a packet and answers it.
LEMMA DataTakeSend ==
    ASSUME IInv, TypeOK', NEW e \in End, NEW v, Done(e, v), Open(e),
           stat["near"] \notin {"NONE", "REFUSED"}, stat["far"] \notin {"NONE", "REFUSED"},
           stat'[e] \notin Absent \cup Closing, stat'[Peer(e)] = stat[Peer(e)],
           lbuf'[Peer(e)] = lbuf[Peer(e)], got'[Peer(e)] = got[Peer(e)],
           gack'[Peer(e)] = gack[Peer(e)], UNCHANGED <<ltClosed, seq>>,
           NEW pk \in Packet, chan[e] # <<>>, TakeSend(e, pk),
           chan[e][1].type \notin {"CLOSE", "CLOSED"},
           got'[e] = got[e] + Carries(chan[e][1]),
           gack'[e] = gack[e] + Answers(chan[e][1]),
           pk.type \in {"SENT", "SENTOOB"}, PacketOK(pk),
           pk.seq = seq[e], pk.ack = Settled(e) + pk.of, Settled(e)' = pk.ack,
           Counts(e)', Counts(Peer(e))'
    PROVE  IInv'
<1> DEFINE p == Peer(e)
<1>1. /\ TypeOK /\ p \in End /\ p # e /\ Peer(p) = e
      /\ Chain(e) /\ Packets(e) /\ Handshake(e) /\ LastWords(e)
      /\ Chain(p) /\ Packets(p) /\ Handshake(p) /\ LastWords(p)
  BY Parts, Peers
<1>2. /\ Opening' /\ Polled(e)' /\ Polled(p)'
      /\ Live(e) /\ Live(e)' /\ Sender(e) /\ Sender(e)'
      /\ stat[e] # "NONE" /\ stat'[e] # "NONE" /\ stat[p] # "NONE"
      /\ stat[p] \in {"CLOSED", "FREE"} => stat'[p] \in {"CLOSED", "FREE"}
      /\ stat[e] \notin {"CLOSED", "FREE"}
      /\ (Live(p)' <=> Live(p)) /\ (Sender(p)' <=> Sender(p))
      /\ ~In(p, "CLOSE") /\ ~In(p, "CLOSED")
  BY DataStep
<1>3. /\ Len(chan[e]) \in Nat /\ Len(chan[e]) >= 1
      /\ Len(chan'[e]) = Len(chan[e]) - 1
      /\ \A i \in 1 .. Len(chan'[e]) : chan'[e][i] = chan[e][i + 1]
  BY <1>1, TakeSendFacts, Types
<1>4. /\ Len(chan[p]) \in Nat /\ Len(chan'[p]) = Len(chan[p]) + 1
      /\ \A i \in 1 .. Len(chan[p]) : chan'[p][i] = chan[p][i]
      /\ chan'[p][Len(chan'[p])] = pk
  BY <1>1, TakeSendFacts, Types
<1>5. Settled(p)' = Settled(p)
  BY DEF Settled
<1>6. /\ seq[e] \in Nat /\ seq[p] \in Nat /\ Settled(e) \in Int /\ Settled(p) \in Int
      /\ pk.of \in Nat /\ pk.seq \in Nat
  BY <1>1, Types, PacketTypes
<1>7. /\ seq'[p] >= seq[p] /\ Settled(p)' >= Settled(p)
      /\ seq'[e] >= seq[e] /\ Settled(e)' >= Settled(e)
      /\ pk.seq <= seq'[e] /\ pk.ack <= Settled(e)'
  BY <1>5, <1>6
<1>8. Carries(pk) = 0 /\ Answers(pk) = pk.of
  BY DEF Carries, Answers
<1>9. Chain(e)'
  BY <1>1, <1>2, <1>3, <1>5, ChainTake
<1>10. Packets(e)'
  BY <1>1, <1>3, <1>7, PacketsTake
<1>11. LastWords(e)'
  BY <1>1, <1>2, <1>3, LastWordsTake
<1>12. Chain(p)'
  <2>1. /\ seq'[Peer(p)] = seq[Peer(p)] + Carries(pk) /\ pk.seq = seq'[Peer(p)]
        /\ pk.ack = Settled(Peer(p)) + Answers(pk) /\ Settled(Peer(p))' = pk.ack
    BY <1>1, <1>6, <1>8
  <2> QED
    BY <1>1, <1>2, <1>4, <2>1, ChainSend
<1>13. Packets(p)'
  BY <1>1, <1>4, <1>7, PacketsSend
<1>14. LastWords(p)'
  BY <1>1, <1>2, <1>4, LastWordsSend
<1>15. /\ \A x \in End : \A t \in {"CLOSE", "CLOSED", "CONNECT"} : In(x, t)' => In(x, t)
       /\ In(e, "CLOSE") => In(e, "CLOSE")'
  <2>1. \A t : In(p, t)' <=> (In(p, t) \/ pk.type = t)
    BY <1>1, <1>4, InSend
  <2>2. \A t : In(e, t) <=> (In(e, t)' \/ chan[e][1].type = t)
    BY <1>3, InTake
  <2> QED
    BY <2>1, <2>2, Peers
<1>16. Handshake(e)' /\ Handshake(p)'
  BY <1>1, <1>2, <1>15, HandshakeData
<1> QED
  BY <1>2, <1>9, <1>10, <1>11, <1>12, <1>13, <1>14, <1>16, Whole

\* sox_relay1 sends what it read: the stream and a_rpend grow together.
LEMMA RelayInv == ASSUME IInv, NEW e \in End, Relay(e) PROVE IInv'
<1> DEFINE p == Peer(e)
<1>1. TypeOK /\ Counts(e) /\ Counts(p) /\ p \in End /\ p # e /\ Peer(p) = e
  BY Parts, Peers
<1>2. PICK n \in 1 .. Payload :
        /\ rpend' = [rpend EXCEPT ![e] = rpend[e] + n]
        /\ seq' = [seq EXCEPT ![e] = seq[e] + n]
        /\ extra' = [extra EXCEPT ![e] =
              IF Window < rpend[e] /\ stat[e] # "SEND" THEN extra[e] + n ELSE extra[e]]
        /\ Send(e, Pack("SEND", n, n, seq[e] + n, Settled(e)))
  BY DEF Relay
<1>3. /\ Done(e, "IN") /\ "IN" \in rev[e] /\ Open(e)
      /\ stat' = [stat EXCEPT ![e] = SendStat(rpend'[e])]
      /\ UNCHANGED <<lbuf, ltClosed, oob, urgent, lost, got, gack, leak, expired>>
  BY DEF Relay, Turn
<1>4. stat["near"] \notin {"NONE", "REFUSED"} /\ stat["far"] \notin {"NONE", "REFUSED"}
  BY <1>3, Started
<1>5. /\ Payload \in Nat \ {0} /\ Window \in Nat /\ n \in Nat /\ n > 0 /\ n <= Payload
  BY Sizes
<1>6. /\ rpend[e] \in Nat /\ seq[e] \in Nat /\ extra[e] \in Nat /\ oob[e] \in Nat
      /\ gack[e] \in Nat /\ leak[e] \in Nat /\ got[p] \in Nat
      /\ Settled(e) \in Int /\ gack[p] \in Nat
  BY <1>1, Types
<1>7. gack[p] <= Settled(e) /\ Settled(e) \in Nat
  BY <1>1, <1>6 DEF Counts
<1> DEFINE pk == Pack("SEND", n, n, seq[e] + n, Settled(e))
<1>8. /\ pk \in Packet /\ pk.type = "SEND" /\ pk.len = n /\ pk.of = n
      /\ pk.seq = seq[e] + n /\ pk.ack = Settled(e)
  BY <1>5, <1>6, <1>7 DEF Pack, Packet, PackType
<1>9. /\ rpend'[e] = rpend[e] + n /\ seq'[e] = seq[e] + n
      /\ rpend'[p] = rpend[p] /\ seq'[p] = seq[p] /\ extra'[p] = extra[p]
      /\ extra'[e] = IF Window < rpend[e] /\ stat[e] # "SEND" THEN extra[e] + n ELSE extra[e]
      /\ rpend' \in [End -> Nat] /\ seq' \in [End -> Nat] /\ extra' \in [End -> Nat]
  <2>1. rpend \in [End -> Nat] /\ seq \in [End -> Nat] /\ extra \in [End -> Nat]
    BY <1>1 DEF TypeOK
  <2> QED
    BY <1>1, <1>2, <1>5, <1>6, <2>1
<1>10. /\ stat' \in [End -> Status] /\ stat'[p] = stat[p]
       /\ stat'[e] = IF Window < rpend[e] + n THEN "SENDING" ELSE "SEND"
  <2>1. stat \in [End -> Status] /\ "SEND" \in Status /\ "SENDING" \in Status
    BY <1>1 DEF TypeOK, Status, Waiting
  <2> QED
    BY <1>1, <1>3, <1>9, <2>1 DEF SendStat
<1>11. stat'[e] \notin Absent \cup Closing
  BY <1>10 DEF Absent, Closing
<1>12. TypeOK'
  <2>1. chan' \in [End -> Seq(Packet)] /\ rev' \in [End -> SUBSET Event]
    BY <1>1, <1>2, <1>3, <1>8, SendFacts, DoneFacts
  <2> QED
    BY <1>1, <1>3, <1>9, <1>10, <2>1 DEF TypeOK
<1>13. PacketOK(pk)
  BY <1>8, <1>5 DEF PacketOK
<1>14. Settled(e)' = Settled(e) /\ Settled(p)' = Settled(p)
  BY <1>3 DEF Settled
<1>15. Counts(e)'
  BY <1>1, <1>3, <1>5, <1>6, <1>9, <1>10, <1>14 DEF Counts
<1>16. Counts(p)'
  <2>1. got[p] <= seq[e]
    BY <1>1 DEF Counts
  <2>2. got[p] <= seq'[e]
    BY <2>1, <1>5, <1>6, <1>9
  <2> QED
    BY <1>1, <1>3, <1>9, <1>10, <1>14, <2>2 DEF Counts
<1> QED
  BY <1>2, <1>3, <1>4, <1>8, <1>9, <1>10, <1>11, <1>12, <1>13, <1>15, <1>16, DataSend

\* sox_relay1 sends urgent bytes.
LEMMA RelayOOBInv == ASSUME IInv, NEW e \in End, NEW v \in {"PRI", "PUSH"}, RelayOOB(e, v) PROVE IInv'
<1> DEFINE p == Peer(e)
<1>1. TypeOK /\ Counts(e) /\ Counts(p) /\ p \in End /\ p # e /\ Peer(p) = e
  BY Parts, Peers
<1>2. PICK n \in 1 .. Payload :
        /\ rpend' = [rpend EXCEPT ![e] = rpend[e] + n]
        /\ seq' = [seq EXCEPT ![e] = seq[e] + n]
        /\ oob' = [oob EXCEPT ![e] = oob[e] + n]
        /\ urgent' = [urgent EXCEPT ![e] = urgent[e] \cup (seq[e] + 1 .. seq[e] + n)]
        /\ Send(e, Pack("SENDOOB", n, n, seq[e] + n, Settled(e)))
  BY DEF RelayOOB
<1>3. /\ Done(e, v) /\ v \in rev[e] /\ Open(e)
      /\ stat' = [stat EXCEPT ![e] = "SENDINGOOB"]
      /\ UNCHANGED <<lbuf, ltClosed, lost, got, gack, leak, extra, expired>>
  BY DEF RelayOOB, Turn
<1>4. stat["near"] \notin {"NONE", "REFUSED"} /\ stat["far"] \notin {"NONE", "REFUSED"}
  BY <1>3, Started
<1>5. /\ Payload \in Nat \ {0} /\ Window \in Nat /\ n \in Nat /\ n > 0 /\ n <= Payload
  BY Sizes
<1>6. /\ rpend[e] \in Nat /\ seq[e] \in Nat /\ extra[e] \in Nat /\ oob[e] \in Nat
      /\ gack[e] \in Nat /\ leak[e] \in Nat /\ got[p] \in Nat
      /\ Settled(e) \in Int /\ gack[p] \in Nat
  BY <1>1, Types
<1>7. gack[p] <= Settled(e) /\ Settled(e) \in Nat
  BY <1>1, <1>6 DEF Counts
<1> DEFINE pk == Pack("SENDOOB", n, n, seq[e] + n, Settled(e))
<1>8. /\ pk \in Packet /\ pk.type = "SENDOOB" /\ pk.len = n /\ pk.of = n
      /\ pk.seq = seq[e] + n /\ pk.ack = Settled(e)
  BY <1>5, <1>6, <1>7 DEF Pack, Packet, PackType
<1>9. /\ rpend'[e] = rpend[e] + n /\ seq'[e] = seq[e] + n /\ oob'[e] = oob[e] + n
      /\ rpend'[p] = rpend[p] /\ seq'[p] = seq[p] /\ oob'[p] = oob[p]
      /\ rpend' \in [End -> Nat] /\ seq' \in [End -> Nat] /\ oob' \in [End -> Nat]
  <2>1. rpend \in [End -> Nat] /\ seq \in [End -> Nat] /\ oob \in [End -> Nat]
    BY <1>1 DEF TypeOK
  <2> QED
    BY <1>1, <1>2, <1>5, <1>6, <2>1
<1>10. /\ stat' \in [End -> Status] /\ stat'[p] = stat[p] /\ stat'[e] = "SENDINGOOB"
  <2>1. stat \in [End -> Status] /\ "SENDINGOOB" \in Status
    BY <1>1 DEF TypeOK, Status, Waiting
  <2> QED
    BY <1>1, <1>3, <2>1
<1>11. stat'[e] \notin Absent \cup Closing
  BY <1>10 DEF Absent, Closing
<1>12. TypeOK'
  <2>1. chan' \in [End -> Seq(Packet)] /\ rev' \in [End -> SUBSET Event]
    BY <1>1, <1>2, <1>3, <1>8, SendFacts, DoneFacts
  <2>2. urgent' \in [End -> SUBSET Nat]
    <3>1. urgent \in [End -> SUBSET Nat]
      BY <1>1 DEF TypeOK
    <3>2. seq[e] + 1 .. seq[e] + n \subseteq Nat
      BY <1>5, <1>6
    <3> QED
      BY <1>2, <3>1, <3>2
  <2> QED
    BY <1>1, <1>3, <1>9, <1>10, <2>1, <2>2 DEF TypeOK
<1>13. PacketOK(pk)
  BY <1>8, <1>5 DEF PacketOK
<1>14. Settled(e)' = Settled(e) /\ Settled(p)' = Settled(p)
  BY <1>3 DEF Settled
<1>15. Counts(e)'
  BY <1>1, <1>3, <1>5, <1>6, <1>9, <1>10, <1>14 DEF Counts
<1>16. Counts(p)'
  <2>1. got[p] <= seq[e]
    BY <1>1 DEF Counts
  <2>2. got[p] <= seq'[e]
    BY <2>1, <1>5, <1>6, <1>9
  <2> QED
    BY <1>1, <1>3, <1>9, <1>10, <1>14, <2>2 DEF Counts
<1> QED
  BY <1>2, <1>3, <1>4, <1>8, <1>9, <1>10, <1>11, <1>12, <1>13, <1>15, <1>16, DataSend

-----------------------------------------------------------------------------
(***************************************************************************)
(* Steps that take a packet.                                               *)
(***************************************************************************)
\* The first packet on its way to a Live end is the next one in its streams.
LEMMA HeadFacts ==
    ASSUME IInv, NEW e \in End, chan[e] # <<>>
    PROVE  /\ Len(chan[e]) \in Nat /\ Len(chan[e]) >= 1
           /\ Head(chan[e]) = chan[e][1] /\ chan[e][1] \in Packet
           /\ chan[e][1].type \in PackType /\ chan[e][1].len \in Int
           /\ chan[e][1].of \in Nat /\ PacketOK(chan[e][1])
           /\ chan[e][1].seq \in Nat /\ chan[e][1].ack \in Nat
           /\ chan[e][1].seq <= seq[Peer(e)] /\ chan[e][1].ack <= Settled(Peer(e))
           /\ Live(e) => /\ chan[e][1].seq = got[e] + Carries(chan[e][1])
                         /\ chan[e][1].ack = gack[e] + Answers(chan[e][1])
<1>1. TypeOK /\ Chain(e) /\ Packets(e)
  BY Parts
<1>2. /\ Len(chan[e]) \in Nat /\ Len(chan[e]) >= 1
      /\ Head(chan[e]) = chan[e][1] /\ chan[e][1] \in Packet
  BY <1>1, Types, TailFacts
<1>3. 1 \in 1 .. Len(chan[e]) /\ 1 - 1 = 0
  BY <1>2
<1>4. /\ PacketOK(chan[e][1])
      /\ chan[e][1].seq <= seq[Peer(e)] /\ chan[e][1].ack <= Settled(Peer(e))
  BY <1>1, <1>3 DEF Packets
<1>5. ASSUME Live(e)
      PROVE  /\ chan[e][1].seq = got[e] + Carries(chan[e][1])
             /\ chan[e][1].ack = gack[e] + Answers(chan[e][1])
  <2>1. /\ SeqAt(e, 1) = SeqAt(e, 0) + Carries(chan[e][1])
        /\ AckAt(e, 1) = AckAt(e, 0) + Answers(chan[e][1])
    BY <1>1, <1>3, <1>5 DEF Chain
  <2> QED
    BY <2>1 DEF SeqAt, AckAt
<1> QED
  BY <1>2, <1>4, <1>5, PacketTypes

\* CONNECTED opens the near agent.
LEMMA RecvConnectedInv == ASSUME IInv, NEW e \in End, RecvConnected(e) PROVE IInv'
<1> DEFINE p == Peer(e)
<1>1. TypeOK /\ Counts(e) /\ Counts(p) /\ p \in End /\ p # e /\ Peer(p) = e
  BY Parts, Peers
<1>2. /\ Done(e, "COMM") /\ Open(e) /\ chan[e] # <<>> /\ Head(chan[e]).type = "CONNECTED"
      /\ stat' = [stat EXCEPT ![e] = "CONNECTED"] /\ Take(e)
      /\ UNCHANGED <<rpend, lbuf, ltClosed, seq, oob, urgent, lost, got, gack,
                     leak, extra, expired>>
  BY DEF RecvConnected, Recv, hist
<1>3. chan[e][1].type = "CONNECTED" /\ Len(chan[e]) >= 1
  BY <1>2, HeadFacts
<1>4. stat["near"] \notin {"NONE", "REFUSED"} /\ stat["far"] \notin {"NONE", "REFUSED"}
  BY <1>2, <1>3, Started
<1>5. /\ stat' \in [End -> Status] /\ stat'[p] = stat[p] /\ stat'[e] = "CONNECTED"
  <2>1. stat \in [End -> Status] /\ "CONNECTED" \in Status
    BY <1>1 DEF TypeOK, Status
  <2> QED
    BY <1>1, <1>2, <2>1
<1>6. TypeOK'
  <2>1. chan' \in [End -> Seq(Packet)] /\ rev' \in [End -> SUBSET Event]
    BY <1>1, <1>2, TakeFacts, DoneFacts
  <2> QED
    BY <1>1, <1>2, <1>5, <2>1 DEF TypeOK
<1>7. Carries(chan[e][1]) = 0 /\ Answers(chan[e][1]) = 0
  BY <1>3 DEF Carries, Answers
<1>8. got'[e] = got[e] + Carries(chan[e][1]) /\ gack'[e] = gack[e] + Answers(chan[e][1])
  BY <1>1, <1>2, <1>7, Types
<1>9. Settled(e)' = Settled(e) /\ Settled(p)' = Settled(p)
  BY <1>2 DEF Settled
<1>10. Counts(e)' /\ Counts(p)'
  BY <1>1, <1>2, <1>5, <1>9 DEF Counts
<1>11. stat'[e] \notin Absent \cup Closing
  BY <1>5 DEF Absent, Closing
<1> QED
  BY <1>2, <1>3, <1>4, <1>5, <1>6, <1>8, <1>9, <1>10, <1>11, DataTake

\* SENT gives back credit, never more than was taken.
LEMMA RecvSentInv == ASSUME IInv, NEW e \in End, RecvSent(e) PROVE IInv'
<1> DEFINE p == Peer(e)
           m == chan[e][1]
<1>1. TypeOK /\ Counts(e) /\ Counts(p) /\ p \in End /\ p # e /\ Peer(p) = e
  BY Parts, Peers
<1>2. /\ Done(e, "COMM") /\ Open(e) /\ chan[e] # <<>> /\ Head(chan[e]).type = "SENT"
      /\ rpend' = [rpend EXCEPT ![e] = rpend[e] - Head(chan[e]).len]
      /\ stat' = [stat EXCEPT ![e] = SentStat(stat[e], rpend[e] - Head(chan[e]).len)]
      /\ gack' = [gack EXCEPT ![e] = gack[e] + Head(chan[e]).of]
      /\ Take(e)
      /\ UNCHANGED <<lbuf, ltClosed, seq, oob, urgent, lost, got, leak, extra,
                     expired>>
  BY DEF RecvSent, Recv
<1>3. Live(e)
  BY <1>2, OpenLive
<1>4. /\ m.type = "SENT" /\ Len(chan[e]) >= 1 /\ Head(chan[e]) = m
      /\ m.len \in Int /\ m.of \in Nat /\ PacketOK(m) /\ m.ack \in Nat
      /\ m.ack <= Settled(p) /\ m.ack = gack[e] + Answers(m)
  BY <1>2, <1>3, HeadFacts
<1>5. stat["near"] \notin {"NONE", "REFUSED"} /\ stat["far"] \notin {"NONE", "REFUSED"}
  BY <1>2, <1>4, Started
<1>6a. PICK o \in Nat, l \in Int : o = m.of /\ l = m.len
  BY <1>4
<1>6. Carries(m) = 0 /\ Answers(m) = o /\ l = o /\ gack[e] + o <= Settled(p)
  <2>1. Carries(m) = 0 /\ Answers(m) = m.of
    BY <1>4 DEF Carries, Answers
  <2>2. l = o
    BY <1>4, <1>6a DEF PacketOK
  <2> QED
    BY <1>4, <1>6a, <2>1, <2>2
<1>7. /\ rpend[e] \in Nat /\ seq[e] \in Nat /\ gack[e] \in Nat /\ leak[e] \in Nat
      /\ got[p] \in Nat /\ lbuf[p] \in Nat /\ Settled(p) = got[p] - lbuf[p]
      /\ stat[e] \in Status /\ extra[e] \in Nat /\ oob[e] \in Nat /\ got[e] \in Nat
      /\ Window \in Nat /\ Payload \in Nat
  BY <1>1, Types, Sizes
<1>8. Settled(p) <= seq[e]
  <2>1. got[p] <= seq[e]
    BY <1>1 DEF Counts
  <2> QED
    BY <2>1, <1>7
<1>9. rpend[e] = leak[e] + seq[e] - gack[e] /\ rpend[e] - l \in Nat
  <2>1. rpend[e] = leak[e] + seq[e] - gack[e]
    BY <1>1 DEF Counts
  <2> QED
    BY <1>6, <1>7, <1>8, <2>1
<1>10. /\ rpend'[e] = rpend[e] - l /\ gack'[e] = gack[e] + o
       /\ rpend'[p] = rpend[p] /\ gack'[p] = gack[p]
       /\ rpend' \in [End -> Nat] /\ gack' \in [End -> Nat]
  <2>1. rpend \in [End -> Nat] /\ gack \in [End -> Nat]
    BY <1>1 DEF TypeOK
  <2>2. /\ rpend' = [rpend EXCEPT ![e] = rpend[e] - l]
        /\ gack' = [gack EXCEPT ![e] = gack[e] + o]
    BY <1>2, <1>4, <1>6a
  <2>3. gack[e] + o \in Nat
    BY <1>7
  <2> QED
    BY <1>1, <1>9, <2>1, <2>2, <2>3
<1>11. /\ stat' \in [End -> Status] /\ stat'[p] = stat[p]
       /\ stat'[e] = IF rpend'[e] < Window THEN "SENT" ELSE stat[e]
  <2>1. stat \in [End -> Status] /\ "SENT" \in Status
    BY <1>1 DEF TypeOK, Status
  <2> QED
    BY <1>1, <1>2, <1>4, <1>6a, <1>10, <2>1 DEF SentStat
<1>12. stat'[e] \notin Absent \cup Closing
  BY <1>2, <1>11 DEF Absent, Closing, Open
<1>13. TypeOK'
  <2>1. chan' \in [End -> Seq(Packet)] /\ rev' \in [End -> SUBSET Event]
    BY <1>1, <1>2, TakeFacts, DoneFacts
  <2> QED
    BY <1>1, <1>2, <1>10, <1>11, <2>1 DEF TypeOK
<1>14. got'[e] = got[e] + Carries(m) /\ gack'[e] = gack[e] + Answers(m)
  BY <1>2, <1>6, <1>7, <1>10
<1>15. Settled(e)' = Settled(e) /\ Settled(p)' = Settled(p)
  BY <1>2 DEF Settled
<1>16. Counts(e)'
  <2>1. /\ got[e] <= seq[p] /\ gack[p] <= Settled(e)
        /\ stat[e] = "SEND" => rpend[e] <= Window
        /\ seq[e] - gack[e] <= Window + Payload + extra[e] + oob[e]
    BY <1>1 DEF Counts
  <2>0. seq'[e] = seq[e] /\ extra'[e] = extra[e] /\ oob'[e] = oob[e] /\ leak'[e] = leak[e]
    BY <1>2
  <2>2. rpend'[e] = leak'[e] + seq'[e] - gack'[e]
    BY <2>0, <1>6, <1>7, <1>9, <1>10
  <2>3. stat'[e] = "SEND" => rpend'[e] <= Window
    BY <1>6, <1>7, <1>10, <1>11, <2>1
  <2>4. seq'[e] - gack'[e] <= Window + Payload + extra'[e] + oob'[e]
    BY <2>0, <1>7, <1>10, <2>1
  <2> QED
    BY <1>1, <1>2, <1>10, <1>15, <2>1, <2>2, <2>3, <2>4 DEF Counts
<1>17. Counts(p)'
  BY <1>1, <1>2, <1>6, <1>10, <1>11, <1>15 DEF Counts
<1> QED
  BY <1>2, <1>4, <1>5, <1>10, <1>11, <1>12, <1>13, <1>14, <1>15, <1>16, <1>17, DataTake

\* SENTOOB gives back at most the credit its SENDOOB took.
LEMMA RecvSentOOBInv == ASSUME IInv, NEW e \in End, RecvSentOOB(e) PROVE IInv'
<1> DEFINE p == Peer(e)
           m == chan[e][1]
<1>1. TypeOK /\ Counts(e) /\ Counts(p) /\ p \in End /\ p # e /\ Peer(p) = e
  BY Parts, Peers
<1>2. /\ Done(e, "COMM") /\ Open(e) /\ chan[e] # <<>> /\ Head(chan[e]).type = "SENTOOB"
      /\ rpend' = [rpend EXCEPT ![e] = rpend[e] - Head(chan[e]).len]
      /\ gack' = [gack EXCEPT ![e] = gack[e] + Head(chan[e]).of]
      /\ leak' = [leak EXCEPT ![e] = leak[e] + Head(chan[e]).of - Head(chan[e]).len]
      /\ stat' = [stat EXCEPT ![e] = "SENTOOB"]
      /\ Take(e)
      /\ UNCHANGED <<lbuf, ltClosed, seq, oob, urgent, lost, got, extra, expired>>
  BY DEF RecvSentOOB, Recv
<1>3. Live(e)
  BY <1>2, OpenLive
<1>4. /\ m.type = "SENTOOB" /\ Len(chan[e]) >= 1 /\ Head(chan[e]) = m
      /\ m.len \in Int /\ m.of \in Nat /\ PacketOK(m) /\ m.ack \in Nat
      /\ m.ack <= Settled(p) /\ m.ack = gack[e] + Answers(m)
  BY <1>2, <1>3, HeadFacts
<1>5. stat["near"] \notin {"NONE", "REFUSED"} /\ stat["far"] \notin {"NONE", "REFUSED"}
  BY <1>2, <1>4, Started
<1>6a. PICK o \in Nat, l \in Int : o = m.of /\ l = m.len
  BY <1>4
<1>6. Carries(m) = 0 /\ Answers(m) = o /\ l <= o /\ gack[e] + o <= Settled(p)
  <2>1. Carries(m) = 0 /\ Answers(m) = m.of
    BY <1>4 DEF Carries, Answers
  <2>2. l <= o
    BY <1>4, <1>6a DEF PacketOK
  <2> QED
    BY <1>4, <1>6a, <2>1, <2>2
<1>7. /\ rpend[e] \in Nat /\ seq[e] \in Nat /\ gack[e] \in Nat /\ leak[e] \in Nat
      /\ got[p] \in Nat /\ lbuf[p] \in Nat /\ Settled(p) = got[p] - lbuf[p]
      /\ stat[e] \in Status /\ extra[e] \in Nat /\ oob[e] \in Nat /\ got[e] \in Nat
      /\ Window \in Nat /\ Payload \in Nat
  BY <1>1, Types, Sizes
<1>8. Settled(p) <= seq[e]
  <2>1. got[p] <= seq[e]
    BY <1>1 DEF Counts
  <2> QED
    BY <2>1, <1>7
<1>9. /\ rpend[e] = leak[e] + seq[e] - gack[e] /\ rpend[e] - l \in Nat
      /\ leak[e] + o - l \in Nat
  <2>1. rpend[e] = leak[e] + seq[e] - gack[e]
    BY <1>1 DEF Counts
  <2> QED
    BY <1>6, <1>7, <1>8, <2>1
<1>10. /\ rpend'[e] = rpend[e] - l /\ gack'[e] = gack[e] + o
       /\ leak'[e] = leak[e] + o - l /\ leak'[p] = leak[p]
       /\ rpend'[p] = rpend[p] /\ gack'[p] = gack[p]
       /\ rpend' \in [End -> Nat] /\ gack' \in [End -> Nat] /\ leak' \in [End -> Nat]
  <2>1. rpend \in [End -> Nat] /\ gack \in [End -> Nat] /\ leak \in [End -> Nat]
    BY <1>1 DEF TypeOK
  <2>2. /\ rpend' = [rpend EXCEPT ![e] = rpend[e] - l]
        /\ gack' = [gack EXCEPT ![e] = gack[e] + o]
        /\ leak' = [leak EXCEPT ![e] = leak[e] + o - l]
    BY <1>2, <1>4, <1>6a
  <2>3. gack[e] + o \in Nat
    BY <1>7
  <2> QED
    BY <1>1, <1>9, <2>1, <2>2, <2>3
<1>11. /\ stat' \in [End -> Status] /\ stat'[p] = stat[p] /\ stat'[e] = "SENTOOB"
  <2>1. stat \in [End -> Status] /\ "SENTOOB" \in Status
    BY <1>1 DEF TypeOK, Status
  <2> QED
    BY <1>1, <1>2, <2>1
<1>12. stat'[e] \notin Absent \cup Closing
  BY <1>11 DEF Absent, Closing
<1>13. TypeOK'
  <2>1. chan' \in [End -> Seq(Packet)] /\ rev' \in [End -> SUBSET Event]
    BY <1>1, <1>2, TakeFacts, DoneFacts
  <2> QED
    BY <1>1, <1>2, <1>10, <1>11, <2>1 DEF TypeOK
<1>14. got'[e] = got[e] + Carries(m) /\ gack'[e] = gack[e] + Answers(m)
  BY <1>2, <1>6, <1>7, <1>10
<1>15. Settled(e)' = Settled(e) /\ Settled(p)' = Settled(p)
  BY <1>2 DEF Settled
<1>16. Counts(e)'
  <2>1. /\ got[e] <= seq[p] /\ gack[p] <= Settled(e)
        /\ stat[e] = "SEND" => rpend[e] <= Window
        /\ seq[e] - gack[e] <= Window + Payload + extra[e] + oob[e]
    BY <1>1 DEF Counts
  <2>0. seq'[e] = seq[e] /\ extra'[e] = extra[e] /\ oob'[e] = oob[e]
    BY <1>2
  <2>2. rpend'[e] = leak'[e] + seq'[e] - gack'[e]
    BY <2>0, <1>6, <1>7, <1>9, <1>10
  <2>3. stat'[e] = "SEND" => rpend'[e] <= Window
    BY <1>6, <1>7, <1>10, <1>11, <2>1
  <2>4. seq'[e] - gack'[e] <= Window + Payload + extra'[e] + oob'[e]
    BY <2>0, <1>7, <1>10, <2>1
  <2> QED
    BY <1>1, <1>2, <1>10, <1>15, <2>1, <2>2, <2>3, <2>4 DEF Counts
<1>17. Counts(p)'
  BY <1>1, <1>2, <1>6, <1>10, <1>11, <1>15 DEF Counts
<1> QED
  BY <1>2, <1>4, <1>5, <1>10, <1>11, <1>12, <1>13, <1>14, <1>15, <1>16, <1>17, DataTake

\* SEND is written or buffered, and what was written is acknowledged.
LEMMA RecvSendInv == ASSUME IInv, NEW e \in End, RecvSend(e) PROVE IInv'
<1> DEFINE p == Peer(e)
           m == chan[e][1]
<1>1. TypeOK /\ Counts(e) /\ Counts(p) /\ p \in End /\ p # e /\ Peer(p) = e
  BY Parts, Peers
<1>2. /\ Done(e, "COMM") /\ Open(e) /\ chan[e] # <<>> /\ Head(chan[e]).type = "SEND"
      /\ UNCHANGED <<stat, rpend, ltClosed, seq, oob, urgent, lost, gack, leak,
                     extra, expired>>
  BY DEF RecvSend, Recv
<1>3. Live(e)
  BY <1>2, OpenLive
<1>4. /\ m.type = "SEND" /\ Len(chan[e]) >= 1 /\ Head(chan[e]) = m
      /\ m.of \in Nat /\ PacketOK(m) /\ m.seq \in Nat
      /\ m.seq <= seq[p] /\ m.seq = got[e] + Carries(m)
  BY <1>2, <1>3, HeadFacts
<1>5. stat["near"] \notin {"NONE", "REFUSED"} /\ stat["far"] \notin {"NONE", "REFUSED"}
  BY <1>2, <1>4, Started
<1>6a. PICK o \in Nat : o = m.of
  BY <1>4
<1>6. Carries(m) = o /\ Answers(m) = 0 /\ m.len = o /\ got[e] + o <= seq[p]
  <2>1. Carries(m) = m.of /\ Answers(m) = 0
    BY <1>4 DEF Carries, Answers
  <2>2. m.len = m.of
    BY <1>4 DEF PacketOK
  <2> QED
    BY <1>4, <1>6a, <2>1, <2>2
<1>7. /\ got[e] \in Nat /\ lbuf[e] \in Nat /\ seq[e] \in Nat /\ gack[p] \in Nat
      /\ Settled(e) = got[e] - lbuf[e] /\ gack[e] \in Nat /\ seq[p] \in Nat
      /\ Settled(e) \in Int
  BY <1>1, Types
<1>8. gack[p] <= Settled(e)
  BY <1>1 DEF Counts
<1>9. PICK w \in 0 .. lbuf[e] + o :
        /\ lbuf' = [lbuf EXCEPT ![e] = lbuf[e] + o - w]
        /\ got' = [got EXCEPT ![e] = got[e] + o]
        /\ IF w = 0
             THEN Take(e)
             ELSE TakeSend(e, Pack("SENT", w, w, seq[e], Settled(e) + w))
  BY <1>4, <1>6 DEF RecvSend
<1>10. w \in Nat /\ w <= lbuf[e] + o /\ lbuf[e] + o - w \in Nat /\ got[e] + o \in Nat
       /\ Settled(e) + w \in Nat
  BY <1>7, <1>8
<1>11. /\ lbuf'[e] = lbuf[e] + o - w /\ lbuf'[p] = lbuf[p] /\ lbuf' \in [End -> Nat]
       /\ got'[e] = got[e] + o /\ got'[p] = got[p] /\ got' \in [End -> Nat]
  <2>1. lbuf \in [End -> Nat] /\ got \in [End -> Nat]
    BY <1>1 DEF TypeOK
  <2> QED
    BY <1>1, <1>9, <1>10, <2>1
<1>12. Settled(p)' = Settled(p) /\ Settled(e)' = Settled(e) + w
  <2>1. Settled(e)' = (got[e] + o) - (lbuf[e] + o - w)
    BY <1>11 DEF Settled
  <2> QED
    BY <1>7, <1>10, <1>11, <2>1 DEF Settled
<1>13. Counts(e)'
  <2>1. got'[e] <= seq'[p] /\ gack'[p] <= Settled(e)'
    <3>1. seq'[p] = seq[p] /\ gack'[p] = gack[p]
      BY <1>2
    <3> QED
      BY <1>6, <1>7, <1>8, <1>10, <1>11, <1>12, <3>1
  <2> QED
    BY <1>1, <1>2, <2>1 DEF Counts
<1>14. Counts(p)'
  BY <1>1, <1>2, <1>11, <1>12 DEF Counts
<1>15. rev' \in [End -> SUBSET Event]
  BY <1>1, <1>2, DoneFacts
<1>16. got'[e] = got[e] + Carries(m) /\ gack'[e] = gack[e] + Answers(m)
  BY <1>2, <1>6, <1>7, <1>11
<1>17. stat'[e] \notin Absent \cup Closing /\ stat'[p] = stat[p] /\ gack'[p] = gack[p]
  BY <1>2 DEF Open
<1>18. CASE w = 0
  <2>1. Take(e) /\ Settled(e)' = Settled(e)
    BY <1>7, <1>9, <1>12, <1>18
  <2>2. chan' \in [End -> Seq(Packet)]
    BY <1>1, <1>2, <2>1, TakeFacts
  <2>3. TypeOK'
    BY <1>1, <1>2, <1>11, <1>15, <2>2 DEF TypeOK
  <2> QED
    BY <1>2, <1>4, <1>5, <1>11, <1>13, <1>14, <1>16, <1>17, <2>1, <2>3, DataTake
<1>19. CASE w # 0
  <2> DEFINE pk == Pack("SENT", w, w, seq[e], Settled(e) + w)
  <2>1. TakeSend(e, pk)
    BY <1>9, <1>19
  <2>2. /\ pk \in Packet /\ pk.type = "SENT" /\ pk.len = w /\ pk.of = w
        /\ pk.seq = seq[e] /\ pk.ack = Settled(e) + w
    BY <1>7, <1>10 DEF Pack, Packet, PackType
  <2>3. PacketOK(pk)
    BY <1>10, <2>2 DEF PacketOK
  <2>4. chan' \in [End -> Seq(Packet)]
    BY <1>1, <1>2, <2>1, <2>2, TakeSendFacts
  <2>5. TypeOK'
    BY <1>1, <1>2, <1>11, <1>15, <2>4 DEF TypeOK
  <2>6. pk.ack = Settled(e) + pk.of /\ Settled(e)' = pk.ack
    BY <1>12, <2>2
  <2> QED
    BY <1>2, <1>4, <1>5, <1>11, <1>13, <1>14, <1>16, <1>17, <2>1, <2>2, <2>3, <2>5,
       <2>6, DataTakeSend
<1> QED
  BY <1>18, <1>19

\* SENDOOB bypasses the buffer and is always acknowledged.
LEMMA RecvSendOOBInv == ASSUME IInv, NEW e \in End, RecvSendOOB(e) PROVE IInv'
<1> DEFINE p == Peer(e)
           m == chan[e][1]
<1>1. TypeOK /\ Counts(e) /\ Counts(p) /\ p \in End /\ p # e /\ Peer(p) = e
  BY Parts, Peers
<1>2. /\ Done(e, "COMM") /\ Open(e) /\ chan[e] # <<>> /\ Head(chan[e]).type = "SENDOOB"
      /\ UNCHANGED <<stat, rpend, lbuf, ltClosed, seq, oob, urgent, gack, leak,
                     extra, expired>>
  BY DEF RecvSendOOB, Recv
<1>3. Live(e)
  BY <1>2, OpenLive
<1>4. /\ m.type = "SENDOOB" /\ Len(chan[e]) >= 1 /\ Head(chan[e]) = m
      /\ m.of \in Nat /\ PacketOK(m) /\ m.seq \in Nat
      /\ m.seq <= seq[p] /\ m.seq = got[e] + Carries(m)
  BY <1>2, <1>3, HeadFacts
<1>5. stat["near"] \notin {"NONE", "REFUSED"} /\ stat["far"] \notin {"NONE", "REFUSED"}
  BY <1>2, <1>4, Started
<1>6a. PICK o \in Nat : o = m.of
  BY <1>4
<1>6. Carries(m) = o /\ Answers(m) = 0 /\ m.len = o /\ got[e] + o <= seq[p]
  <2>1. Carries(m) = m.of /\ Answers(m) = 0
    BY <1>4 DEF Carries, Answers
  <2>2. m.len = m.of
    BY <1>4 DEF PacketOK
  <2> QED
    BY <1>4, <1>6a, <2>1, <2>2
<1>7. /\ got[e] \in Nat /\ lbuf[e] \in Nat /\ seq[e] \in Nat /\ gack[p] \in Nat
      /\ Settled(e) = got[e] - lbuf[e] /\ gack[e] \in Nat /\ seq[p] \in Nat
      /\ Settled(e) \in Int
  BY <1>1, Types
<1>8. gack[p] <= Settled(e)
  BY <1>1 DEF Counts
<1>9. PICK w \in {-1} \cup 0 .. o :
        /\ got' = [got EXCEPT ![e] = got[e] + o]
        /\ lost' = [lost EXCEPT ![e] = lost[e] \cup Rest(m, IF w < 0 THEN 0 ELSE w)]
        /\ TakeSend(e, Pack("SENTOOB", w, o, seq[e], Settled(e) + o))
  BY <1>4, <1>6 DEF RecvSendOOB
<1>10. w \in Int /\ w <= o /\ got[e] + o \in Nat /\ Settled(e) + o \in Nat
  BY <1>7, <1>8
<1>11. got'[e] = got[e] + o /\ got'[p] = got[p] /\ got' \in [End -> Nat]
  <2>1. got \in [End -> Nat]
    BY <1>1 DEF TypeOK
  <2> QED
    BY <1>1, <1>9, <1>10, <2>1
<1>12. Settled(p)' = Settled(p) /\ Settled(e)' = Settled(e) + o
  <2>1. Settled(e)' = (got[e] + o) - lbuf[e]
    BY <1>2, <1>11 DEF Settled
  <2> QED
    BY <1>2, <1>7, <1>11, <2>1 DEF Settled
<1>13. Counts(e)'
  <2>1. got'[e] <= seq'[p] /\ gack'[p] <= Settled(e)'
    BY <1>2, <1>6, <1>7, <1>8, <1>11, <1>12
  <2> QED
    BY <1>1, <1>2, <2>1 DEF Counts
<1>14. Counts(p)'
  BY <1>1, <1>2, <1>11, <1>12 DEF Counts
<1>15. rev' \in [End -> SUBSET Event]
  BY <1>1, <1>2, DoneFacts
<1>16. got'[e] = got[e] + Carries(m) /\ gack'[e] = gack[e] + Answers(m)
  BY <1>2, <1>6, <1>7, <1>11
<1>17. stat'[e] \notin Absent \cup Closing /\ stat'[p] = stat[p] /\ gack'[p] = gack[p]
       /\ lbuf'[p] = lbuf[p]
  BY <1>2 DEF Open
<1> DEFINE pk == Pack("SENTOOB", w, o, seq[e], Settled(e) + o)
<1>18. TakeSend(e, pk)
  BY <1>9
<1>19. /\ pk \in Packet /\ pk.type = "SENTOOB" /\ pk.len = w /\ pk.of = o
       /\ pk.seq = seq[e] /\ pk.ack = Settled(e) + o
  BY <1>7, <1>10 DEF Pack, Packet, PackType
<1>20. PacketOK(pk)
  BY <1>10, <1>19 DEF PacketOK
<1>21. chan' \in [End -> Seq(Packet)]
  BY <1>1, <1>2, <1>18, <1>19, TakeSendFacts
<1>22. TypeOK'
  <2>1. PICK k \in Nat : k = (IF w < 0 THEN 0 ELSE w)
    BY <1>10
  <2>2. m.seq - m.len = got[e]
    BY <1>4, <1>6, <1>7
  <2>3. Rest(m, k) \subseteq Nat
    BY <1>4, <1>7, <2>2 DEF Rest
  <2>4. lost \in [End -> SUBSET Nat]
    BY <1>1 DEF TypeOK
  <2>5. lost' \in [End -> SUBSET Nat]
    BY <1>9, <2>1, <2>3, <2>4
  <2> QED
    BY <1>1, <1>2, <1>11, <1>15, <1>21, <2>5 DEF TypeOK
<1>23. pk.ack = Settled(e) + pk.of /\ Settled(e)' = pk.ack
  BY <1>12, <1>19
<1> QED
  BY <1>2, <1>4, <1>5, <1>11, <1>13, <1>14, <1>16, <1>17, <1>18, <1>19, <1>20, <1>22,
     <1>23, DataTakeSend

-----------------------------------------------------------------------------
(***************************************************************************)
(* The CLOSE handshake and the making of the connection.                   *)
(***************************************************************************)
LEMMA RelayEofInv == ASSUME IInv, NEW e \in End, NEW v \in {"PRI", "IN"}, RelayEof(e, v) PROVE IInv'
<1> DEFINE p == Peer(e)
           pk == Pack("CLOSE", 0, 0, seq[e], Settled(e))
<1>1. /\ TypeOK /\ p \in End /\ p # e /\ Peer(p) = e
      /\ Chain(e) /\ Packets(e) /\ Counts(e) /\ Handshake(e) /\ LastWords(e)
      /\ Chain(p) /\ Packets(p) /\ Counts(p) /\ Handshake(p) /\ LastWords(p)
  BY Parts, Peers
<1>2. /\ Done(e, v) /\ v \in rev[e] /\ Open(e)
      /\ ltClosed' = [ltClosed EXCEPT ![e] = TRUE]
      /\ stat' = [stat EXCEPT ![e] = "CLOSE"]
      /\ lbuf' = [lbuf EXCEPT ![e] = 0]
      /\ Send(e, pk)
      /\ UNCHANGED <<rpend, seq, oob, urgent, lost, got, gack, leak, extra,
                     expired>>
  BY DEF RelayEof, Turn, hist
<1>3. stat["near"] \notin {"NONE", "REFUSED"} /\ stat["far"] \notin {"NONE", "REFUSED"}
  BY <1>2, Started
<1>4. /\ seq[e] \in Nat /\ seq[p] \in Nat /\ got[e] \in Nat /\ lbuf[e] \in Nat
      /\ gack[p] \in Nat /\ Settled(e) \in Int /\ Settled(p) \in Int
      /\ Settled(e) = got[e] - lbuf[e] /\ Len(chan[p]) \in Nat
  BY <1>1, Types
<1>5. gack[p] <= Settled(e) /\ Settled(e) \in Nat
  BY <1>1, <1>4 DEF Counts
<1>6. /\ pk \in Packet /\ pk.type = "CLOSE" /\ pk.len = 0 /\ pk.of = 0
      /\ pk.seq = seq[e] /\ pk.ack = Settled(e)
  BY <1>4, <1>5 DEF Pack, Packet, PackType
<1>7. /\ chan' \in [End -> Seq(Packet)] /\ chan'[e] = chan[e]
      /\ Len(chan'[p]) = Len(chan[p]) + 1
      /\ \A i \in 1 .. Len(chan[p]) : chan'[p][i] = chan[p][i]
      /\ chan'[p][Len(chan'[p])] = pk
  BY <1>1, <1>2, <1>6, SendFacts
<1>8. /\ stat' \in [End -> Status] /\ stat'[e] = "CLOSE" /\ stat'[p] = stat[p]
      /\ ltClosed' \in [End -> BOOLEAN] /\ ltClosed'[e] /\ ltClosed'[p] = ltClosed[p]
      /\ lbuf' \in [End -> Nat] /\ lbuf'[e] = 0 /\ lbuf'[p] = lbuf[p]
  <2>1. stat \in [End -> Status] /\ "CLOSE" \in Status /\ ltClosed \in [End -> BOOLEAN]
        /\ lbuf \in [End -> Nat]
    BY <1>1 DEF TypeOK, Status, Closing
  <2> QED
    BY <1>1, <1>2, <2>1
<1>9. TypeOK'
  <2>1. rev' \in [End -> SUBSET Event]
    BY <1>1, <1>2, DoneFacts
  <2> QED
    BY <1>1, <1>2, <1>7, <1>8, <2>1 DEF TypeOK
<1>10. Opening'
  <2>1. stat'["near"] \notin {"NONE", "REFUSED"} /\ stat'["far"] \notin {"NONE", "REFUSED"}
    BY <1>1, <1>3, <1>8, Peers DEF End
  <2> QED
    BY <2>1, OpeningOver
<1>11. Polled(e)' /\ Polled(p)'
  <2>1. \A x \in End : stat'[x] \in Absent => stat[x] \in Absent
    BY <1>8, Peers DEF Absent
  <2> QED
    BY <1>1, <1>2, <2>1, PolledDone
<1>12. /\ Live(e) /\ Sender(e) /\ ~Live(e)' /\ ~Sender(e)'
       /\ (Live(p)' <=> Live(p)) /\ (Sender(p)' <=> Sender(p))
       /\ stat[e] \notin {"CLOSED", "FREE"}
  <2>1. Live(e) /\ Sender(e)
    BY <1>2, OpenLive
  <2> QED
    BY <2>1, <1>4, <1>8 DEF Live, Sender, Closing
<1>13. ~In(p, "CLOSE") /\ ~In(p, "CLOSED")
  BY <1>1, <1>12 DEF LastWords, In
<1>14. Settled(p)' = Settled(p) /\ Settled(e)' = got[e] /\ Settled(e)' >= Settled(e)
  BY <1>2, <1>4, <1>8 DEF Settled
<1>15. Chain(e)'
  BY <1>12 DEF Chain
<1>16. Chain(p)'
  <2>1. Carries(pk) = 0 /\ Answers(pk) = 0
    BY <1>6 DEF Carries, Answers
  <2>2. /\ seq'[Peer(p)] = seq[Peer(p)] + Carries(pk) /\ pk.seq = seq'[Peer(p)]
        /\ pk.ack = Settled(Peer(p)) + Answers(pk)
    BY <1>1, <1>2, <1>4, <1>6, <2>1
  <2>3. got'[p] = got[p] /\ gack'[p] = gack[p] /\ Sender(Peer(p)) /\ ~Sender(Peer(p))'
    BY <1>1, <1>2, <1>12
  <2> QED
    BY <1>1, <1>4, <1>6, <1>7, <1>12, <2>2, <2>3, ChainSend
<1>17. Packets(e)' /\ Packets(p)'
  <2>1. seq'[p] >= seq[p] /\ Settled(p)' >= Settled(p)
    BY <1>2, <1>4, <1>14
  <2>2. /\ seq'[e] >= seq[e] /\ pk.seq <= seq'[e] /\ pk.ack <= Settled(e)'
    BY <1>2, <1>4, <1>6, <1>14
  <2>3. PacketOK(pk)
    BY <1>6 DEF PacketOK
  <2>4. Packets(e)'
    BY <1>1, <1>7, <1>9, <2>1, PacketsSame
  <2>5. Packets(p)'
    BY <1>1, <1>6, <1>7, <1>9, <1>14, <2>2, <2>3, PacketsSend
  <2> QED
    BY <2>4, <2>5
<1>18. LastWords(e)' /\ LastWords(p)'
  <2>1. LastWords(e)'
    BY <1>1, <1>7, <1>8, <1>12, LastWordsSame
  <2>2. LastWords(p)'
    BY <1>1, <1>4, <1>6, <1>7, <1>12, <1>13, LastWordsSend
  <2> QED
    BY <2>1, <2>2
<1>19. Counts(e)'
  <2>1. gack'[p] <= Settled(e)'
    BY <1>2, <1>4, <1>5, <1>14
  <2> QED
    BY <1>1, <1>2, <1>8, <2>1 DEF Counts
<1>20. Counts(p)'
  BY <1>1, <1>2, <1>8, <1>14 DEF Counts
<1>21. /\ \A t : In(e, t)' <=> In(e, t)
       /\ In(p, "CLOSE")'
       /\ In(p, "CLOSED")' => In(p, "CLOSED")
       /\ In(p, "CONNECT")' => In(p, "CONNECT")
  <2>1. \A t : In(e, t)' <=> In(e, t)
    BY <1>7, InSame
  <2>2. \A t : In(p, t)' <=> (In(p, t) \/ pk.type = t)
    BY <1>1, <1>4, <1>7, InSend
  <2> QED
    BY <2>1, <2>2, <1>6
<1>22. stat[p] \notin {"CLOSED", "FREE", "NONE", "REFUSED"} /\ ~In(e, "CONNECT") /\ ~In(p, "CONNECT")
  <2>1. stat[p] \notin {"NONE", "REFUSED"} /\ stat[e] \notin {"NONE", "REFUSED"}
    BY <1>1, <1>3 DEF End
  <2>2. Live(p) \/ stat[p] \in {"CLOSE", "REFUSED"}
    BY <1>1, <1>12 DEF Handshake
  <2>3. stat[p] \notin {"CLOSED", "FREE"}
    BY <2>2 DEF Live, Closing
  <2> QED
    BY <1>1, <2>1, <2>3 DEF Handshake
<1>23. Handshake(e)'
  BY <1>1, <1>8, <1>12, <1>21, <1>22 DEF Handshake
<1>24. Handshake(p)'
  BY <1>1, <1>8, <1>12, <1>13, <1>21, <1>22 DEF Handshake
<1> QED
  BY <1>9, <1>10, <1>11, <1>15, <1>16, <1>17, <1>18, <1>19, <1>20, <1>23, <1>24, Whole

\* A packet dropped by a closing agent, or for nobody.
LEMMA RecvIgnoredInv == ASSUME IInv, NEW e \in End, RecvIgnored(e) PROVE IInv'
<1> DEFINE p == Peer(e)
<1>1. /\ TypeOK /\ Opening /\ p \in End /\ p # e /\ Peer(p) = e
      /\ Chain(e) /\ Packets(e) /\ Counts(e) /\ Handshake(e) /\ LastWords(e)
      /\ Chain(p) /\ Packets(p) /\ Counts(p) /\ Handshake(p) /\ LastWords(p)
  BY Parts, Peers
<1>2. /\ Done(e, "COMM") /\ chan[e] # <<>> /\ Take(e)
      /\ \/ stat[e] \in Closing
         \/ stat[e] \in Absent /\ Head(chan[e]).type # "CONNECT"
      /\ UNCHANGED <<stat, rpend, lbuf, ltClosed, seq, oob, urgent, lost, got,
                     gack, leak, extra, expired>>
  BY DEF RecvIgnored, Present, hist
<1>3. /\ Len(chan[e]) \in Nat /\ Len(chan[e]) >= 1 /\ Head(chan[e]) = chan[e][1]
  BY <1>2, HeadFacts
<1>4. /\ chan'[p] = chan[p] /\ Len(chan'[e]) = Len(chan[e]) - 1
      /\ \A i \in 1 .. Len(chan'[e]) : chan'[e][i] = chan[e][i + 1]
      /\ chan' \in [End -> Seq(Packet)]
  BY <1>1, <1>2, TakeFacts
<1>5. stat[e] # "NONE"
  BY <1>1, <1>2, <1>3 DEF Opening, End, Closing
<1>6. ~Live(e)
  BY <1>2, <1>5 DEF Live, Absent
<1>7. TypeOK'
  <2>1. rev' \in [End -> SUBSET Event]
    BY <1>1, <1>2, DoneFacts
  <2> QED
    BY <1>1, <1>2, <1>4, <2>1 DEF TypeOK
<1>8. Polled(e)' /\ Polled(p)'
  BY <1>1, <1>2, PolledDone
<1>9. \A x \in End : /\ (Live(x)' <=> Live(x)) /\ (Sender(x)' <=> Sender(x))
                     /\ Settled(x)' = Settled(x)
  BY <1>2 DEF Live, Sender, Settled
<1>10. Opening'
  <2>1. rev'["near"] \subseteq rev["near"]
    BY <1>1, <1>2, DoneFacts DEF End
  <2>2. CASE e = "near"
    <3>1. stat["near"] # "CONNECT"
      BY <1>6, <2>2 DEF Live, Closing
    <3> QED
      BY <1>1, <1>2, <3>1 DEF Opening
  <2>3. CASE e = "far"
    <3>1. stat["far"] # "NONE" /\ chan'["near"] = chan["near"]
      BY <1>4, <1>5, <2>3 DEF Peer
    <3> QED
      BY <1>1, <1>2, <2>1, <3>1 DEF Opening
  <2> QED
    BY <2>2, <2>3 DEF End
<1>11. Chain(e)' /\ Chain(p)'
  <2>1. Chain(e)'
    BY <1>6, <1>9 DEF Chain
  <2>2. Chain(p)'
    BY <1>1, <1>2, <1>4, <1>9, ChainSame
  <2> QED
    BY <2>1, <2>2
<1>12. Packets(e)' /\ Packets(p)'
  <2>1. \A x \in End : seq'[x] >= seq[x] /\ Settled(x)' >= Settled(x)
    <3>1. \A x \in End : seq[x] \in Nat /\ Settled(x) \in Int
      BY <1>1, Types
    <3> QED
      BY <1>2, <1>9, <3>1
  <2>2. Packets(e)'
    BY <1>1, <1>3, <1>4, <1>7, <2>1, PacketsTake
  <2>3. Packets(p)'
    BY <1>1, <1>4, <1>7, <2>1, PacketsSame
  <2> QED
    BY <2>2, <2>3
<1>13. LastWords(e)' /\ LastWords(p)'
  <2>1. LastWords(e)'
    BY <1>1, <1>2, <1>3, <1>4, <1>9, LastWordsTake
  <2>2. LastWords(p)'
    BY <1>1, <1>2, <1>4, <1>9, LastWordsSame
  <2> QED
    BY <2>1, <2>2
<1>14. Counts(e)' /\ Counts(p)'
  BY <1>1, <1>2, <1>9 DEF Counts
<1>15. /\ \A t : In(p, t)' <=> In(p, t)
       /\ OnlySent(p, 0)' <=> OnlySent(p, 0)
       /\ \A t : In(e, t)' => In(e, t)
       /\ OnlySent(e, 0) => OnlySent(e, 0)'
  BY <1>1, <1>3, <1>4, InSame, InTake
<1>16. Handshake(e)'
  BY <1>1, <1>2, <1>6, <1>9, <1>15 DEF Handshake
<1>17. Handshake(p)'
  BY <1>1, <1>2, <1>9, <1>15 DEF Handshake
<1> QED
  BY <1>7, <1>8, <1>10, <1>11, <1>12, <1>13, <1>14, <1>16, <1>17, Whole

\* CONNECT is the only packet there is when it arrives.
LEMMA ConnectFacts ==
    ASSUME IInv, NEW e \in End, Recv(e, "CONNECT")
    PROVE  /\ e = "far" /\ Peer(e) = "near" /\ stat["far"] = "NONE"
           /\ stat["near"] = "CONNECT" /\ lbuf["near"] = 0 /\ lbuf["far"] = 0
           /\ rev["near"] \subseteq {"COMM"}
           /\ Len(chan["near"]) = 0 /\ Len(chan["far"]) = 1 /\ chan["far"] # <<>>
<1>1. chan[e] # <<>> /\ Head(chan[e]).type = "CONNECT"
  BY DEF Recv
<1>2. Len(chan[e]) \in Nat /\ Len(chan[e]) >= 1 /\ chan[e][1].type = "CONNECT"
  BY <1>1, HeadFacts
<1>3. In(e, "CONNECT")
  BY <1>2 DEF In
<1>4. stat[e] = "NONE" /\ Opening
  BY <1>3, Parts DEF Handshake
<1>5. e = "far" /\ Peer(e) = "near"
  BY <1>4 DEF Opening, End, Peer
<1> QED
  BY <1>1, <1>4, <1>5 DEF Opening

\* CONNECT makes the far agent.
LEMMA RecvConnectInv == ASSUME IInv, NEW e \in End, RecvConnect(e) PROVE IInv'
<1> DEFINE p == Peer(e)
           pk == Pack("CONNECTED", 0, 0, seq[e], Settled(e))
<1>1. /\ TypeOK /\ p \in End /\ p # e /\ Peer(p) = e
      /\ Chain(e) /\ Packets(e) /\ Counts(e) /\ Handshake(e) /\ LastWords(e)
      /\ Chain(p) /\ Packets(p) /\ Counts(p) /\ Handshake(p) /\ LastWords(p)
  BY Parts, Peers
<1>2. /\ Done(e, "COMM") /\ Recv(e, "CONNECT")
      /\ stat' = [stat EXCEPT ![e] = "CONNECTED"] /\ TakeSend(e, pk)
      /\ UNCHANGED <<rpend, lbuf, ltClosed, seq, oob, urgent, lost, got, gack,
                     leak, extra, expired>>
  BY DEF RecvConnect, hist
<1>3. /\ stat[e] = "NONE" /\ stat[p] = "CONNECT" /\ e = "far" /\ p = "near"
      /\ Len(chan[p]) = 0 /\ Len(chan[e]) = 1 /\ chan[e] # <<>>
      /\ chan[e][1].type = "CONNECT"
  <2>1. chan[e] # <<>> /\ Head(chan[e]).type = "CONNECT"
    BY <1>2 DEF Recv
  <2> QED
    BY <1>2, <2>1, ConnectFacts, HeadFacts
<1>4. /\ seq[e] \in Nat /\ seq[p] \in Nat /\ gack[p] \in Nat /\ got[e] \in Nat
      /\ gack[e] \in Nat /\ Settled(e) \in Int /\ Settled(p) \in Int
  BY <1>1, Types
<1>5. Settled(e) \in Nat
  BY <1>1, <1>4 DEF Counts
<1>6. /\ pk \in Packet /\ pk.type = "CONNECTED" /\ pk.len = 0 /\ pk.of = 0
      /\ pk.seq = seq[e] /\ pk.ack = Settled(e)
  BY <1>4, <1>5 DEF Pack, Packet, PackType
<1>7. /\ chan' \in [End -> Seq(Packet)] /\ Len(chan'[e]) = 0
      /\ Len(chan'[p]) = Len(chan[p]) + 1
      /\ \A i \in 1 .. Len(chan[p]) : chan'[p][i] = chan[p][i]
      /\ chan'[p][Len(chan'[p])] = pk /\ Len(chan'[p]) = 1
  BY <1>1, <1>2, <1>3, <1>6, TakeSendFacts
<1>8. stat' \in [End -> Status] /\ stat'[e] = "CONNECTED" /\ stat'[p] = "CONNECT"
  <2>1. stat \in [End -> Status] /\ "CONNECTED" \in Status
    BY <1>1 DEF TypeOK, Status
  <2> QED
    BY <1>1, <1>2, <1>3, <2>1
<1>9. TypeOK'
  <2>1. rev' \in [End -> SUBSET Event]
    BY <1>1, <1>2, DoneFacts
  <2> QED
    BY <1>1, <1>2, <1>7, <1>8, <2>1 DEF TypeOK
<1>10. Opening'
  BY <1>3, <1>8, OpeningOver
<1>11. Polled(e)' /\ Polled(p)'
  BY <1>8 DEF Polled, Absent
<1>12. /\ Live(e) /\ Live(e)' /\ Live(p) /\ Live(p)'
       /\ Sender(e) /\ Sender(p)
  BY <1>3, <1>8 DEF Live, Sender, Closing
<1>13. Settled(p)' = Settled(p) /\ Settled(e)' = Settled(e)
  BY <1>2 DEF Settled
<1>14. Chain(e)'
  <2>1. /\ SeqAt(e, 1) = SeqAt(e, 0) + Carries(chan[e][1])
        /\ AckAt(e, 1) = AckAt(e, 0) + Answers(chan[e][1])
        /\ SeqAt(e, 1) = seq[p] /\ AckAt(e, 1) = Settled(p)
    BY <1>1, <1>3, <1>12 DEF Chain
  <2>2. Carries(chan[e][1]) = 0 /\ Answers(chan[e][1]) = 0
    BY <1>3 DEF Carries, Answers
  <2>3. got[e] = seq[p] /\ gack[e] = Settled(p)
    BY <1>4, <2>1, <2>2 DEF SeqAt, AckAt
  <2>4. got'[e] = seq'[p] /\ gack'[e] = Settled(p)'
    BY <1>2, <1>13, <2>3
  <2>5. SeqAt(e, 0)' = got'[e] /\ AckAt(e, 0)' = gack'[e]
    BY DEF SeqAt, AckAt
  <2>6. \A i \in 1 .. Len(chan'[e]) : FALSE
    BY <1>7
  <2> QED
    BY <1>7, <2>4, <2>5, <2>6 DEF Chain
<1>15. Chain(p)'
  <2>1. Carries(pk) = 0 /\ Answers(pk) = 0
    BY <1>6 DEF Carries, Answers
  <2>2. /\ seq'[Peer(p)] = seq[Peer(p)] + Carries(pk) /\ pk.seq = seq'[Peer(p)]
        /\ pk.ack = Settled(Peer(p)) + Answers(pk) /\ Settled(Peer(p))' = pk.ack
    BY <1>1, <1>2, <1>4, <1>6, <1>13, <2>1
  <2>3. got'[p] = got[p] /\ gack'[p] = gack[p] /\ Sender(Peer(p)) /\ Len(chan[p]) \in Nat
    BY <1>1, <1>2, <1>3, <1>12
  <2> QED
    BY <1>1, <1>6, <1>7, <1>12, <2>2, <2>3, ChainSend
<1>16. Packets(e)' /\ Packets(p)'
  <2>1. Packets(e)'
    BY <1>7 DEF Packets
  <2>2. PacketOK(pk)
    BY <1>6 DEF PacketOK
  <2>3. /\ seq'[Peer(p)] >= seq[Peer(p)] /\ Settled(Peer(p))' >= Settled(Peer(p))
        /\ pk.seq <= seq'[Peer(p)] /\ pk.ack <= Settled(Peer(p))'
    BY <1>1, <1>2, <1>4, <1>6, <1>13
  <2>4. Packets(p)'
    BY <1>1, <1>6, <1>7, <1>9, <2>2, <2>3, PacketsSend
  <2> QED
    BY <2>1, <2>4
<1>17. LastWords(e)' /\ LastWords(p)'
  BY <1>6, <1>7 DEF LastWords
<1>18. Counts(e)' /\ Counts(p)'
  BY <1>1, <1>2, <1>8, <1>13 DEF Counts
<1>19. /\ \A t : ~In(e, t)'
       /\ \A t : In(p, t)' => t = "CONNECTED"
  BY <1>6, <1>7 DEF In
<1>20. Handshake(e)'
  BY <1>1, <1>8, <1>12, <1>19 DEF Handshake
<1>21. Handshake(p)'
  BY <1>1, <1>8, <1>12, <1>19 DEF Handshake
<1> QED
  BY <1>9, <1>10, <1>11, <1>14, <1>15, <1>16, <1>17, <1>18, <1>20, <1>21, Whole

\* CONNECT finds no server: CLOSE is the answer.
LEMMA RecvConnectFailInv == ASSUME IInv, NEW e \in End, RecvConnectFail(e) PROVE IInv'
<1> DEFINE p == Peer(e)
           pk == Pack("CLOSE", 0, 0, seq[e], Settled(e))
<1>1. /\ TypeOK /\ p \in End /\ p # e /\ Peer(p) = e
      /\ Chain(e) /\ Packets(e) /\ Counts(e) /\ Handshake(e) /\ LastWords(e) /\ Polled(e)
      /\ Chain(p) /\ Packets(p) /\ Counts(p) /\ Handshake(p) /\ LastWords(p) /\ Polled(p)
  BY Parts, Peers
<1>2. /\ Done(e, "COMM") /\ Recv(e, "CONNECT")
      /\ stat' = [stat EXCEPT ![e] = "REFUSED"] /\ TakeSend(e, pk)
      /\ UNCHANGED <<rpend, lbuf, ltClosed, seq, oob, urgent, lost, got, gack,
                     leak, extra, expired>>
  BY DEF RecvConnectFail, hist
<1>3. /\ stat[e] = "NONE" /\ stat[p] = "CONNECT" /\ e = "far" /\ p = "near"
      /\ Len(chan[p]) = 0 /\ Len(chan[e]) = 1 /\ chan[e] # <<>>
      /\ lbuf[e] = 0 /\ lbuf[p] = 0 /\ rev["near"] \subseteq {"COMM"}
  BY <1>2, ConnectFacts
<1>4. /\ seq[e] \in Nat /\ seq[p] \in Nat /\ gack[p] \in Nat
      /\ Settled(e) \in Int /\ Settled(p) \in Int
  BY <1>1, Types
<1>5. Settled(e) \in Nat
  BY <1>1, <1>4 DEF Counts
<1>6. /\ pk \in Packet /\ pk.type = "CLOSE" /\ pk.len = 0 /\ pk.of = 0
      /\ pk.seq = seq[e] /\ pk.ack = Settled(e)
  BY <1>4, <1>5 DEF Pack, Packet, PackType
<1>7. /\ chan' \in [End -> Seq(Packet)] /\ Len(chan'[e]) = 0
      /\ Len(chan'[p]) = Len(chan[p]) + 1
      /\ \A i \in 1 .. Len(chan[p]) : chan'[p][i] = chan[p][i]
      /\ chan'[p][Len(chan'[p])] = pk /\ Len(chan'[p]) = 1
  BY <1>1, <1>2, <1>3, <1>6, TakeSendFacts
<1>8. stat' \in [End -> Status] /\ stat'[e] = "REFUSED" /\ stat'[p] = "CONNECT"
  <2>1. stat \in [End -> Status] /\ "REFUSED" \in Status
    BY <1>1 DEF TypeOK, Status, Absent
  <2> QED
    BY <1>1, <1>2, <1>3, <2>1
<1>9. rev' \in [End -> SUBSET Event] /\ \A x \in End : rev'[x] \subseteq rev[x]
  BY <1>1, <1>2, DoneFacts
<1>10. TypeOK'
  BY <1>1, <1>2, <1>7, <1>8, <1>9 DEF TypeOK
<1>11. Opening'
  <2>1. rev'["near"] \subseteq {"COMM"}
    BY <1>3, <1>9 DEF End
  <2>2. Len(chan'["near"]) = 1 /\ chan'["near"][1].type = "CLOSE"
    BY <1>3, <1>6, <1>7
  <2>3. lbuf'["near"] = 0 /\ lbuf'["far"] = 0 /\ stat'["near"] = "CONNECT" /\ stat'["far"] = "REFUSED"
    BY <1>2, <1>3, <1>8
  <2> QED
    BY <2>1, <2>2, <2>3 DEF Opening
<1>12. Polled(e)' /\ Polled(p)'
  BY <1>1, <1>3, <1>8, <1>9 DEF Polled, Absent
<1>13. /\ ~Live(e)' /\ Live(p) /\ Live(p)' /\ Sender(e) /\ ~Sender(e)'
  <2>1. lbuf'[e] = 0
    BY <1>2, <1>3
  <2> QED
    BY <1>3, <1>8, <2>1 DEF Live, Sender, Closing
<1>14. Settled(p)' = Settled(p) /\ Settled(e)' = Settled(e)
  BY <1>2 DEF Settled
<1>15. Chain(e)'
  BY <1>13 DEF Chain
<1>16. Chain(p)'
  <2>1. Carries(pk) = 0 /\ Answers(pk) = 0
    BY <1>6 DEF Carries, Answers
  <2>2. /\ seq'[Peer(p)] = seq[Peer(p)] + Carries(pk) /\ pk.seq = seq'[Peer(p)]
        /\ pk.ack = Settled(Peer(p)) + Answers(pk) /\ Settled(Peer(p))' = pk.ack
    BY <1>1, <1>2, <1>4, <1>6, <1>14, <2>1
  <2>3. got'[p] = got[p] /\ gack'[p] = gack[p] /\ Sender(Peer(p)) /\ Len(chan[p]) \in Nat
    BY <1>1, <1>2, <1>3, <1>13
  <2> QED
    BY <1>1, <1>6, <1>7, <1>13, <2>2, <2>3, ChainSend
<1>17. Packets(e)' /\ Packets(p)'
  <2>1. Packets(e)'
    BY <1>7 DEF Packets
  <2>2. PacketOK(pk)
    BY <1>6 DEF PacketOK
  <2>3. /\ seq'[Peer(p)] >= seq[Peer(p)] /\ Settled(Peer(p))' >= Settled(Peer(p))
        /\ pk.seq <= seq'[Peer(p)] /\ pk.ack <= Settled(Peer(p))'
    BY <1>1, <1>2, <1>4, <1>6, <1>14
  <2>4. Packets(p)'
    BY <1>1, <1>6, <1>7, <1>10, <2>2, <2>3, PacketsSend
  <2> QED
    BY <2>1, <2>4
<1>18. LastWords(e)' /\ LastWords(p)'
  <2>1. LastWords(e)'
    BY <1>7 DEF LastWords
  <2>2. \A i \in 1 .. Len(chan'[p]) : i = Len(chan'[p]) /\ chan'[p][i].type = "CLOSE"
    BY <1>6, <1>7
  <2>3. Peer(p) = e
    BY <1>1
  <2>4. ~Sender(Peer(p))'
    BY <1>13, <2>3
  <2>5. LastWords(p)'
    BY <2>2, <2>4 DEF LastWords
  <2> QED
    BY <2>1, <2>5
<1>19. Counts(e)' /\ Counts(p)'
  BY <1>1, <1>2, <1>8, <1>14 DEF Counts
<1>20. /\ \A t : ~In(e, t)'
       /\ \A t : In(p, t)' <=> t = "CLOSE"
  BY <1>6, <1>7 DEF In
<1>21. Handshake(e)'
  BY <1>1, <1>8, <1>13, <1>20 DEF Handshake
<1>22. Handshake(p)'
  BY <1>1, <1>8, <1>13, <1>20 DEF Handshake
<1> QED
  BY <1>10, <1>11, <1>12, <1>15, <1>16, <1>17, <1>18, <1>19, <1>21, <1>22, Whole

\* An agent in CLOSE becomes CLOSED, by its peer's CLOSED or by a CLOSE that
\* crossed its own: nothing but SENT can follow.
LEMMA CloseToClosed ==
    ASSUME IInv, NEW e \in End, stat[e] = "CLOSE", Done(e, "COMM"),
           chan[e] # <<>>, Take(e), stat' = [stat EXCEPT ![e] = "CLOSED"],
           UNCHANGED <<rpend, lbuf, ltClosed, seq, oob, urgent, lost, got, gack,
                       leak, extra, expired>>,
           ~Live(Peer(e)), OnlySent(e, 0)', ~In(e, "CLOSE")'
    PROVE  IInv'
<1> DEFINE p == Peer(e)
<1>1. /\ TypeOK /\ Opening /\ p \in End /\ p # e /\ Peer(p) = e
      /\ Chain(e) /\ Packets(e) /\ Counts(e) /\ Handshake(e) /\ LastWords(e)
      /\ Chain(p) /\ Packets(p) /\ Counts(p) /\ Handshake(p) /\ LastWords(p)
  BY Parts, Peers
<1>2. /\ Len(chan[e]) \in Nat /\ Len(chan[e]) >= 1
  BY HeadFacts
<1>3. /\ chan'[p] = chan[p] /\ Len(chan'[e]) = Len(chan[e]) - 1
      /\ \A i \in 1 .. Len(chan'[e]) : chan'[e][i] = chan[e][i + 1]
      /\ chan' \in [End -> Seq(Packet)]
  BY <1>1, TakeFacts
<1>4. stat' \in [End -> Status] /\ stat'[e] = "CLOSED" /\ stat'[p] = stat[p]
  <2>1. stat \in [End -> Status] /\ "CLOSED" \in Status
    BY <1>1 DEF TypeOK, Status, Closing
  <2> QED
    BY <1>1, <2>1
<1>5. TypeOK'
  <2>1. rev' \in [End -> SUBSET Event]
    BY <1>1, DoneFacts
  <2> QED
    BY <1>1, <1>3, <1>4, <2>1 DEF TypeOK
<1>6. Polled(e)' /\ Polled(p)'
  <2>1. \A x \in End : stat'[x] \in Absent => stat[x] \in Absent
    BY <1>4, Peers DEF Absent
  <2> QED
    BY <1>1, <2>1, PolledDone
<1>7. Opening'
  <2>1. stat["near"] \notin {"NONE", "REFUSED"} /\ stat["far"] \notin {"NONE", "REFUSED"}
    BY <1>1 DEF Opening, End
  <2>2. stat'["near"] \notin {"NONE", "REFUSED"} /\ stat'["far"] \notin {"NONE", "REFUSED"}
    BY <1>1, <1>4, <2>1, Peers DEF End
  <2> QED
    BY <2>2, OpeningOver
<1>8. lbuf[e] = 0 /\ ltClosed[e] /\ stat[p] # "REFUSED"
  BY <1>1 DEF Handshake
<1>9. /\ ~Live(e) /\ ~Live(e)' /\ ~Live(p)' /\ ~Sender(e)'
      /\ (Sender(p)' <=> Sender(p))
  BY <1>4, <1>8 DEF Live, Sender, Closing
<1>10. \A x \in End : Settled(x)' = Settled(x)
  BY DEF Settled
<1>11. Chain(e)' /\ Chain(p)'
  BY <1>9 DEF Chain
<1>12. Packets(e)' /\ Packets(p)'
  <2>1. \A x \in End : seq'[x] >= seq[x] /\ Settled(x)' >= Settled(x)
    <3>1. \A x \in End : seq[x] \in Nat /\ Settled(x) \in Int
      BY <1>1, Types
    <3> QED
      BY <1>10, <3>1
  <2>2. Packets(e)'
    BY <1>1, <1>2, <1>3, <1>5, <2>1, PacketsTake
  <2>3. Packets(p)'
    BY <1>1, <1>3, <1>5, <2>1, PacketsSame
  <2> QED
    BY <2>2, <2>3
<1>13. LastWords(e)' /\ LastWords(p)'
  <2>1. LastWords(e)'
    BY <1>1, <1>2, <1>3, <1>4, <1>9, LastWordsTake
  <2>2. LastWords(p)'
    BY <1>1, <1>3, <1>4, <1>9, LastWordsSame
  <2> QED
    BY <2>1, <2>2
<1>14. Counts(e)' /\ Counts(p)'
  BY <1>1, <1>4, <1>10 DEF Counts
<1>15. /\ \A t : In(p, t)' <=> In(p, t)
       /\ OnlySent(p, 0)' <=> OnlySent(p, 0)
       /\ \A t : In(e, t)' => In(e, t)
  BY <1>1, <1>2, <1>3, InSame, InTake
<1>16. Handshake(e)'
  <2>1. ~In(e, "CONNECT")'
    BY <1>1, <1>15 DEF Handshake
  <2> QED
    BY <1>4, <1>8, <1>9, <2>1 DEF Handshake
<1>17. Handshake(p)'
  BY <1>1, <1>4, <1>9, <1>15 DEF Handshake
<1> QED
  BY <1>5, <1>6, <1>7, <1>11, <1>12, <1>13, <1>14, <1>16, <1>17, Whole

\* CLOSED ends the handshake at the end that started it.
LEMMA RecvClosedInv == ASSUME IInv, NEW e \in End, RecvClosed(e) PROVE IInv'
<1>1. Handshake(e) /\ LastWords(e) /\ Peer(e) \in End
  BY Parts, Peers
<1>2. /\ Done(e, "COMM") /\ chan[e] # <<>> /\ Head(chan[e]).type = "CLOSED" /\ Present(e)
      /\ stat' = [stat EXCEPT ![e] = "CLOSED"] /\ Take(e)
      /\ UNCHANGED <<rpend, lbuf, ltClosed, seq, oob, urgent, lost, got, gack,
                     leak, extra, expired>>
  BY DEF RecvClosed, Recv, hist
<1>3. Len(chan[e]) \in Nat /\ Len(chan[e]) >= 1 /\ chan[e][1].type = "CLOSED"
  BY <1>2, HeadFacts
<1>4. 1 \in 1 .. Len(chan[e]) /\ 1 \in 0 + 1 .. Len(chan[e])
  BY <1>3
<1>5. In(e, "CLOSED") /\ stat[Peer(e)] \in {"CLOSED", "FREE"} /\ OnlySent(e, 1) /\ ~OnlySent(e, 0)
  BY <1>1, <1>3, <1>4 DEF In, LastWords, OnlySent
<1>6. stat[e] = "CLOSE"
  BY <1>1, <1>2, <1>5 DEF Handshake, Live, Present, Absent, Closing
<1>7. ~Live(Peer(e))
  BY <1>5 DEF Live, Closing
<1>8. OnlySent(e, 0)'
  <2>1. TypeOK
    BY Parts
  <2>2. /\ Len(chan'[e]) = Len(chan[e]) - 1
        /\ \A i \in 1 .. Len(chan'[e]) : chan'[e][i] = chan[e][i + 1]
    BY <1>2, <2>1, TakeFacts
  <2> QED
    BY <1>3, <1>5, <2>2, InTake
<1>9. ~In(e, "CLOSE")'
  BY <1>8 DEF OnlySent, In
<1> QED
  BY <1>2, <1>6, <1>7, <1>8, <1>9, CloseToClosed

\* CLOSE: answered, or crossed by the receiver's own CLOSE.
LEMMA RecvCloseInv == ASSUME IInv, NEW e \in End, RecvClose(e) PROVE IInv'
<1> DEFINE p == Peer(e)
           pk == Pack("CLOSED", 0, 0, seq[e], Settled(e))
<1>1. /\ TypeOK /\ Opening /\ p \in End /\ p # e /\ Peer(p) = e
      /\ Chain(e) /\ Packets(e) /\ Counts(e) /\ Handshake(e) /\ LastWords(e) /\ Polled(e)
      /\ Chain(p) /\ Packets(p) /\ Counts(p) /\ Handshake(p) /\ LastWords(p) /\ Polled(p)
  BY Parts, Peers
<1>2. /\ Done(e, "COMM") /\ chan[e] # <<>> /\ Head(chan[e]).type = "CLOSE"
      /\ stat' = [stat EXCEPT ![e] = IF Present(e) THEN "CLOSED" ELSE stat[e]]
      /\ IF stat[e] = "CLOSE" THEN Take(e) ELSE TakeSend(e, pk)
      /\ UNCHANGED <<rpend, lbuf, ltClosed, seq, oob, urgent, lost, got, gack,
                     leak, extra, expired>>
  BY DEF RecvClose, Recv, hist
<1>3. Len(chan[e]) \in Nat /\ Len(chan[e]) >= 1 /\ chan[e][1].type = "CLOSE"
  BY <1>2, HeadFacts
<1>4. 1 \in 1 .. Len(chan[e]) /\ 1 \in 0 + 1 .. Len(chan[e])
  BY <1>3
<1>5. In(e, "CLOSE") /\ Len(chan[e]) = 1 /\ ~Sender(p) /\ ~Live(p) /\ ~OnlySent(e, 0)
  BY <1>1, <1>3, <1>4 DEF In, LastWords, OnlySent, Sender
\* An agent that is gone, or CLOSED, or not yet made gets no CLOSE.
<1>6. stat[e] = "CLOSE" \/ (Live(e) /\ stat[e] # "NONE")
  <2>1. stat[e] \notin {"CLOSED", "FREE", "REFUSED"}
    BY <1>1, <1>5 DEF Handshake
  <2>2. stat[e] # "NONE"
    <3>1. ASSUME stat[e] = "NONE" PROVE FALSE
      <4>1. e = "far" /\ p = "near" /\ stat["near"] = "CONNECT"
        BY <1>1, <3>1 DEF Opening, End, Peer
      <4> QED
        BY <1>5, <4>1 DEF Live, Closing
    <3> QED
      BY <3>1
  <2> QED
    BY <2>1, <2>2 DEF Live, Closing
<1>7. Present(e)
  BY <1>6 DEF Live, Present, Absent, Closing
<1>8. stat' = [stat EXCEPT ![e] = "CLOSED"]
  BY <1>2, <1>7
<1>9. Len(chan'[e]) = 0 /\ chan' \in [End -> Seq(Packet)] /\ pk \in Packet
      /\ pk.type = "CLOSED" /\ pk.len = 0 /\ pk.of = 0
      /\ pk.seq = seq[e] /\ pk.ack = Settled(e)
      /\ Settled(e) \in Nat /\ seq[e] \in Nat
  <2>1. seq[e] \in Nat /\ Settled(e) \in Int /\ gack[p] \in Nat
    BY <1>1, Types
  <2>2. Settled(e) \in Nat
    BY <1>1, <2>1 DEF Counts
  <2>3. /\ pk \in Packet /\ pk.type = "CLOSED" /\ pk.len = 0 /\ pk.of = 0
        /\ pk.seq = seq[e] /\ pk.ack = Settled(e)
    BY <2>1, <2>2 DEF Pack, Packet, PackType
  <2>4. Len(chan'[e]) = 0 /\ chan' \in [End -> Seq(Packet)]
    BY <1>1, <1>2, <1>5, <2>3, TakeFacts, TakeSendFacts
  <2> QED
    BY <2>1, <2>2, <2>3, <2>4
<1>10. OnlySent(e, 0)' /\ \A t : ~In(e, t)'
  BY <1>9 DEF OnlySent, In
<1>11. CASE stat[e] = "CLOSE"
  BY <1>2, <1>5, <1>8, <1>10, <1>11, CloseToClosed
<1>12. CASE Live(e) /\ stat[e] # "NONE"
  <2>1. stat[e] \notin {"CLOSE", "CLOSED", "FREE", "REFUSED"} /\ TakeSend(e, pk)
    BY <1>2, <1>12 DEF Live, Closing
  <2>2. /\ Len(chan[p]) \in Nat /\ Len(chan'[p]) = Len(chan[p]) + 1
        /\ \A i \in 1 .. Len(chan[p]) : chan'[p][i] = chan[p][i]
        /\ chan'[p][Len(chan'[p])] = pk
    BY <1>1, <1>2, <1>9, <2>1, TakeSendFacts, Types
  <2>3. stat' \in [End -> Status] /\ stat'[e] = "CLOSED" /\ stat'[p] = stat[p]
    <3>1. stat \in [End -> Status] /\ "CLOSED" \in Status
      BY <1>1 DEF TypeOK, Status, Closing
    <3> QED
      BY <1>1, <1>8, <3>1
  <2>4. TypeOK'
    <3>1. rev' \in [End -> SUBSET Event]
      BY <1>1, <1>2, DoneFacts
    <3> QED
      BY <1>1, <1>2, <1>9, <2>3, <3>1 DEF TypeOK
  <2>5. Polled(e)' /\ Polled(p)'
    <3>1. \A x \in End : stat'[x] \in Absent => stat[x] \in Absent
      BY <2>3, Peers DEF Absent
    <3> QED
      BY <1>1, <1>2, <3>1, PolledDone
  <2>6. stat[p] \in {"CLOSE", "REFUSED"}
    BY <1>1, <1>5, <1>12 DEF Handshake
  <2>7. Opening'
    <3>1. CASE e = "near"
      <4>1. stat'["near"] = "CLOSED" /\ stat'["far"] = stat["far"] /\ stat["far"] \in {"CLOSE", "REFUSED"}
        BY <2>3, <2>6, <3>1 DEF Peer
      <4> QED
        BY <1>1, <1>2, <4>1 DEF Opening
    <3>2. CASE e = "far"
      <4>1. stat'["far"] = "CLOSED" /\ stat'["near"] = stat["near"]
        BY <2>3, <3>2 DEF Peer
      <4> QED
        BY <1>1, <4>1 DEF Opening
    <3> QED
      BY <3>1, <3>2 DEF End
  <2>8. /\ Sender(e) /\ ~Live(e)' /\ ~Live(p)' /\ (Sender(p)' <=> Sender(p))
    <3>1. lbuf' = lbuf
      BY <1>2
    <3> QED
      BY <1>5, <1>12, <2>3, <3>1 DEF Live, Sender, Closing
  <2>9. \A x \in End : Settled(x)' = Settled(x)
    BY <1>2 DEF Settled
  <2>10. got[e] = seq[p]
    <3>1. SeqAt(e, 1) = SeqAt(e, 0) + Carries(chan[e][1]) /\ SeqAt(e, 1) = seq[p]
      BY <1>1, <1>5, <1>12 DEF Chain
    <3>2. SeqAt(e, 0) = got[e] /\ Carries(chan[e][1]) = 0 /\ got[e] \in Nat
      BY <1>1, <1>3, Types DEF SeqAt, Carries
    <3> QED
      BY <3>1, <3>2
  <2>11. Chain(e)' /\ Chain(p)'
    BY <2>8 DEF Chain
  <2>12. Packets(e)' /\ Packets(p)'
    <3>1. Packets(e)'
      BY <1>9 DEF Packets
    <3>2. PacketOK(pk)
      BY <1>9 DEF PacketOK
    <3>3. /\ seq'[Peer(p)] >= seq[Peer(p)] /\ Settled(Peer(p))' >= Settled(Peer(p))
          /\ pk.seq <= seq'[Peer(p)] /\ pk.ack <= Settled(Peer(p))'
      BY <1>1, <1>2, <1>9, <2>9
    <3>4. Packets(p)'
      BY <1>1, <1>9, <2>2, <2>4, <3>2, <3>3, PacketsSend
    <3> QED
      BY <3>1, <3>4
  <2>13. ~In(p, "CLOSE") /\ ~In(p, "CLOSED")
    BY <1>1, <2>1, <2>8 DEF LastWords, In
  <2>14. LastWords(e)' /\ LastWords(p)'
    <3>1. LastWords(e)'
      BY <1>9 DEF LastWords
    <3>2. LastWords(p)'
      BY <1>1, <1>9, <2>2, <2>3, <2>13, LastWordsSend
    <3> QED
      BY <3>1, <3>2
  <2>15. Counts(e)' /\ Counts(p)'
    BY <1>1, <1>2, <2>3, <2>9 DEF Counts
  <2>16. \A t : In(p, t)' <=> (In(p, t) \/ t = "CLOSED")
    BY <1>1, <1>9, <2>2, InSend
  <2>17. Handshake(e)'
    <3>1. got'[e] = seq'[p]
      BY <1>2, <2>10
    <3> QED
      BY <1>10, <2>3, <2>8, <3>1 DEF Handshake
  <2>18. Handshake(p)'
    <3>1. ltClosed' = ltClosed /\ lbuf' = lbuf
      BY <1>2
    <3> QED
      BY <1>1, <1>10, <2>3, <2>6, <2>8, <2>13, <2>16, <3>1 DEF Handshake
  <2> QED
    BY <2>4, <2>5, <2>7, <2>11, <2>12, <2>14, <2>15, <2>17, <2>18, Whole
<1> QED
  BY <1>6, <1>11, <1>12

-----------------------------------------------------------------------------
(***************************************************************************)
(* The theorems.                                                           *)
(***************************************************************************)
LEMMA InitInv == Init => IInv
<1> SUFFICES ASSUME Init PROVE IInv
  OBVIOUS
<1>1. Pack("CONNECT", 0, 0, 0, 0) \in Packet
      /\ Pack("CONNECT", 0, 0, 0, 0).type = "CONNECT"
      /\ Pack("CONNECT", 0, 0, 0, 0).len = 0 /\ Pack("CONNECT", 0, 0, 0, 0).of = 0
      /\ Pack("CONNECT", 0, 0, 0, 0).seq = 0 /\ Pack("CONNECT", 0, 0, 0, 0).ack = 0
  BY DEF Pack, Packet, PackType
<1> DEFINE c == Pack("CONNECT", 0, 0, 0, 0)
<1>2. TypeOK
  <2>1. "CONNECT" \in Status /\ "NONE" \in Status
    BY DEF Status, Absent
  <2>2. <<c>> \in Seq(Packet) /\ <<>> \in Seq(Packet)
    BY <1>1
  <2>3. chan \in [End -> Seq(Packet)]
    BY <2>2 DEF Init
  <2>4. stat \in [End -> Status] /\ rev \in [End -> SUBSET Event]
    BY <2>1 DEF Init
  <2> QED
    BY <2>3, <2>4 DEF Init, TypeOK
<1>3. /\ stat["near"] = "CONNECT" /\ stat["far"] = "NONE"
      /\ rev["near"] = {} /\ rev["far"] = {}
      /\ Len(chan["near"]) = 0 /\ Len(chan["far"]) = 1 /\ chan["far"][1] = c
  BY DEF Init, End
<1>4. \A x \in End : /\ lbuf[x] = 0 /\ got[x] = 0 /\ gack[x] = 0 /\ seq[x] = 0
                     /\ rpend[x] = 0 /\ leak[x] = 0 /\ extra[x] = 0 /\ oob[x] = 0
                     /\ Settled(x) = 0 /\ Live(x) /\ Sender(x)
  BY <1>3 DEF Init, Settled, Live, Sender, Closing, End
<1>5. Opening
  BY <1>1, <1>3, <1>4 DEF Opening, End
<1>6. ASSUME NEW x \in End
      PROVE  Chain(x) /\ Packets(x) /\ Counts(x) /\ Handshake(x) /\ LastWords(x) /\ Polled(x)
  <2>1. Peer(x) \in End
    BY Peers
  <2>2. Len(chan[x]) \in {0, 1} /\ (Len(chan[x]) = 1 => x = "far" /\ chan[x][1] = c)
    BY <1>3 DEF End
  <2>3. \A i \in 1 .. Len(chan[x]) : i = 1 /\ x = "far" /\ chan[x][i] = c
    <3> TAKE i \in 1 .. Len(chan[x])
    <3>0. PICK n \in {0, 1} : n = Len(chan[x])
      BY <2>2
    <3>1. i \in 1 .. n
      BY <3>0
    <3>2. i = 1 /\ n = 1
      BY <3>1
    <3> QED
      BY <2>2, <3>0, <3>2
  <2>4. Carries(c) = 0 /\ Answers(c) = 0 /\ PacketOK(c)
    BY <1>1 DEF Carries, Answers, PacketOK
  <2>5. \A i \in 0 .. Len(chan[x]) : SeqAt(x, i) = 0 /\ AckAt(x, i) = 0
    <3> TAKE i \in 0 .. Len(chan[x])
    <3>1. CASE i = 0
      BY <3>1, <1>4 DEF SeqAt, AckAt
    <3>2. CASE i # 0
      <4>1. i \in 1 .. Len(chan[x])
        BY <3>2, <2>2
      <4> QED
        BY <3>2, <4>1, <2>3, <1>1 DEF SeqAt, AckAt
    <3> QED
      BY <3>1, <3>2
  <2>6. Chain(x)
    <3>1. ASSUME NEW i \in 1 .. Len(chan[x])
          PROVE  /\ SeqAt(x, i) = SeqAt(x, i - 1) + Carries(chan[x][i])
                 /\ AckAt(x, i) = AckAt(x, i - 1) + Answers(chan[x][i])
      <4>1. i \in 0 .. Len(chan[x]) /\ i - 1 \in 0 .. Len(chan[x])
        BY <2>2
      <4> QED
        BY <4>1, <2>3, <2>4, <2>5
    <3>2. SeqAt(x, Len(chan[x])) = 0 /\ AckAt(x, Len(chan[x])) = 0
      BY <2>2, <2>5
    <3> QED
      BY <3>1, <3>2, <1>4, <2>1 DEF Chain
  <2>7. Packets(x)
    BY <1>1, <1>4, <2>1, <2>3, <2>4 DEF Packets
  <2>8. Counts(x)
    <3>1. stat[x] # "SEND"
      BY <1>3 DEF End
    <3>2. Payload \in Nat /\ Window \in Nat
      BY Sizes
    <3> QED
      BY <1>4, <2>1, <3>1, <3>2 DEF Counts
  <2>9. Handshake(x)
    <3>1. \A t : In(x, t) => t = "CONNECT" /\ x = "far"
      BY <1>1, <2>3 DEF In
    <3> QED
      BY <1>3, <1>4, <2>1, <3>1 DEF Handshake, End
  <2>10. LastWords(x)
    BY <1>1, <2>3 DEF LastWords
  <2>11. Polled(x)
    BY <1>3 DEF Polled, End
  <2> QED
    BY <2>6, <2>7, <2>8, <2>9, <2>10, <2>11
<1> QED
  BY <1>2, <1>5, <1>6 DEF IInv

\* Every event handler keeps the invariant.
LEMMA HandleInv == ASSUME IInv, NEW e \in End, Handle(e) PROVE IInv'
  BY FlushInv, RelayInv, RelayAgainInv, PushOOBInv, NoOOBInv, RelayOOBInv, RelayEofInv,
     RelayIgnoredInv, RecvIgnoredInv, RecvConnectInv, RecvConnectFailInv,
     RecvConnectedInv, RecvSendInv, RecvSentInv, RecvSendOOBInv, RecvSentOOBInv,
     RecvCloseInv, RecvClosedInv
     DEF Handle

\* A stuttering step keeps the invariant.
LEMMA StutterInv == ASSUME IInv, UNCHANGED vars PROVE IInv'
<1>0. "near" \in End
  BY DEF End
<1>1. TypeOK /\ Opening /\ \A x \in End : Polled(x)
  BY <1>0, Parts
<1>2. TypeOK'
  BY <1>1 DEF TypeOK, vars
<1>3. \A x \in End : Polled(x)'
  BY <1>1 DEF Polled, vars
<1>4. stat["far"] \in {"NONE", "REFUSED"} /\ stat["near"] = "CONNECT"
        => rev'["near"] \subseteq {"COMM"}
  BY <1>1 DEF Opening, vars
<1> QED
  BY <1>2, <1>3, <1>4, <1>0, QuietStep DEF vars

\* The inductive invariant holds in every reachable state: the streams in
\* flight have no gap, the credit and the positions agree, and the CLOSE
\* handshake is where both ends think it is.
THEOREM Inductive == Spec => []IInv
<1>1. Init => IInv
  BY InitInv
<1>2. IInv /\ [Next]_vars => IInv'
  <2> SUFFICES ASSUME IInv, [Next]_vars PROVE IInv'
    OBVIOUS
  <2>1. ASSUME NEW e \in End, Poll(e) \/ Handle(e) \/ Free(e) \/ LingerExpires(e)
        PROVE  IInv'
    BY <2>1, PollInv, HandleInv, FreeInv, LingerExpiresInv
  <2>2. CASE UNCHANGED vars
    BY <2>2, StutterInv
  <2> QED
    BY <2>1, <2>2 DEF Next
<1> QED
  BY <1>1, <1>2, PTL DEF Spec

\* Every variable keeps its type; in particular a_rpend (unsigned) never
\* wraps below zero, whatever the order of SENT, SENTOOB and CLOSE.
THEOREM TypeCorrect == Spec => []TypeOK
<1>1. IInv => TypeOK
  BY DEF IInv
<1> QED
  BY <1>1, Inductive, PTL

\* The payloads an agent takes off the comm connection are contiguous.
THEOREM StreamInOrder == Spec => []InOrder
<1>1. IInv => InOrder
  <2> SUFFICES ASSUME IInv, NEW e \in End, Open(e), chan[e] # <<>>,
                      Head(chan[e]).type \in {"SEND", "SENDOOB"}
               PROVE  Head(chan[e]).seq = got[e] + Head(chan[e]).len
    BY DEF InOrder
  <2>1. Live(e)
    BY OpenLive
  <2>2. /\ Head(chan[e]) = chan[e][1] /\ PacketOK(chan[e][1])
        /\ chan[e][1].seq = got[e] + Carries(chan[e][1])
    BY <2>1, HeadFacts
  <2>3. Carries(chan[e][1]) = chan[e][1].len
    BY <2>2 DEF Carries, PacketOK
  <2> QED
    BY <2>2, <2>3
<1> QED
  BY <1>1, Inductive, PTL

\* The window of sox_relay1 bounds what the peer of an agent has to buffer.
THEOREM BufferBounded == Spec => []BufferBound
<1>1. IInv => BufferBound
  <2> SUFFICES ASSUME IInv, NEW e \in End
               PROVE  lbuf[e] <= Window + Payload + extra[Peer(e)] + oob[Peer(e)]
    BY DEF BufferBound
  <2> DEFINE p == Peer(e)
  <2>1. TypeOK /\ Counts(e) /\ Counts(p) /\ p \in End /\ Peer(p) = e
    BY Parts, Peers
  <2>2. /\ lbuf[e] \in Nat /\ got[e] \in Nat /\ Settled(e) = got[e] - lbuf[e]
        /\ seq[p] \in Nat /\ gack[p] \in Nat /\ extra[p] \in Nat /\ oob[p] \in Nat
        /\ Window \in Nat /\ Payload \in Nat
    BY <2>1, Types, Sizes
  <2>3. got[e] <= seq[p] /\ gack[p] <= Settled(e)
    BY <2>1 DEF Counts
  <2>4. seq[p] - gack[p] <= Window + Payload + extra[p] + oob[p]
    BY <2>1 DEF Counts
  <2> QED
    BY <2>2, <2>3, <2>4
<1> QED
  BY <1>1, Inductive, PTL

\* a_rpend, which only this end changes, is at every moment what its comment
\* says, a sum over what the two directions and the peer's buffer hold.  The
\* payload in flight is the way from what the peer has received to what this
\* end has sent, the acknowledgements in flight the way from what this end has
\* seen to what has left the peer's buffer.
THEOREM CreditKept == Spec => []CreditLedger
<1>1. IInv => CreditLedger
  <2> SUFFICES ASSUME IInv, NEW e \in End, Open(e), Open(Peer(e))
               PROVE  rpend[e] = leak[e] + InFlight(Peer(e), {"SEND", "SENDOOB"})
                                   + lbuf[Peer(e)] + InFlight(e, {"SENT", "SENTOOB"})
    BY DEF CreditLedger
  <2> DEFINE p == Peer(e)
             S == InFlight(p, {"SEND", "SENDOOB"})
             A == InFlight(e, {"SENT", "SENTOOB"})
  <2>1. /\ TypeOK /\ p \in End /\ Peer(p) = e /\ Chain(e) /\ Chain(p) /\ Counts(e)
        /\ Live(e) /\ Live(p) /\ Sender(p)
    BY Parts, Peers, OpenLive
  <2>2. S = SeqAt(p, Len(chan[p])) - got[p] /\ A = AckAt(e, Len(chan[e])) - gack[e]
    BY <2>1, InFlightSums
  <2>3. SeqAt(p, Len(chan[p])) = seq[e] /\ AckAt(e, Len(chan[e])) = Settled(p)
    BY <2>1 DEF Chain
  <2>4. rpend[e] = leak[e] + seq[e] - gack[e]
    BY <2>1 DEF Counts
  <2>5. /\ leak[e] \in Int /\ seq[e] \in Int /\ gack[e] \in Int /\ got[p] \in Int
        /\ lbuf[p] \in Int /\ Settled(p) = got[p] - lbuf[p]
    BY <2>1, Types
  <2> HIDE DEF p, S, A
  <2>6. S = seq[e] - got[p] /\ A = got[p] - lbuf[p] - gack[e]
    BY <2>2, <2>3, <2>5
  <2>7. rpend[e] = leak[e] + S + lbuf[p] + A
    BY <2>4, <2>5, <2>6
  <2> QED
    BY <2>7 DEF p, S, A
<1> QED
  BY <1>1, Inductive, PTL

\* CLOSE overtakes no data, and an agent released without end of file of its
\* own has received its peer's whole stream.
THEOREM ClosedCleanly == Spec => []CleanClose
<1>1. IInv => CleanClose
  <2>1. ASSUME IInv PROVE \A e \in End : Handshake(e)
    BY <2>1, Parts
  <2> QED
    BY <2>1 DEF CleanClose, Handshake
<1> QED
  BY <1>1, Inductive, PTL

\* Nothing but SENT is on its way to an id that has been released.
THEOREM ReleasedIsQuiet == Spec => []FreedIsQuiet
<1>1. IInv => FreedIsQuiet
  <2>1. ASSUME IInv PROVE \A e \in End : Handshake(e) /\ Len(chan[e]) \in Nat
    BY <2>1, Parts, Types
  <2> QED
    BY <2>1 DEF FreedIsQuiet, Handshake, OnlySent
<1> QED
  BY <1>1, Inductive, PTL

-----------------------------------------------------------------------------
(* Why a waiting agent is not forgotten. *)

\* Whoever waits for the window to open has a_rpend at the window or above.
Full == \A e \in End : stat[e] = "SENDING" => rpend[e] >= Window

\* Events that leave a_rpend alone, and a_stat too or end in another status.
LEMMA FullKept ==
    ASSUME IInv, Full, NEW e \in End, rpend' = rpend,
           stat' = stat \/ \E s : s # "SENDING" /\ stat' = [stat EXCEPT ![e] = s]
    PROVE  Full'
<1>1. stat \in [End -> Status] /\ rpend \in [End -> Nat]
  BY Parts DEF TypeOK
<1> QED
  BY <1>1 DEF Full

\* A SEND that exceeds the window stops the input, and only a SENT that leaves
\* less than the window resumes it.
LEMMA FullWindow ==
    ASSUME IInv, Full, NEW e \in End, Relay(e) \/ RecvSent(e) PROVE Full'
<1>1. /\ stat \in [End -> Status] /\ rpend \in [End -> Nat] /\ Window \in Nat
      /\ Payload \in Nat
  BY Parts, Sizes DEF TypeOK
<1>2. CASE Relay(e)
  <2>1. PICK n \in 1 .. Payload : rpend' = [rpend EXCEPT ![e] = @ + n]
    BY <1>2 DEF Relay
  <2>2. /\ rpend'[e] = rpend[e] + n /\ rpend[e] + n \in Nat
        /\ \A x \in End : x # e => rpend'[x] = rpend[x]
    BY <1>1, <2>1
  <2>3. stat' = [stat EXCEPT ![e] = SendStat(rpend'[e])]
    BY <1>2 DEF Relay
  <2> QED
    BY <1>1, <2>2, <2>3 DEF Full, SendStat
<1>3. CASE RecvSent(e)
  <2>1. PICK n \in Int : n = Head(chan[e]).len
    BY <1>3, HeadFacts DEF RecvSent, Recv
  <2>2. /\ rpend' = [rpend EXCEPT ![e] = @ - n]
        /\ stat' = [stat EXCEPT ![e] = SentStat(@, rpend[e] - n)]
    BY <1>3, <2>1 DEF RecvSent
  <2>3. /\ rpend'[e] = rpend[e] - n /\ rpend[e] - n \in Int
        /\ \A x \in End : x # e => rpend'[x] = rpend[x]
    BY <1>1, <2>2
  <2> QED
    BY <1>1, <2>2, <2>3 DEF Full, SentStat
<1> QED
  BY <1>2, <1>3

\* Urgent bytes change the status to one that is not SENDING.
LEMMA FullUrgent ==
    ASSUME IInv, Full, NEW e \in End,
           RecvSentOOB(e) \/ \E v \in {"PRI", "PUSH"} : RelayOOB(e, v)
    PROVE  Full'
<1>1. stat \in [End -> Status] /\ rpend \in [End -> Nat]
  BY Parts DEF TypeOK
<1>2. /\ \E s \in {"SENTOOB", "SENDINGOOB"} : stat' = [stat EXCEPT ![e] = s]
      /\ \E r : rpend' = [rpend EXCEPT ![e] = r]
  BY DEF RecvSentOOB, RelayOOB
<1> QED
  BY <1>1, <1>2 DEF Full

\* Full holds in every state.
LEMMA AlwaysFull == Spec => []Full
<1>1. Init => Full
  BY DEF Init, Full
<1>2. IInv /\ Full /\ [Next]_vars => Full'
  <2> SUFFICES ASSUME IInv, Full, [Next]_vars PROVE Full'
    OBVIOUS
  <2>1. CASE UNCHANGED vars
    BY <2>1 DEF Full, vars
  <2>2. ASSUME NEW e \in End, Poll(e) \/ LingerExpires(e) PROVE Full'
    BY <2>2 DEF Full, Poll, LingerExpires
  <2>3. ASSUME NEW e \in End, Free(e) PROVE Full'
    <3>1. rpend' = rpend /\ \E s : s # "SENDING" /\ stat' = [stat EXCEPT ![e] = s]
      BY <2>3 DEF Free
    <3> QED
      BY <3>1, FullKept
  <2>4. ASSUME NEW e \in End, Handle(e) PROVE Full'
    <3>1. CASE Flush(e)
      <4>1. /\ rpend' = rpend
            /\ \/ stat' = stat
               \/ stat' = [stat EXCEPT ![e] = IF @ = "CLOSED" THEN @ ELSE "SENT"]
        BY <3>1 DEF Flush
      <4>2. stat' = stat \/ \E s : s # "SENDING" /\ stat' = [stat EXCEPT ![e] = s]
        BY <4>1
      <4> QED
        BY <4>1, <4>2, FullKept
    <3>2. CASE \/ PushOOB(e) \/ NoOOB(e) \/ RelayAgain(e) \/ RecvIgnored(e) \/ RecvSend(e)
               \/ RecvSendOOB(e) \/ \E v \in {"PRI", "IN", "PUSH"} : RelayIgnored(e, v)
      <4>1. stat' = stat /\ rpend' = rpend
        BY <3>2 DEF PushOOB, NoOOB, RelayAgain, RecvIgnored, RecvSend, RecvSendOOB, RelayIgnored
      <4> QED
        BY <4>1 DEF Full
    <3>3. CASE \/ RecvConnect(e) \/ RecvConnectFail(e) \/ RecvConnected(e) \/ RecvClosed(e)
               \/ \E v \in {"PRI", "IN"} : RelayEof(e, v)
      <4>1. rpend' = rpend /\ \E s : s # "SENDING" /\ stat' = [stat EXCEPT ![e] = s]
        BY <3>3 DEF RecvConnect, RecvConnectFail, RecvConnected, RecvClosed, RelayEof
      <4> QED
        BY <4>1, FullKept
    <3>4. CASE RecvClose(e)
      <4>1. rpend' = rpend /\ stat' = [stat EXCEPT ![e] = IF Present(e) THEN "CLOSED" ELSE @]
        BY <3>4 DEF RecvClose
      <4>2. ~Present(e) => stat[e] # "SENDING"
        BY DEF Present, Absent
      <4>3. \E s : s # "SENDING" /\ stat' = [stat EXCEPT ![e] = s]
        BY <4>1, <4>2
      <4> QED
        BY <4>1, <4>3, FullKept
    <3> QED
      BY <2>4, <3>1, <3>2, <3>3, <3>4, FullWindow, FullUrgent DEF Handle
  <2> QED
    BY <2>1, <2>2, <2>3, <2>4 DEF Next
<1> QED
  BY <1>1, <1>2, Inductive, PTL DEF Spec

\* While both ends are open, an agent that waits for the window to open waits
\* for something: payload of its is on its way or buffered at the peer, or an
\* acknowledgement is on its way back.  The only exception is a window used up
\* by urgent bytes that sendOOB refused (sox.cpp:2834).
Awaited ==
    \A e \in End : LET p == Peer(e) IN
        stat[e] = "SENDING" /\ Open(p) /\ leak[e] < Window =>
            InFlight(p, {"SEND", "SENDOOB"}) + lbuf[p]
                + InFlight(e, {"SENT", "SENTOOB"}) > 0

\* No agent waits for a window that nobody will open: what Resumed needs of
\* the ledger, with lost credit included, for every packet size and window.
THEOREM WaitIsAwaited == Spec => []Awaited
<1>1. CreditLedger /\ Full /\ IInv => Awaited
  <2> SUFFICES ASSUME CreditLedger, Full, IInv, NEW e \in End, stat[e] = "SENDING",
                      Open(Peer(e)), leak[e] < Window
               PROVE  InFlight(Peer(e), {"SEND", "SENDOOB"}) + lbuf[Peer(e)]
                        + InFlight(e, {"SENT", "SENTOOB"}) > 0
    BY DEF Awaited
  <2> DEFINE p == Peer(e)
             S == InFlight(p, {"SEND", "SENDOOB"})
             A == InFlight(e, {"SENT", "SENTOOB"})
  <2>1. Open(e)
    BY DEF Open, Absent, Closing
  <2>2. rpend[e] = leak[e] + S + lbuf[p] + A
    BY <2>1 DEF CreditLedger
  <2>3. rpend[e] >= Window /\ rpend[e] \in Nat /\ Window \in Nat /\ leak[e] \in Nat
    BY Parts, Types, Sizes DEF Full
  <2>4. /\ TypeOK /\ p \in End /\ Chain(e) /\ Chain(p) /\ Live(e) /\ Live(p)
        /\ Peer(p) = e /\ Sender(p)
    BY <2>1, Parts, Peers, OpenLive
  <2>5. S = SeqAt(p, Len(chan[p])) - got[p] /\ A = AckAt(e, Len(chan[e])) - gack[e]
    BY <2>4, InFlightSums
  <2>6. SeqAt(p, Len(chan[p])) = seq[e] /\ AckAt(e, Len(chan[e])) = Settled(p)
    BY <2>4 DEF Chain
  <2>7. seq[e] \in Int /\ got[p] \in Int /\ gack[e] \in Int /\ Settled(p) \in Int /\ lbuf[p] \in Int
    BY <2>4, Types
  <2> HIDE DEF p, S, A
  <2>8. S \in Int /\ A \in Int
    BY <2>5, <2>6, <2>7
  <2>9. S + lbuf[p] + A > 0
    BY <2>2, <2>3, <2>7, <2>8
  <2> QED
    BY <2>9 DEF p, S, A
<1> QED
  BY <1>1, AlwaysFull, CreditKept, Inductive, PTL
=============================================================================

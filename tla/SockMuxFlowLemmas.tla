------------------------- MODULE SockMuxFlowLemmas -------------------------
(***************************************************************************)
(* What writing, taking and leaving alone the packets of one direction of  *)
(* the comm connection does to the parts of the inductive invariant of     *)
(* SockMuxFlow.                                                            *)
(***************************************************************************)
EXTENDS SockMuxFlow, WellFoundedInduction, TLAPS

\* The sizes of sox.cpp: a SEND carries something, and the window is a number.
LEMMA Sizes == Payload \in Nat \ {0} /\ Window \in Nat
<1>1. PackSize \in Nat /\ PHSIZE \in Nat /\ PHSIZE < PackSize /\ MAXPENDING \in Nat
  BY SizeAssumption
<1>2. Payload \in Nat \ {0}
  BY <1>1 DEF Payload
<1>3. Window \in Nat
  BY <1>1 DEF Window
<1> QED
  BY <1>2, <1>3

\* The two ends are each other's peers.
LEMMA Peers ==
    \A e \in End : /\ Peer(e) \in End /\ Peer(e) # e /\ Peer(Peer(e)) = e
                   /\ \A x \in End : x = e \/ x = Peer(e)
  BY DEF End, Peer

\* Append and Tail, element by element.
LEMMA AppendFacts ==
    ASSUME NEW S, NEW s \in Seq(S), NEW x \in S
    PROVE  /\ Append(s, x) \in Seq(S)
           /\ Len(Append(s, x)) = Len(s) + 1
           /\ \A i \in 1 .. Len(s) : Append(s, x)[i] = s[i]
           /\ Append(s, x)[Len(s) + 1] = x
  OBVIOUS

\* What Tail does to a sequence: every packet moves one place forward.
LEMMA TailFacts ==
    ASSUME NEW S, NEW s \in Seq(S), s # <<>>
    PROVE  /\ Tail(s) \in Seq(S)
           /\ Len(s) \in Nat /\ Len(s) >= 1
           /\ Len(Tail(s)) = Len(s) - 1
           /\ \A i \in 1 .. Len(s) - 1 : Tail(s)[i] = s[i + 1]
           /\ Head(s) = s[1] /\ s[1] \in S
  OBVIOUS

\* What writing a packet (Send) does to the two directions.
LEMMA SendFacts ==
    ASSUME TypeOK, NEW e \in End, NEW pk \in Packet, Send(e, pk)
    PROVE  /\ chan' \in [End -> Seq(Packet)]
           /\ chan'[e] = chan[e]
           /\ Len(chan'[Peer(e)]) = Len(chan[Peer(e)]) + 1
           /\ \A i \in 1 .. Len(chan[Peer(e)]) :
                chan'[Peer(e)][i] = chan[Peer(e)][i]
           /\ chan'[Peer(e)][Len(chan'[Peer(e)])] = pk
<1>1. chan \in [End -> Seq(Packet)] /\ Peer(e) \in End /\ Peer(e) # e
  BY Peers DEF TypeOK
<1>2. chan' = [chan EXCEPT ![Peer(e)] = Append(chan[Peer(e)], pk)]
  BY DEF Send
<1>3. chan'[e] = chan[e] /\ chan'[Peer(e)] = Append(chan[Peer(e)], pk)
  BY <1>1, <1>2
<1>4. Append(chan[Peer(e)], pk) \in Seq(Packet)
  BY <1>1, AppendFacts
<1>5. chan' \in [End -> Seq(Packet)]
  BY <1>1, <1>2, <1>4
<1> QED
  BY <1>1, <1>3, <1>5, AppendFacts

\* What taking the first packet (Take) does.
LEMMA TakeFacts ==
    ASSUME TypeOK, NEW e \in End, chan[e] # <<>>, Take(e)
    PROVE  /\ chan' \in [End -> Seq(Packet)]
           /\ chan'[Peer(e)] = chan[Peer(e)]
           /\ Len(chan[e]) >= 1
           /\ Len(chan'[e]) = Len(chan[e]) - 1
           /\ \A i \in 1 .. Len(chan'[e]) : chan'[e][i] = chan[e][i + 1]
           /\ Head(chan[e]) = chan[e][1] /\ chan[e][1] \in Packet
<1>1. chan \in [End -> Seq(Packet)] /\ Peer(e) \in End /\ Peer(e) # e
  BY Peers DEF TypeOK
<1>2. chan' = [chan EXCEPT ![e] = Tail(chan[e])]
  BY DEF Take
<1>3. chan'[e] = Tail(chan[e]) /\ chan'[Peer(e)] = chan[Peer(e)]
  BY <1>1, <1>2
<1>4. Tail(chan[e]) \in Seq(Packet)
  BY <1>1, TailFacts
<1>5. chan' \in [End -> Seq(Packet)]
  BY <1>1, <1>2, <1>4
<1> QED
  BY <1>1, <1>3, <1>5, TailFacts

\* What answering the first packet (TakeSend) does.
LEMMA TakeSendFacts ==
    ASSUME TypeOK, NEW e \in End, NEW pk \in Packet, chan[e] # <<>>, TakeSend(e, pk)
    PROVE  /\ chan' \in [End -> Seq(Packet)]
           /\ Len(chan'[Peer(e)]) = Len(chan[Peer(e)]) + 1
           /\ \A i \in 1 .. Len(chan[Peer(e)]) :
                chan'[Peer(e)][i] = chan[Peer(e)][i]
           /\ chan'[Peer(e)][Len(chan'[Peer(e)])] = pk
           /\ Len(chan[e]) >= 1
           /\ Len(chan'[e]) = Len(chan[e]) - 1
           /\ \A i \in 1 .. Len(chan'[e]) : chan'[e][i] = chan[e][i + 1]
           /\ Head(chan[e]) = chan[e][1] /\ chan[e][1] \in Packet
<1>1. chan \in [End -> Seq(Packet)] /\ Peer(e) \in End /\ Peer(e) # e
  BY Peers DEF TypeOK
<1>2. chan' = [chan EXCEPT ![e] = Tail(chan[e]),
                           ![Peer(e)] = Append(chan[Peer(e)], pk)]
  BY DEF TakeSend
<1>3. chan'[e] = Tail(chan[e]) /\ chan'[Peer(e)] = Append(chan[Peer(e)], pk)
  BY <1>1, <1>2
<1>4. Tail(chan[e]) \in Seq(Packet) /\ Append(chan[Peer(e)], pk) \in Seq(Packet)
  BY <1>1, AppendFacts, TailFacts
<1>5. chan' \in [End -> Seq(Packet)]
  BY <1>1, <1>2, <1>4
<1>6. /\ Len(chan'[Peer(e)]) = Len(chan[Peer(e)]) + 1
      /\ \A i \in 1 .. Len(chan[Peer(e)]) : chan'[Peer(e)][i] = chan[Peer(e)][i]
      /\ chan'[Peer(e)][Len(chan'[Peer(e)])] = pk
  BY <1>1, <1>3, AppendFacts
<1>7. /\ Len(chan[e]) >= 1 /\ Len(chan'[e]) = Len(chan[e]) - 1
      /\ \A i \in 1 .. Len(chan'[e]) : chan'[e][i] = chan[e][i + 1]
      /\ Head(chan[e]) = chan[e][1] /\ chan[e][1] \in Packet
  BY <1>1, <1>3, TailFacts
<1> QED
  BY <1>5, <1>6, <1>7

-----------------------------------------------------------------------------
(***************************************************************************)
(* One direction of the comm connection: the packets on their way to end   *)
(* x are left alone, extended by x's peer, or x takes the first one.       *)
(***************************************************************************)
\* Nobody touches the direction.
LEMMA ChainSame ==
    ASSUME NEW x \in End, Chain(x), chan'[x] = chan[x],
           got'[x] = got[x], gack'[x] = gack[x], seq'[Peer(x)] = seq[Peer(x)],
           Live(x)' => Live(x),
           Sender(Peer(x))' =>
             Sender(Peer(x)) /\ Settled(Peer(x))' = Settled(Peer(x))
    PROVE  Chain(x)'
  BY DEF Chain, SeqAt, AckAt

\* The peer writes a packet that starts where the last one ended.
LEMMA ChainSend ==
    ASSUME NEW x \in End, NEW pk \in Packet, Chain(x),
           Len(chan[x]) \in Nat,
           Len(chan'[x]) = Len(chan[x]) + 1,
           \A i \in 1 .. Len(chan[x]) : chan'[x][i] = chan[x][i],
           chan'[x][Len(chan'[x])] = pk,
           got'[x] = got[x], gack'[x] = gack[x],
           Live(x)' => Live(x),
           Sender(Peer(x)),
           seq'[Peer(x)] = seq[Peer(x)] + Carries(pk), pk.seq = seq'[Peer(x)],
           pk.ack = Settled(Peer(x)) + Answers(pk),
           Sender(Peer(x))' => Settled(Peer(x))' = pk.ack
    PROVE  Chain(x)'
<1> SUFFICES ASSUME Live(x)' PROVE Chain(x)'
  BY DEF Chain
<1>0. PICK n \in Nat : n = Len(chan[x])
  OBVIOUS
<1>1. /\ \A i \in 1 .. n : /\ SeqAt(x, i) = SeqAt(x, i - 1) + Carries(chan[x][i])
                            /\ AckAt(x, i) = AckAt(x, i - 1) + Answers(chan[x][i])
      /\ SeqAt(x, n) = seq[Peer(x)]
      /\ AckAt(x, n) = Settled(Peer(x))
  BY <1>0 DEF Chain
<1>2. \A i \in 0 .. n : SeqAt(x, i)' = SeqAt(x, i) /\ AckAt(x, i)' = AckAt(x, i)
  BY <1>0 DEF SeqAt, AckAt
<1>3. /\ Len(chan'[x]) = n + 1 /\ chan'[x][n + 1] = pk
      /\ SeqAt(x, n + 1)' = pk.seq /\ AckAt(x, n + 1)' = pk.ack
  BY <1>0 DEF SeqAt, AckAt
<1>4. \A i \in 1 .. n + 1 :
         /\ SeqAt(x, i)' = SeqAt(x, i - 1)' + Carries(chan'[x][i])
         /\ AckAt(x, i)' = AckAt(x, i - 1)' + Answers(chan'[x][i])
  <2> TAKE i \in 1 .. n + 1
  <2>1. CASE i = n + 1
    BY <2>1, <1>0, <1>1, <1>2, <1>3
  <2>2. CASE i # n + 1
    BY <2>2, <1>0, <1>1, <1>2
  <2> QED
    BY <2>1, <2>2
<1> QED
  BY <1>3, <1>4 DEF Chain
\* x takes the first packet and moves on by what it carries and answers.
LEMMA ChainTake ==
    ASSUME NEW x \in End, Chain(x),
           Len(chan[x]) \in Nat, Len(chan[x]) >= 1,
           Len(chan'[x]) = Len(chan[x]) - 1,
           \A i \in 1 .. Len(chan'[x]) : chan'[x][i] = chan[x][i + 1],
           got'[x] = got[x] + Carries(chan[x][1]),
           gack'[x] = gack[x] + Answers(chan[x][1]),
           seq'[Peer(x)] = seq[Peer(x)],
           Live(x)' => Live(x),
           Sender(Peer(x))' =>
             Sender(Peer(x)) /\ Settled(Peer(x))' = Settled(Peer(x))
    PROVE  Chain(x)'
<1> SUFFICES ASSUME Live(x)' PROVE Chain(x)'
  BY DEF Chain
<1>0. PICK n \in Nat : n = Len(chan'[x])
  OBVIOUS
<1>1. /\ \A i \in 1 .. n + 1 :
           /\ SeqAt(x, i) = SeqAt(x, i - 1) + Carries(chan[x][i])
           /\ AckAt(x, i) = AckAt(x, i - 1) + Answers(chan[x][i])
      /\ SeqAt(x, n + 1) = seq[Peer(x)]
      /\ Sender(Peer(x)) => AckAt(x, n + 1) = Settled(Peer(x))
  BY <1>0 DEF Chain
<1>2. SeqAt(x, 1) = got'[x] /\ AckAt(x, 1) = gack'[x]
  <2>1. SeqAt(x, 0) = got[x] /\ AckAt(x, 0) = gack[x]
    BY DEF SeqAt, AckAt
  <2>2. 1 \in 1 .. n + 1 /\ 1 - 1 = 0
    BY <1>0
  <2> QED
    BY <1>1, <2>1, <2>2
<1>3. \A i \in 0 .. n : /\ SeqAt(x, i)' = SeqAt(x, i + 1)
                        /\ AckAt(x, i)' = AckAt(x, i + 1)
  <2> TAKE i \in 0 .. n
  <2>1. CASE i = 0
    BY <2>1, <1>2 DEF SeqAt, AckAt
  <2>2. CASE i # 0
    BY <2>2, <1>0 DEF SeqAt, AckAt
  <2> QED
    BY <2>1, <2>2
<1>4. \A i \in 1 .. n :
         /\ SeqAt(x, i)' = SeqAt(x, i - 1)' + Carries(chan'[x][i])
         /\ AckAt(x, i)' = AckAt(x, i - 1)' + Answers(chan'[x][i])
  <2> TAKE i \in 1 .. n
  <2>1. /\ i \in 0 .. n /\ i - 1 \in 0 .. n /\ i + 1 \in 1 .. n + 1
        /\ (i - 1) + 1 = i /\ (i + 1) - 1 = i
    OBVIOUS
  <2>2. /\ SeqAt(x, i)' = SeqAt(x, i + 1) /\ AckAt(x, i)' = AckAt(x, i + 1)
        /\ SeqAt(x, i - 1)' = SeqAt(x, i) /\ AckAt(x, i - 1)' = AckAt(x, i)
        /\ chan'[x][i] = chan[x][i + 1]
    BY <2>1, <1>3, <1>0
  <2> QED
    BY <2>1, <2>2, <1>1
<1>5. n \in 0 .. n
  OBVIOUS
<1> QED
  BY <1>0, <1>1, <1>3, <1>4, <1>5 DEF Chain

\* The types of one end's variables, before and after a step.
LEMMA Types ==
    ASSUME TypeOK, NEW x \in End
    PROVE  /\ stat[x] \in Status /\ rpend[x] \in Nat /\ lbuf[x] \in Nat
           /\ seq[x] \in Nat /\ oob[x] \in Nat /\ got[x] \in Nat
           /\ gack[x] \in Nat /\ leak[x] \in Nat /\ extra[x] \in Nat
           /\ Settled(x) \in Int /\ Settled(x) = got[x] - lbuf[x]
           /\ chan[x] \in Seq(Packet) /\ Len(chan[x]) \in Nat
           /\ \A i \in 1 .. Len(chan[x]) : chan[x][i] \in Packet
<1>1. /\ stat[x] \in Status /\ rpend[x] \in Nat /\ lbuf[x] \in Nat
      /\ seq[x] \in Nat /\ oob[x] \in Nat /\ got[x] \in Nat
      /\ gack[x] \in Nat /\ leak[x] \in Nat /\ extra[x] \in Nat
  BY DEF TypeOK
<1>2. Settled(x) \in Int /\ Settled(x) = got[x] - lbuf[x]
  BY <1>1 DEF Settled
<1>3. chan[x] \in Seq(Packet)
  BY DEF TypeOK
<1> QED
  BY <1>1, <1>2, <1>3

\* TypeOK after a step, from the types of the variables one by one.
LEMMA TypesNext ==
    ASSUME TypeOK', NEW x \in End
    PROVE  /\ stat'[x] \in Status /\ rpend'[x] \in Nat /\ lbuf'[x] \in Nat
           /\ seq'[x] \in Nat /\ oob'[x] \in Nat /\ got'[x] \in Nat
           /\ gack'[x] \in Nat /\ leak'[x] \in Nat /\ extra'[x] \in Nat
           /\ Settled(x)' \in Int /\ Settled(x)' = got'[x] - lbuf'[x]
           /\ chan'[x] \in Seq(Packet) /\ Len(chan'[x]) \in Nat
<1>1. /\ stat'[x] \in Status /\ rpend'[x] \in Nat /\ lbuf'[x] \in Nat
      /\ seq'[x] \in Nat /\ oob'[x] \in Nat /\ got'[x] \in Nat
      /\ gack'[x] \in Nat /\ leak'[x] \in Nat /\ extra'[x] \in Nat
  BY DEF TypeOK
<1>2. Settled(x)' \in Int /\ Settled(x)' = got'[x] - lbuf'[x]
  BY <1>1 DEF Settled
<1>3. chan'[x] \in Seq(Packet)
  BY DEF TypeOK
<1> QED
  BY <1>1, <1>2, <1>3

\* Every packet in flight is a Packet.
LEMMA PacketTypes ==
    ASSUME NEW pk \in Packet
    PROVE  /\ pk.type \in PackType /\ pk.len \in Int
           /\ pk.of \in Nat /\ pk.seq \in Nat /\ pk.ack \in Nat
  BY DEF Packet

\* The fields of a packet are the arguments of Pack.
LEMMA PackFacts ==
    ASSUME NEW t \in PackType, NEW n \in Int, NEW o \in Nat, NEW s \in Nat, NEW a \in Nat
    PROVE  /\ Pack(t, n, o, s, a) \in Packet
           /\ Pack(t, n, o, s, a).type = t /\ Pack(t, n, o, s, a).len = n
           /\ Pack(t, n, o, s, a).of = o /\ Pack(t, n, o, s, a).seq = s
           /\ Pack(t, n, o, s, a).ack = a
  BY DEF Pack, Packet

\* The packets of a direction stay behind the positions of their sender.
LEMMA PacketsSame ==
    ASSUME TypeOK, TypeOK', NEW x \in End, Packets(x), chan'[x] = chan[x],
           seq'[Peer(x)] >= seq[Peer(x)], Settled(Peer(x))' >= Settled(Peer(x))
    PROVE  Packets(x)'
<1>1. Peer(x) \in End
  BY Peers
<1>2. /\ seq[Peer(x)] \in Nat /\ seq'[Peer(x)] \in Nat
      /\ Settled(Peer(x)) \in Int /\ Settled(Peer(x))' \in Int
  BY <1>1, Types, TypesNext
<1>3. \A i \in 1 .. Len(chan[x]) : chan[x][i].seq \in Nat /\ chan[x][i].ack \in Nat
  BY Types, PacketTypes
<1> QED
  BY <1>2, <1>3 DEF Packets

\* Writing a packet that lies behind its sender's positions keeps Packets.
LEMMA PacketsSend ==
    ASSUME TypeOK, TypeOK', NEW x \in End, NEW pk \in Packet, Packets(x),
           Len(chan'[x]) = Len(chan[x]) + 1,
           \A i \in 1 .. Len(chan[x]) : chan'[x][i] = chan[x][i],
           chan'[x][Len(chan'[x])] = pk,
           seq'[Peer(x)] >= seq[Peer(x)], Settled(Peer(x))' >= Settled(Peer(x)),
           PacketOK(pk), pk.seq <= seq'[Peer(x)], pk.ack <= Settled(Peer(x))'
    PROVE  Packets(x)'
<1>1. Peer(x) \in End
  BY Peers
<1>2. /\ seq[Peer(x)] \in Nat /\ seq'[Peer(x)] \in Nat
      /\ Settled(Peer(x)) \in Int /\ Settled(Peer(x))' \in Int
      /\ Len(chan[x]) \in Nat
  BY <1>1, Types, TypesNext
<1>3. \A i \in 1 .. Len(chan[x]) : chan[x][i].seq \in Nat /\ chan[x][i].ack \in Nat
  BY Types, PacketTypes
<1> SUFFICES ASSUME NEW i \in 1 .. Len(chan'[x])
             PROVE  /\ PacketOK(chan'[x][i])
                    /\ chan'[x][i].seq <= seq'[Peer(x)]
                    /\ chan'[x][i].ack <= Settled(Peer(x))'
  BY DEF Packets
<1>4. CASE i = Len(chan'[x])
  BY <1>4
<1>5. CASE i \in 1 .. Len(chan[x])
  <2>1. /\ PacketOK(chan[x][i]) /\ chan[x][i].seq <= seq[Peer(x)]
        /\ chan[x][i].ack <= Settled(Peer(x))
    BY <1>5 DEF Packets
  <2>2. chan'[x][i] = chan[x][i] /\ chan[x][i].seq \in Nat /\ chan[x][i].ack \in Nat
    BY <1>5, <1>3
  <2> QED
    BY <2>1, <2>2, <1>2
<1> QED
  BY <1>2, <1>4, <1>5

\* Taking the first packet off a channel keeps Packets.
LEMMA PacketsTake ==
    ASSUME TypeOK, TypeOK', NEW x \in End, Packets(x),
           Len(chan[x]) >= 1, Len(chan'[x]) = Len(chan[x]) - 1,
           \A i \in 1 .. Len(chan'[x]) : chan'[x][i] = chan[x][i + 1],
           seq'[Peer(x)] >= seq[Peer(x)], Settled(Peer(x))' >= Settled(Peer(x))
    PROVE  Packets(x)'
<1>1. Peer(x) \in End
  BY Peers
<1>2. /\ seq[Peer(x)] \in Nat /\ seq'[Peer(x)] \in Nat
      /\ Settled(Peer(x)) \in Int /\ Settled(Peer(x))' \in Int
      /\ Len(chan[x]) \in Nat
  BY <1>1, Types, TypesNext
<1>3. \A i \in 1 .. Len(chan[x]) : chan[x][i].seq \in Nat /\ chan[x][i].ack \in Nat
  BY Types, PacketTypes
<1> SUFFICES ASSUME NEW i \in 1 .. Len(chan'[x])
             PROVE  /\ PacketOK(chan'[x][i])
                    /\ chan'[x][i].seq <= seq'[Peer(x)]
                    /\ chan'[x][i].ack <= Settled(Peer(x))'
  BY DEF Packets
<1>4. i + 1 \in 1 .. Len(chan[x]) /\ chan'[x][i] = chan[x][i + 1]
  BY <1>2
<1>5. /\ PacketOK(chan[x][i + 1]) /\ chan[x][i + 1].seq <= seq[Peer(x)]
      /\ chan[x][i + 1].ack <= Settled(Peer(x))
  BY <1>4 DEF Packets
<1> QED
  BY <1>2, <1>3, <1>4, <1>5

\* Which types of packets are on their way to x.
LEMMA InSame ==
    ASSUME NEW x \in End, chan'[x] = chan[x]
    PROVE  /\ \A t : In(x, t)' <=> In(x, t)
           /\ OnlySent(x, 0)' <=> OnlySent(x, 0)
  BY DEF In, OnlySent

\* After a write the receiver has in flight what it had, and the new packet.
LEMMA InSend ==
    ASSUME NEW x \in End, NEW pk, Len(chan[x]) \in Nat,
           Len(chan'[x]) = Len(chan[x]) + 1,
           \A i \in 1 .. Len(chan[x]) : chan'[x][i] = chan[x][i],
           chan'[x][Len(chan'[x])] = pk
    PROVE  /\ \A t : In(x, t)' <=> (In(x, t) \/ pk.type = t)
           /\ OnlySent(x, 0) /\ pk.type = "SENT" => OnlySent(x, 0)'
<1>1. \A i \in 1 .. Len(chan'[x]) : i \in 1 .. Len(chan[x]) \/ i = Len(chan'[x])
  OBVIOUS
<1>2. Len(chan'[x]) \in 1 .. Len(chan'[x])
      /\ \A i \in 1 .. Len(chan[x]) : i \in 1 .. Len(chan'[x])
  OBVIOUS
<1>3. ASSUME NEW t PROVE In(x, t)' <=> (In(x, t) \/ pk.type = t)
  BY <1>1, <1>2 DEF In
<1>4. OnlySent(x, 0) /\ pk.type = "SENT" => OnlySent(x, 0)'
  BY <1>1 DEF OnlySent
<1> QED
  BY <1>3, <1>4

\* After the first packet is taken only the ones behind it are in flight.
LEMMA InTake ==
    ASSUME NEW x \in End, Len(chan[x]) \in Nat, Len(chan[x]) >= 1,
           Len(chan'[x]) = Len(chan[x]) - 1,
           \A i \in 1 .. Len(chan'[x]) : chan'[x][i] = chan[x][i + 1]
    PROVE  /\ \A t : In(x, t) <=> (In(x, t)' \/ chan[x][1].type = t)
           /\ OnlySent(x, 0) => OnlySent(x, 0)' /\ chan[x][1].type = "SENT"
           /\ OnlySent(x, 1) => OnlySent(x, 0)'
<1>1. \A i \in 1 .. Len(chan[x]) : i = 1 \/ (i - 1 \in 1 .. Len(chan'[x]) /\ (i - 1) + 1 = i)
  OBVIOUS
<1>2. 1 \in 1 .. Len(chan[x]) /\ \A i \in 1 .. Len(chan'[x]) : i + 1 \in 2 .. Len(chan[x])
  OBVIOUS
<1>3. ASSUME NEW t PROVE In(x, t) <=> (In(x, t)' \/ chan[x][1].type = t)
  <2>1. ASSUME In(x, t) PROVE In(x, t)' \/ chan[x][1].type = t
    <3>1. PICK i \in 1 .. Len(chan[x]) : chan[x][i].type = t
      BY <2>1 DEF In
    <3>2. i = 1 \/ chan'[x][i - 1] = chan[x][i]
      BY <1>1
    <3> QED
      BY <1>1, <3>1, <3>2 DEF In
  <2>2. ASSUME In(x, t)' PROVE In(x, t)
    <3>1. PICK i \in 1 .. Len(chan'[x]) : chan'[x][i].type = t
      BY <2>2 DEF In
    <3>2. i + 1 \in 1 .. Len(chan[x]) /\ chan[x][i + 1].type = t
      BY <3>1
    <3> QED
      BY <3>2 DEF In
  <2> QED
    BY <1>2, <2>1, <2>2 DEF In
<1>4. OnlySent(x, 0) => OnlySent(x, 0)' /\ chan[x][1].type = "SENT"
  BY <1>2 DEF OnlySent
<1>5. OnlySent(x, 1) => OnlySent(x, 0)'
  BY <1>2 DEF OnlySent
<1> QED
  BY <1>3, <1>4, <1>5

\* CLOSE and CLOSED stay the last words of their sender.
LEMMA LastWordsSame ==
    ASSUME NEW x \in End, LastWords(x), chan'[x] = chan[x],
           Sender(Peer(x))' => Sender(Peer(x)),
           stat[Peer(x)] \in {"CLOSED", "FREE"} => stat'[Peer(x)] \in {"CLOSED", "FREE"}
    PROVE  LastWords(x)'
  BY DEF LastWords, OnlySent

\* Writing a packet keeps LastWords, if its sender may still write it.
LEMMA LastWordsSend ==
    ASSUME NEW x \in End, NEW pk, LastWords(x), Len(chan[x]) \in Nat,
           Len(chan'[x]) = Len(chan[x]) + 1,
           \A i \in 1 .. Len(chan[x]) : chan'[x][i] = chan[x][i],
           chan'[x][Len(chan'[x])] = pk,
           ~In(x, "CLOSE"),
           In(x, "CLOSED") => pk.type = "SENT",
           stat[Peer(x)] \in {"CLOSED", "FREE"} => stat'[Peer(x)] \in {"CLOSED", "FREE"},
           pk.type = "CLOSE" => ~Sender(Peer(x))',
           pk.type = "CLOSED" => stat'[Peer(x)] \in {"CLOSED", "FREE"}
    PROVE  LastWords(x)'
<1>1. ASSUME NEW i \in 1 .. Len(chan'[x]), chan'[x][i].type = "CLOSE"
      PROVE  i = Len(chan'[x]) /\ ~Sender(Peer(x))'
  <2>1. i \notin 1 .. Len(chan[x])
    BY <1>1 DEF In
  <2> QED
    BY <1>1, <2>1
<1>2. ASSUME NEW i \in 1 .. Len(chan'[x]), chan'[x][i].type = "CLOSED"
      PROVE  stat'[Peer(x)] \in {"CLOSED", "FREE"} /\ OnlySent(x, i)'
  <2>1. CASE i = Len(chan'[x])
    BY <1>2, <2>1 DEF OnlySent
  <2>2. CASE i # Len(chan'[x])
    <3>1. i \in 1 .. Len(chan[x]) /\ chan[x][i].type = "CLOSED"
      BY <1>2, <2>2
    <3>2. pk.type = "SENT"
      BY <3>1 DEF In
    <3>3. stat[Peer(x)] \in {"CLOSED", "FREE"} /\ OnlySent(x, i)
      BY <3>1 DEF LastWords
    <3>4. ASSUME NEW j \in i + 1 .. Len(chan'[x]) PROVE chan'[x][j].type = "SENT"
      <4>1. CASE j = Len(chan'[x])
        BY <4>1, <3>2
      <4>2. CASE j # Len(chan'[x])
        <5>1. j \in i + 1 .. Len(chan[x]) /\ j \in 1 .. Len(chan[x])
          BY <4>2, <3>1
        <5> QED
          BY <5>1, <3>3 DEF OnlySent
      <4> QED
        BY <4>1, <4>2
    <3> QED
      BY <3>3, <3>4 DEF OnlySent
  <2> QED
    BY <2>1, <2>2
<1> QED
  BY <1>1, <1>2 DEF LastWords

\* Taking the first packet off a channel keeps LastWords.
LEMMA LastWordsTake ==
    ASSUME NEW x \in End, LastWords(x), Len(chan[x]) \in Nat, Len(chan[x]) >= 1,
           Len(chan'[x]) = Len(chan[x]) - 1,
           \A i \in 1 .. Len(chan'[x]) : chan'[x][i] = chan[x][i + 1],
           Sender(Peer(x))' => Sender(Peer(x)),
           stat[Peer(x)] \in {"CLOSED", "FREE"} => stat'[Peer(x)] \in {"CLOSED", "FREE"}
    PROVE  LastWords(x)'
<1>1. ASSUME NEW i \in 1 .. Len(chan'[x])
      PROVE  i + 1 \in 1 .. Len(chan[x]) /\ chan'[x][i] = chan[x][i + 1]
  OBVIOUS
<1>2. ASSUME NEW i \in 1 .. Len(chan'[x]), chan'[x][i].type = "CLOSE"
      PROVE  i = Len(chan'[x]) /\ ~Sender(Peer(x))'
  <2>1. i + 1 = Len(chan[x]) /\ ~Sender(Peer(x))
    BY <1>1, <1>2 DEF LastWords
  <2> QED
    BY <2>1
<1>3. ASSUME NEW i \in 1 .. Len(chan'[x]), chan'[x][i].type = "CLOSED"
      PROVE  stat'[Peer(x)] \in {"CLOSED", "FREE"} /\ OnlySent(x, i)'
  <2>1. stat[Peer(x)] \in {"CLOSED", "FREE"} /\ OnlySent(x, i + 1)
    BY <1>1, <1>3 DEF LastWords
  <2>2. ASSUME NEW j \in i + 1 .. Len(chan'[x]) PROVE chan'[x][j].type = "SENT"
    <3>1. j \in 1 .. Len(chan'[x]) /\ j + 1 \in (i + 1) + 1 .. Len(chan[x])
      OBVIOUS
    <3>2. chan[x][j + 1].type = "SENT"
      BY <2>1, <3>1 DEF OnlySent
    <3> QED
      BY <3>1, <3>2
  <2> QED
    BY <2>1, <2>2 DEF OnlySent
<1> QED
  BY <1>2, <1>3 DEF LastWords

-----------------------------------------------------------------------------
(* Sums over the packets in flight. *)

\* A set of numbers that is not empty has a least one: a claim about the
\* places of a sequence is proved by looking at the first where it fails.
LEMMA LeastNumber ==
    ASSUME NEW S \in SUBSET Nat, S # {}
    PROVE  \E n \in S : \A k \in S : n <= k
<1> DEFINE R == OpToRel(<, Nat)
<1>1. IsWellFoundedOn(R, Nat)
  BY NatLessThanWellFounded, Zenon
<1>2. \A a, b \in Nat : <<a, b>> \in R <=> a < b
  BY DEF OpToRel
<1> HIDE DEF R
<1>3. PICK n \in S : \A k \in S : ~(<<k, n>> \in R)
  BY <1>1, WFMin
<1>4. \A k \in S : ~(k < n)
  BY <1>2, <1>3
<1>5. n \in Nat /\ \A k \in S : k \in Nat
  OBVIOUS
<1>6. \A k \in S : n <= k
  BY <1>4, <1>5
<1> QED
  BY <1>6

\* The sum of the shares of some packets is the way from the position before
\* the first of them to the position after the last.
LEMMA Telescope ==
    ASSUME NEW s \in Seq(Int), NEW pos \in [0 .. Len(s) -> Int],
           \A i \in 1 .. Len(s) : pos[i] = pos[i - 1] + s[i]
    PROVE  Total(s) = pos[Len(s)] - pos[0]
<1> DEFINE n == Len(s)
           sum[i \in 0 .. n] == IF i = 0 THEN 0 ELSE sum[i - 1] + s[i]
           way == [i \in 0 .. n |-> pos[i] - pos[0]]
           Adds(h) == h = [i \in 0 .. n |-> IF i = 0 THEN 0 ELSE h[i - 1] + s[i]]
<1>0. n \in Nat /\ \A i \in 1 .. n : s[i] \in Int
  OBVIOUS
<1>5. Total(s) = sum[n]
  BY DEF Total
<1>6. \A i \in 1 .. n : pos[i] = pos[i - 1] + s[i]
  OBVIOUS
<1>7. pos \in [0 .. n -> Int]
  OBVIOUS
<1> HIDE DEF n
<1>1. Adds(way)
  <2>1. way[0] = 0
    BY <1>0, <1>7
  <2>2. ASSUME NEW i \in 0 .. n, i # 0 PROVE way[i] = way[i - 1] + s[i]
    <3>1. i \in 1 .. n /\ i - 1 \in 0 .. n
      BY <2>2, <1>0
    <3>2. pos[i] = pos[i - 1] + s[i]
      BY <3>1, <1>6
    <3>3. way[i] = pos[i] - pos[0] /\ way[i - 1] = pos[i - 1] - pos[0]
      BY <3>1
    <3>4. pos[0] \in Int /\ pos[i - 1] \in Int /\ s[i] \in Int
      BY <3>1, <1>0, <1>7
    <3> HIDE DEF way
    <3> QED
      BY <3>2, <3>3, <3>4
  <2>3. way = [i \in 0 .. n |-> way[i]]
    OBVIOUS
  <2> HIDE DEF way
  <2> QED
    BY <2>1, <2>2, <2>3
<1>2. sum = CHOOSE h : Adds(h)
  BY DEF sum
<1>3. Adds(sum)
  <2> HIDE DEF Adds, way, sum
  <2> QED
    BY <1>1, <1>2
<1>4. \A i \in 0 .. n : sum[i] = way[i]
  <2> DEFINE Wrong == {i \in 0 .. n : sum[i] # way[i]}
  <2> SUFFICES ASSUME Wrong # {} PROVE FALSE
    OBVIOUS
  <2>1. Wrong \in SUBSET Nat
    BY <1>0
  <2>2. PICK m \in Wrong : \A k \in Wrong : m <= k
    <3> HIDE DEF Wrong
    <3> QED
      BY <2>1, LeastNumber
  <2> HIDE DEF sum, way
  <2>3. m # 0
    BY <2>2, <1>0, <1>1, <1>3
  <2>4. sum[m - 1] = way[m - 1]
    BY <2>2, <2>3, <1>0
  <2> QED
    BY <1>0, <1>1, <1>3, <2>2, <2>3, <2>4
<1> QED
  BY <1>0, <1>4, <1>5 DEF n

\* What is in flight to a Live end, by position: payload from what it has
\* received up to where its peer is, acknowledgements from what it has seen.
LEMMA InFlightSums ==
    ASSUME TypeOK, NEW e \in End, Chain(e), Live(e)
    PROVE  /\ InFlight(e, {"SEND", "SENDOOB"}) = SeqAt(e, Len(chan[e])) - got[e]
           /\ InFlight(e, {"SENT", "SENTOOB"}) = AckAt(e, Len(chan[e])) - gack[e]
<1> DEFINE n == Len(chan[e])
           S == [i \in 1 .. n |-> IF chan[e][i].type \in {"SEND", "SENDOOB"}
                                     THEN chan[e][i].of ELSE 0]
           A == [i \in 1 .. n |-> IF chan[e][i].type \in {"SENT", "SENTOOB"}
                                     THEN chan[e][i].of ELSE 0]
           Seqs == [i \in 0 .. n |-> SeqAt(e, i)]
           Acks == [i \in 0 .. n |-> AckAt(e, i)]
<1>1. n \in Nat /\ got[e] \in Int /\ gack[e] \in Int
  BY Types
<1>2. \A i \in 1 .. n : /\ chan[e][i].of \in Int /\ chan[e][i].seq \in Int
                        /\ chan[e][i].ack \in Int
  <2>1. \A i \in 1 .. n : chan[e][i] \in Packet
    BY Types
  <2>2. \A pk \in Packet : pk.of \in Int /\ pk.seq \in Int /\ pk.ack \in Int
    BY PacketTypes
  <2> QED
    BY <2>1, <2>2
<1>3. S \in Seq(Int) /\ Len(S) = n /\ A \in Seq(Int) /\ Len(A) = n
  <2> HIDE DEF n
  <2> QED
    BY <1>1, <1>2
<1>4. Seqs \in [0 .. n -> Int] /\ Acks \in [0 .. n -> Int]
  <2>1. ASSUME NEW i \in 0 .. n PROVE SeqAt(e, i) \in Int /\ AckAt(e, i) \in Int
    BY <1>1, <1>2 DEF SeqAt, AckAt
  <2> HIDE DEF n
  <2> QED
    BY <2>1
<1>5. /\ InFlight(e, {"SEND", "SENDOOB"}) = Total(S)
      /\ InFlight(e, {"SENT", "SENTOOB"}) = Total(A)
  BY DEF InFlight
<1>6. \A i \in 1 .. n : Seqs[i] = Seqs[i - 1] + S[i] /\ Acks[i] = Acks[i - 1] + A[i]
  <2> SUFFICES ASSUME NEW i \in 1 .. n
               PROVE  Seqs[i] = Seqs[i - 1] + S[i] /\ Acks[i] = Acks[i - 1] + A[i]
    OBVIOUS
  <2>1. S[i] = Carries(chan[e][i]) /\ A[i] = Answers(chan[e][i])
    BY DEF Carries, Answers
  <2>2. /\ SeqAt(e, i) = SeqAt(e, i - 1) + Carries(chan[e][i])
        /\ AckAt(e, i) = AckAt(e, i - 1) + Answers(chan[e][i])
    BY DEF Chain
  <2>3. i \in 0 .. n /\ i - 1 \in 0 .. n
    BY <1>1
  <2>4. /\ Seqs[i] = SeqAt(e, i) /\ Seqs[i - 1] = SeqAt(e, i - 1)
        /\ Acks[i] = AckAt(e, i) /\ Acks[i - 1] = AckAt(e, i - 1)
    BY <2>3
  <2> QED
    BY <2>1, <2>2, <2>4
<1>7. /\ Seqs[n] = SeqAt(e, n) /\ Seqs[0] = got[e]
      /\ Acks[n] = AckAt(e, n) /\ Acks[0] = gack[e]
  BY <1>1 DEF SeqAt, AckAt
<1> HIDE DEF n, S, A, Seqs, Acks
<1>8. Total(S) = Seqs[n] - Seqs[0]
  BY <1>3, <1>4, <1>6, Telescope
<1>9. Total(A) = Acks[n] - Acks[0]
  BY <1>3, <1>4, <1>6, Telescope
<1> QED
  BY <1>5, <1>7, <1>8, <1>9 DEF n
=============================================================================

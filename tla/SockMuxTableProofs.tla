------------------------- MODULE SockMuxTableProofs -------------------------
(***************************************************************************)
(* The ids of a table's agents, for every table size and any number of     *)
(* connections, of either kind.  TypeOK and IdsMatch are inductive         *)
(* together.                                                               *)
(*                                                                         *)
(* Then, for clients by TCP, that packets find the agent they are for and  *)
(* that the agents of the tunnel stay, as long as no table is full.  AInv, *)
(* the inductive invariant, follows the handshake of every connection:     *)
(* what its agents are at the two ends and which packets are between them. *)
(***************************************************************************)
EXTENDS SockMuxTable, FiniteSetTheorems, SequenceTheorems, TLAPS

IInv == TypeOK /\ IdsMatch

\* The ids of the table s.
Laids(s) == {s[i].laid : i \in 1 .. Len(s)}
\* IdsMatch, for one table s with the set a of ids in use.
Match(s, a) ==
    /\ \A i, j \in 1 .. Len(s) : s[i].laid = s[j].laid => i = j
    /\ a = Laids(s) \ {NOAID}

\* IdsMatch says Match of both ends.
LEMMA Matches == IdsMatch <=> \A e \in End : Match(pv[e], aidactive[e])
  BY DEF IdsMatch, Match, Laids

\* A table whose agents keep their ids.
LEMMA SameIds ==
    ASSUME NEW s, NEW t, NEW a, Match(s, a), Len(t) = Len(s),
           \A i \in 1 .. Len(s) : t[i].laid = s[i].laid
    PROVE  Match(t, a)
<1>1. Laids(t) = Laids(s)
  BY DEF Laids
<1> QED
  BY <1>1 DEF Match

\* A table that holds every id and the cleared one too has NSOCK agents.
LEMMA FullTable ==
    ASSUME NEW n \in Nat, NEW f \in [1 .. n -> Aid],
           \A x \in (0 .. NSOCK - 2) \cup {NOAID} : \E i \in 1 .. n : f[i] = x
    PROVE  NSOCK <= n
<1> DEFINE T == {f[i] : i \in 1 .. n}
           U == (0 .. NSOCK - 2) \cup {NOAID}
<1>0. NSOCK \in 4 .. 255 /\ NOAID = 255
  BY TableAssumption DEF NOAID
<1>1. f \in Surjection(1 .. n, T)
  BY DEF Surjection
<1>2. IsFiniteSet(1 .. n) /\ Cardinality(1 .. n) = n
  BY FS_Interval
<1>3. IsFiniteSet(T) /\ Cardinality(T) <= n
  BY <1>1, <1>2, FS_Surjection
<1>4. U \in SUBSET T
  OBVIOUS
<1>5. Cardinality(U) <= Cardinality(T)
  BY <1>3, <1>4, FS_Subset
<1>6. IsFiniteSet(0 .. NSOCK - 2) /\ Cardinality(0 .. NSOCK - 2) = NSOCK - 1
  <2>1. 0 \in Int /\ NSOCK - 2 \in Int /\ ~(0 > NSOCK - 2)
    BY <1>0
  <2>2. /\ IsFiniteSet(0 .. NSOCK - 2)
        /\ Cardinality(0 .. NSOCK - 2) = (NSOCK - 2) - 0 + 1
    BY <2>1, FS_Interval
  <2> QED
    BY <1>0, <2>2
<1>7. NOAID \notin 0 .. NSOCK - 2
  BY <1>0
<1>8. Cardinality(U) = NSOCK
  <2>1. Cardinality(U) = Cardinality(0 .. NSOCK - 2) + 1
    BY <1>6, <1>7, FS_AddElement
  <2> QED
    BY <1>0, <1>6, <2>1
<1>9. IsFiniteSet(U) /\ Cardinality(T) \in Nat
  BY <1>3, <1>6, FS_AddElement, FS_CardinalityType
<1> QED
  BY <1>0, <1>3, <1>5, <1>8, <1>9

\* delAgent: the agents but one, in the order they had.
LEMMA RemoveFacts ==
    ASSUME NEW S, NEW s \in Seq(S), NEW k \in 1 .. Len(s)
    PROVE  /\ RemoveAt(s, k) \in Seq(S)
           /\ Len(RemoveAt(s, k)) = Len(s) - 1
           /\ \A i \in 1 .. Len(s) - 1 :
                RemoveAt(s, k)[i] = IF i < k THEN s[i] ELSE s[i + 1]
<1> DEFINE u == SubSeq(s, 1, k - 1)
           v == SubSeq(s, k + 1, Len(s))
<1>1. u \in Seq(S) /\ Len(u) = k - 1 /\ \A i \in 1 .. k - 1 : u[i] = s[i]
  OBVIOUS
<1>2. /\ v \in Seq(S) /\ Len(v) = Len(s) - k
      /\ \A i \in 1 .. Len(s) - k : v[i] = s[k + i]
  OBVIOUS
<1> HIDE DEF u, v
<1>3. RemoveAt(s, k) = u \o v
  BY DEF RemoveAt, u, v
<1>4. /\ u \o v \in Seq(S) /\ Len(u \o v) = Len(s) - 1
      /\ \A i \in 1 .. Len(s) - 1 :
           (u \o v)[i] = IF i < k THEN u[i] ELSE v[i - (k - 1)]
  <2>1. /\ u \o v \in Seq(S) /\ Len(u \o v) = Len(u) + Len(v)
        /\ \A i \in 1 .. Len(u) + Len(v) :
             (u \o v)[i] = IF i <= Len(u) THEN u[i] ELSE v[i - Len(u)]
    BY <1>1, <1>2, ConcatProperties
  <2> HIDE DEF u, v
  <2>2. k \in Int /\ Len(s) \in Nat /\ Len(u) = k - 1 /\ Len(v) = Len(s) - k
    BY <1>1, <1>2
  <2> QED
    BY <2>1, <2>2
<1>5. ASSUME NEW i \in 1 .. Len(s) - 1
      PROVE  (u \o v)[i] = IF i < k THEN s[i] ELSE s[i + 1]
  <2>1. CASE i < k
    <3>1. i \in 1 .. k - 1
      BY <2>1
    <3> QED
      BY <1>1, <1>4, <2>1, <3>1
  <2>2. CASE ~(i < k)
    <3>1. i - (k - 1) \in 1 .. Len(s) - k /\ k + (i - (k - 1)) = i + 1
      BY <2>2
    <3> QED
      BY <1>2, <1>4, <2>2, <3>1
  <2> QED
    BY <2>1, <2>2
<1> QED
  BY <1>3, <1>4, <1>5

\* Releasing an agent and its id keeps the rest of the table.
LEMMA ReleaseMatch ==
    ASSUME NEW s \in Seq(Agent), NEW a, Match(s, a), NEW k \in 1 .. Len(s)
    PROVE  Match(RemoveAt(s, k), a \ {s[k].laid})
<1> DEFINE t == RemoveAt(s, k)
<1>1. /\ Len(t) = Len(s) - 1 /\ Len(s) \in Nat
      /\ \A i \in 1 .. Len(s) - 1 : t[i] = IF i < k THEN s[i] ELSE s[i + 1]
  BY RemoveFacts
<1> HIDE DEF t
<1>2. ASSUME NEW i \in 1 .. Len(t), NEW j \in 1 .. Len(t), t[i].laid = t[j].laid
      PROVE  i = j
  <2> DEFINE up(x) == IF x < k THEN x ELSE x + 1
  <2>1. /\ t[i] = s[up(i)] /\ t[j] = s[up(j)]
        /\ up(i) \in 1 .. Len(s) /\ up(j) \in 1 .. Len(s)
    BY <1>1
  <2>2. up(i) = up(j)
    BY <1>2, <2>1 DEF Match
  <2> QED
    BY <1>1, <2>2
<1>3. ASSUME NEW x PROVE x \in Laids(t) <=> x \in Laids(s) \ {s[k].laid}
  <2>1. ASSUME NEW i \in 1 .. Len(t), x = t[i].laid
        PROVE  x \in Laids(s) \ {s[k].laid}
    <3>1. PICK j \in 1 .. Len(s) : j # k /\ t[i] = s[j]
      BY <1>1
    <3> QED
      BY <2>1, <3>1 DEF Laids, Match
  <2>2. ASSUME NEW j \in 1 .. Len(s), x = s[j].laid, x # s[k].laid
        PROVE  x \in Laids(t)
    <3>1. j # k
      BY <2>2
    <3>2. PICK i \in 1 .. Len(t) : t[i] = s[j]
      <4>1. CASE j < k
        BY <1>1, <4>1
      <4>2. CASE j > k
        <5>1. j - 1 \in 1 .. Len(s) - 1 /\ ~(j - 1 < k) /\ (j - 1) + 1 = j
          BY <1>1, <4>2
        <5> QED
          BY <1>1, <5>1
      <4> QED
        BY <3>1, <4>1, <4>2
    <3> QED
      BY <2>2, <3>2 DEF Laids
  <2> QED
    BY <2>1, <2>2 DEF Laids
<1> QED
  BY <1>2, <1>3 DEF Match, t

(***************************************************************************)
(* The invariant in three parts that the actions treat alike.              *)
(***************************************************************************)
TablesOK ==
    /\ pv \in [End -> Seq(Agent)]
    /\ \A e \in End : Len(pv[e]) <= NSOCK
    /\ aidactive \in [End -> SUBSET (0 .. NSOCK - 2)]
    /\ nlaid \in [End -> 0 .. NSOCK - 1]
    /\ \A e \in End : Match(pv[e], aidactive[e])
TurnsOK ==
    /\ qfdset \in [End -> BOOLEAN]
    /\ qin \in [End -> SUBSET (1 .. NSOCK)] /\ qout \in [End -> SUBSET (1 .. NSOCK)]
    /\ scan \in [End -> 0 .. NSOCK + 1]
    /\ pos \in [End -> 0 .. 2 * NSOCK]
ChansOK == chan \in [End -> Seq(Packet)]

\* The parts make up the invariant.
LEMMA Parts == IInv <=> TablesOK /\ TurnsOK /\ ChansOK
  BY Matches DEF IInv, TypeOK, TablesOK, TurnsOK, ChansOK

\* The same in the next state.
LEMMA PartsNext == ASSUME TablesOK', TurnsOK', ChansOK' PROVE IInv'
  BY DEF IInv, TypeOK, TablesOK, TurnsOK, ChansOK, IdsMatch, Match, Laids

\* A place of the turn that is done with.
LEMMA TurnDone ==
    ASSUME TurnsOK, NEW e \in End, NEW n \in 0 .. 2 * NSOCK, NEW clear \in BOOLEAN,
           Done(e, n, clear)
    PROVE  TurnsOK'
<1>0. NSOCK \in Nat
  BY TableAssumption
<1>1. qfdset' \in [End -> BOOLEAN]
  BY Zenon DEF TurnsOK, Done
<1>2. pos' \in [End -> 0 .. 2 * NSOCK]
  BY <1>0 DEF TurnsOK, Done
<1> QED
  BY <1>1, <1>2 DEF TurnsOK, Done

\* The places of the turn are within the table.
LEMMA Places ==
    ASSUME TurnsOK, NEW e \in End, NEW k
    PROVE  /\ TurnIn(e, k) => 2 * k \in 0 .. 2 * NSOCK
           /\ TurnOut(e, k) => 2 * k - 1 \in 0 .. 2 * NSOCK
           /\ 4 \in 0 .. 2 * NSOCK
  BY TableAssumption DEF TurnsOK, TurnIn, TurnOut

\* What the channels hold stays packets.
LEMMA ChanSteps ==
    ASSUME ChansOK, NEW e \in End, NEW pk \in Packet
    PROVE  /\ Send(e, pk) => ChansOK'
           /\ chan[e] # <<>> /\ Take(e) => ChansOK'
           /\ chan[e] # <<>> /\ TakeSend(e, pk) => ChansOK'
<1>1. Peer(e) \in End /\ Peer(e) # e
  BY DEF Peer, End
<1>2. \A x \in End : Append(chan[x], pk) \in Seq(Packet)
  BY DEF ChansOK
<1>3. chan[e] # <<>> => Tail(chan[e]) \in Seq(Packet)
  BY DEF ChansOK
<1> QED
  BY <1>1, <1>2, <1>3 DEF ChansOK, Send, Take, TakeSend

\* The first packet is a packet.
LEMMA HeadPacket ==
    ASSUME ChansOK, NEW e \in End, chan[e] # <<>>
    PROVE  /\ Head(chan[e]) \in Packet
           /\ Head(chan[e]).raid \in Aid /\ Head(chan[e]).said \in Aid
           /\ Head(chan[e]).conn \in Conn \cup {NoConn} /\ Head(chan[e]).len \in Nat
<1>1. Head(chan[e]) \in Packet
  BY DEF ChansOK
<1> QED
  BY <1>1 DEF Packet

\* Pack makes a packet.
LEMMA Packs ==
    ASSUME NEW t \in {"CONNECT", "CONNECTED", "SEND", "SENT", "CLOSE", "CLOSED"},
           NEW r \in Aid, NEW s \in Aid, NEW c \in Conn \cup {NoConn}, NEW n \in Nat
    PROVE  Pack(t, r, s, c, n) \in Packet
  BY DEF Pack, Packet

\* The fields of an agent in the table.
LEMMA AgentFields ==
    ASSUME TablesOK, NEW e \in End, NEW k \in 1 .. Len(pv[e])
    PROVE  /\ pv[e][k] \in Agent
           /\ pv[e][k].laid \in Aid /\ pv[e][k].xaid \in Aid
           /\ pv[e][k].stat \in Status /\ pv[e][k].rem \in Nat
           /\ pv[e][k].rpend \in Int /\ pv[e][k].sent \in Nat
           /\ pv[e][k].ludp \in BOOLEAN /\ pv[e][k].conn \in Conn \cup {NoConn}
<1>1. pv[e][k] \in Agent
  BY DEF TablesOK
<1> QED
  BY <1>1 DEF Agent

\* An agent's new status.
LEMMA NewStat ==
    ASSUME NEW a \in Agent, NEW st \in Status
    PROVE  /\ [a EXCEPT !.stat = st] \in Agent
           /\ [a EXCEPT !.stat = st].laid = a.laid
  BY DEF Agent

\* An agent's new buffered output.
LEMMA NewRem ==
    ASSUME NEW a \in Agent, NEW r \in Nat
    PROVE  /\ [a EXCEPT !.rem = r] \in Agent
           /\ [a EXCEPT !.rem = r].laid = a.laid
  BY DEF Agent

\* An agent's new buffered output and status.
LEMMA NewRemStat ==
    ASSUME NEW a \in Agent, NEW st \in Status, NEW r \in Nat
    PROVE  /\ [a EXCEPT !.rem = r, !.stat = st] \in Agent
           /\ [a EXCEPT !.rem = r, !.stat = st].laid = a.laid
  BY DEF Agent

\* An agent's new remote id and status.
LEMMA NewXaid ==
    ASSUME NEW a \in Agent, NEW st \in Status, NEW x \in Aid
    PROVE  /\ [a EXCEPT !.xaid = x, !.stat = st] \in Agent
           /\ [a EXCEPT !.xaid = x, !.stat = st].laid = a.laid
  BY DEF Agent

\* An agent's new pending count and status.
LEMMA NewPend ==
    ASSUME NEW a \in Agent, NEW st \in Status, NEW p \in Int
    PROVE  /\ [a EXCEPT !.rpend = p, !.stat = st] \in Agent
           /\ [a EXCEPT !.rpend = p, !.stat = st].laid = a.laid
  BY DEF Agent

\* An agent's new counts of what it sent, and status.
LEMMA NewSent ==
    ASSUME NEW a \in Agent, NEW st \in Status, NEW n \in Nat, NEW p \in Int
    PROVE  /\ [a EXCEPT !.sent = n, !.rpend = p, !.stat = st] \in Agent
           /\ [a EXCEPT !.sent = n, !.rpend = p, !.stat = st].laid = a.laid
  BY DEF Agent

\* An agent that has been heard of.
LEMMA HeardAgent ==
    ASSUME NEW a \in Agent
    PROVE  /\ Heard(a) \in Agent /\ Heard(a).laid = a.laid
           /\ Heard(a).stat = a.stat
  BY DEF Heard, Agent

\* An agent that changes, but for its id.
LEMMA SetTables ==
    ASSUME TablesOK, NEW e \in End, NEW k \in 1 .. Len(pv[e]), NEW b \in Agent,
           b.laid = pv[e][k].laid, SetAgent(e, k, b), UNCHANGED <<aidactive, nlaid>>
    PROVE  TablesOK'
<1> DEFINE t == [pv[e] EXCEPT ![k] = b]
<1>1. pv' = [pv EXCEPT ![e] = t]
  BY DEF SetAgent, TablesOK
<1>2. t \in Seq(Agent) /\ Len(t) = Len(pv[e])
  BY DEF TablesOK
<1>3. \A i \in 1 .. Len(pv[e]) : t[i].laid = pv[e][i].laid
  BY DEF TablesOK
<1> HIDE DEF t
<1>4. Match(t, aidactive[e])
  BY <1>2, <1>3, SameIds DEF TablesOK
<1>5. /\ pv' \in [End -> Seq(Agent)]
      /\ \A x \in End : pv'[x] = IF x = e THEN t ELSE pv[x]
  BY <1>1, <1>2 DEF TablesOK
<1>6. \A x \in End : Len(pv'[x]) <= NSOCK
  BY <1>2, <1>5 DEF TablesOK
<1>7. \A x \in End : Match(pv'[x], aidactive'[x])
  BY <1>4, <1>5 DEF TablesOK
<1> QED
  BY <1>5, <1>6, <1>7 DEF TablesOK

\* sweepAgents keeps ids and places.
LEMMA SweepFacts ==
    ASSUME NEW s \in Seq(Agent)
    PROVE  /\ Sweep(s) \in Seq(Agent) /\ Len(Sweep(s)) = Len(s)
           /\ \A i \in 1 .. Len(s) : Sweep(s)[i].laid = s[i].laid
<1>1. ASSUME NEW i \in 1 .. Len(s)
      PROVE  /\ [s[i] EXCEPT !.stat = "CLOSED"] \in Agent
             /\ [s[i] EXCEPT !.stat = "CLOSED"].laid = s[i].laid
  <2>1. s[i] \in Agent
    OBVIOUS
  <2> QED
    BY <2>1 DEF Agent, Status, Closing
<1>2. \A i \in 1 .. Len(s) : Sweep(s)[i] \in Agent /\ Sweep(s)[i].laid = s[i].laid
  BY <1>1 DEF Sweep
<1>3. Sweep(s) \in [1 .. Len(s) -> Agent] /\ Len(s) \in Nat
  BY <1>1 DEF Sweep
<1> QED
  BY <1>2, <1>3

\* A new agent with an id that no agent of the table has.
LEMMA AddMatch ==
    ASSUME NEW s \in Seq(Agent), NEW a, Match(s, a), NEW b \in Agent,
           b.laid \notin Laids(s)
    PROVE  Match(Append(s, b), IF b.laid = NOAID THEN a ELSE a \cup {b.laid})
<1> DEFINE t == Append(s, b)
<1>1. /\ Len(t) = Len(s) + 1 /\ Len(s) \in Nat /\ t[Len(s) + 1] = b
      /\ \A i \in 1 .. Len(s) : t[i] = s[i]
  OBVIOUS
<1> HIDE DEF t
<1>2. \A i \in 1 .. Len(t) : i \in 1 .. Len(s) \/ i = Len(s) + 1
  BY <1>1
<1>3. \A i, j \in 1 .. Len(t) : t[i].laid = t[j].laid => i = j
  BY <1>1, <1>2 DEF Match, Laids
<1>4. Laids(t) = Laids(s) \cup {b.laid}
  BY <1>1, <1>2 DEF Laids
<1> QED
  BY <1>3, <1>4 DEF Match, t

\* The id that newlaid gives no agent has; when it gives none, NOAID is free:
\* the table, which is not full, would otherwise hold NSOCK agents.
LEMMA NewlaidFresh ==
    ASSUME NEW s \in Seq(Agent), NEW a, Match(s, a), Len(s) < NSOCK,
           NEW n \in 0 .. NSOCK - 1, NEW id \in -1 .. NSOCK - 2, Newlaid(a, n, id)
    PROVE  (IF id = -1 THEN NOAID ELSE id) \notin Laids(s)
<1>0. NSOCK \in 4 .. 255 /\ NOAID = 255
  BY TableAssumption DEF NOAID
<1>1. CASE id # -1
  <2>1. id \notin a /\ id # NOAID
    BY <1>0, <1>1 DEF Newlaid
  <2> QED
    BY <1>1, <2>1 DEF Match
<1>2. CASE id = -1
  <2>1. 0 .. NSOCK - 2 \subseteq a
    BY <1>0, <1>2 DEF Newlaid
  <2>2. SUFFICES ASSUME NOAID \in Laids(s) PROVE FALSE
    BY <1>2
  <2> DEFINE f == [i \in 1 .. Len(s) |-> s[i].laid]
  <2>3. Len(s) \in Nat /\ f \in [1 .. Len(s) -> Aid]
    <3>1. \A i \in 1 .. Len(s) : s[i] \in Agent
      OBVIOUS
    <3>2. \A i \in 1 .. Len(s) : s[i].laid \in Aid
      BY <3>1 DEF Agent
    <3> QED
      BY <3>2
  <2>4. \A x \in (0 .. NSOCK - 2) \cup {NOAID} : \E i \in 1 .. Len(s) : f[i] = x
    BY <2>1, <2>2 DEF Match, Laids
  <2>5. NSOCK <= Len(s)
    BY <2>3, <2>4, FullTable
  <2> QED
    BY <1>0, <2>3, <2>5
<1> QED
  BY <1>1, <1>2

\* newAgent, in a table whose agents have only been heard of.
LEMMA MakeTables ==
    ASSUME TablesOK, NEW e \in End, NEW s \in Seq(Agent), Len(s) = Len(pv[e]),
           \A i \in 1 .. Len(s) : s[i].laid = pv[e][i].laid,
           NEW aid \in Aid, NEW x \in Aid, NEW st \in Status, NEW u \in BOOLEAN,
           NEW c \in Conn \cup {NoConn}, MakeAgent(e, s, aid, x, st, u, c)
    PROVE  TablesOK'
<1>0. NSOCK \in 4 .. 255 /\ NOAID = 255
  BY TableAssumption DEF NOAID
<1>1. /\ Sweep(s) \in Seq(Agent) /\ Len(Sweep(s)) = Len(pv[e])
      /\ \A i \in 1 .. Len(pv[e]) : Sweep(s)[i].laid = pv[e][i].laid
  BY SweepFacts
<1>2. Match(pv[e], aidactive[e]) /\ Len(pv[e]) <= NSOCK
  BY DEF TablesOK
<1>3. Match(Sweep(s), aidactive[e])
  BY <1>1, <1>2, SameIds
<1>4. SUFFICES ASSUME NEW t \in Seq(Agent), NEW a \in SUBSET (0 .. NSOCK - 2),
                      Match(t, a), Len(t) <= NSOCK,
                      pv' = [pv EXCEPT ![e] = t],
                      aidactive' = [aidactive EXCEPT ![e] = a],
                      nlaid' \in [End -> 0 .. NSOCK - 1]
               PROVE  TablesOK'
  <2>1. CASE Len(s) = NSOCK
    <3>1. /\ pv' = [pv EXCEPT ![e] = Sweep(s)]
          /\ aidactive' = aidactive /\ nlaid' = nlaid
      BY <1>0, <2>1 DEF MakeAgent
    <3>2. /\ aidactive' = [aidactive EXCEPT ![e] = aidactive[e]]
          /\ aidactive[e] \in SUBSET (0 .. NSOCK - 2)
          /\ nlaid' \in [End -> 0 .. NSOCK - 1]
      BY <3>1 DEF TablesOK
    <3> QED
      BY <1>1, <1>2, <1>3, <1>4, <3>1, <3>2
  <2>2. CASE Len(s) # NSOCK
    <3> DEFINE b == NewAgent(aid, x, st, u, c)
               t == Append(Sweep(s), b)
    <3>1. /\ Len(s) < NSOCK
          /\ pv' = [pv EXCEPT ![e] = t]
      BY <2>2 DEF MakeAgent
    <3>2. PICK id \in -1 .. NSOCK - 2 :
            /\ Newlaid(aidactive[e], nlaid[e], id)
            /\ aid = IF id = -1 THEN NOAID ELSE id
            /\ aidactive' = [aidactive EXCEPT ![e] =
                               IF id = -1 THEN @ ELSE @ \cup {id}]
            /\ nlaid' = [nlaid EXCEPT ![e] = IF id = -1 THEN @ ELSE id + 1]
      BY <2>2 DEF MakeAgent
    <3> DEFINE a == IF id = -1 THEN aidactive[e] ELSE aidactive[e] \cup {id}
    <3>3. b \in Agent /\ b.laid = aid
      BY DEF NewAgent, Agent
    <3>4. aid \notin Laids(Sweep(s))
      BY <1>1, <1>3, <3>1, <3>2, NewlaidFresh DEF TablesOK
    <3>5. a = IF aid = NOAID THEN aidactive[e] ELSE aidactive[e] \cup {aid}
      <4>1. id # NOAID
        <5>1. id \in Int /\ id < 255
          BY <1>0
        <5>2. id # 255
          BY <5>1
        <5> QED
          BY <1>0, <5>2
      <4> QED
        BY <3>2, <4>1
    <3>6. Match(t, a)
      <4>1. Match(t, IF b.laid = NOAID THEN aidactive[e]
                                       ELSE aidactive[e] \cup {b.laid})
        BY <1>1, <1>3, <3>3, <3>4, AddMatch
      <4> QED
        BY <3>3, <3>5, <4>1
    <3>7. t \in Seq(Agent) /\ Len(t) <= NSOCK
      BY <1>0, <1>1, <3>1, <3>3
    <3>8. /\ aidactive' = [aidactive EXCEPT ![e] = a]
          /\ a \in SUBSET (0 .. NSOCK - 2)
      BY <1>0, <3>2 DEF TablesOK
    <3>9. nlaid' \in [End -> 0 .. NSOCK - 1]
      BY <1>0, <3>2 DEF TablesOK
    <3> QED
      BY <1>4, <3>1, <3>6, <3>7, <3>8, <3>9
  <2> QED
    BY <2>1, <2>2
<1>5. /\ pv' \in [End -> Seq(Agent)]
      /\ aidactive' \in [End -> SUBSET (0 .. NSOCK - 2)]
      /\ \A y \in End : /\ pv'[y] = IF y = e THEN t ELSE pv[y]
                        /\ aidactive'[y] = IF y = e THEN a ELSE aidactive[y]
  BY <1>4 DEF TablesOK
<1>6. \A y \in End : Len(pv'[y]) <= NSOCK
  BY <1>4, <1>5 DEF TablesOK
<1>7. \A y \in End : Match(pv'[y], aidactive'[y])
  BY <1>4, <1>5 DEF TablesOK
<1> QED
  BY <1>4, <1>5, <1>6, <1>7 DEF TablesOK

(***************************************************************************)
(* One lemma per action.                                                   *)
(***************************************************************************)
\* delAgent in sox_fdset.
LEMMA FdsetFreeInv ==
    ASSUME IInv, NEW e \in End, NEW k \in 1 .. Len(pv[e]), FdsetFree(e, k)
    PROVE  IInv'
<1>0. NSOCK \in 4 .. 255 /\ TablesOK /\ TurnsOK /\ ChansOK
  BY TableAssumption, Parts
<1> DEFINE t == RemoveAt(pv[e], k)
           a == aidactive[e] \ {pv[e][k].laid}
<1>1. /\ pv[e] \in Seq(Agent) /\ Len(pv[e]) <= NSOCK
      /\ Match(pv[e], aidactive[e]) /\ Len(pv[e]) \in Nat
  BY <1>0 DEF TablesOK
<1>2. t \in Seq(Agent) /\ Len(t) = Len(pv[e]) - 1
  BY <1>1, RemoveFacts
<1>3. Match(t, a)
  BY <1>1, ReleaseMatch
<1>4. /\ pv' = [pv EXCEPT ![e] = t] /\ aidactive' = [aidactive EXCEPT ![e] = a]
      /\ scan' = [scan EXCEPT ![e] = k + 1]
      /\ nlaid' = nlaid /\ qfdset' = qfdset /\ qin' = qin /\ qout' = qout
      /\ pos' = pos /\ chan' = chan
  BY DEF FdsetFree
<1> HIDE DEF t
<1>5. /\ pv' \in [End -> Seq(Agent)]
      /\ aidactive' \in [End -> SUBSET (0 .. NSOCK - 2)]
      /\ \A x \in End : /\ pv'[x] = IF x = e THEN t ELSE pv[x]
                        /\ aidactive'[x] = IF x = e THEN a ELSE aidactive[x]
  BY <1>0, <1>2, <1>4 DEF TablesOK
<1>6. ASSUME NEW x \in End PROVE Len(pv'[x]) <= NSOCK
  <2>1. Len(t) <= NSOCK
    BY <1>0, <1>1, <1>2
  <2>2. Len(pv[x]) <= NSOCK
    BY <1>0 DEF TablesOK
  <2> QED
    BY <1>5, <2>1, <2>2
<1>7. \A x \in End : Match(pv'[x], aidactive'[x])
  BY <1>0, <1>3, <1>5 DEF TablesOK
<1>8. TablesOK'
  BY <1>0, <1>4, <1>5, <1>6, <1>7 DEF TablesOK
<1>9. TurnsOK'
  <2>1. k + 1 \in 0 .. NSOCK + 1
    BY <1>0, <1>1
  <2> QED
    BY <1>0, <1>4, <2>1 DEF TurnsOK
<1> QED
  BY <1>0, <1>4, <1>8, <1>9, PartsNext DEF ChansOK

\* The end of sox_fdset.
LEMMA FdsetDoneInv == ASSUME IInv, NEW e \in End, FdsetDone(e) PROVE IInv'
<1>0. NSOCK \in 4 .. 255 /\ TablesOK /\ TurnsOK /\ ChansOK
  BY TableAssumption, Parts
<1>1. 1 .. Len(pv[e]) \subseteq 1 .. NSOCK
  <2>1. Len(pv[e]) \in Nat /\ Len(pv[e]) <= NSOCK
    BY <1>0 DEF TablesOK
  <2> QED
    BY <1>0, <2>1
<1>2. /\ pv' = pv /\ aidactive' = aidactive /\ nlaid' = nlaid /\ chan' = chan
      /\ qfdset' = [qfdset EXCEPT ![e] = TRUE]
      /\ scan' = [scan EXCEPT ![e] = 0] /\ pos' = [pos EXCEPT ![e] = 0]
  BY DEF FdsetDone, table
<1>3. qin' \in [End -> SUBSET (1 .. NSOCK)] /\ qout' \in [End -> SUBSET (1 .. NSOCK)]
  BY <1>0, <1>1 DEF FdsetDone, TurnsOK
<1>4. qfdset' \in [End -> BOOLEAN]
  BY <1>0, <1>2, Zenon DEF TurnsOK
<1>5. scan' \in [End -> 0 .. NSOCK + 1] /\ pos' \in [End -> 0 .. 2 * NSOCK]
  BY <1>0, <1>2 DEF TurnsOK
<1>6. TurnsOK'
  BY <1>3, <1>4, <1>5 DEF TurnsOK
<1>7. TablesOK' /\ ChansOK'
  BY <1>0, <1>2 DEF TablesOK, ChansOK
<1> QED
  BY <1>6, <1>7, PartsNext

\* The ids that agents get fit into an Aid.
LEMMA IdsAreAids == \A aid \in Ids : aid \in Aid
  BY TableAssumption DEF Ids, Aid, NOAID

\* A client is accepted.
LEMMA AcceptInv ==
    ASSUME IInv, NEW e \in End, NEW k \in 1 .. Len(pv[e]), NEW c \in Conn, Accept(e, k, c)
    PROVE  IInv'
<1>0. TablesOK /\ TurnsOK /\ ChansOK /\ NOAID \in Aid
  BY Parts DEF NOAID, Aid
<1>1. TurnIn(e, k) /\ Done(e, 2 * k, TRUE)
  BY DEF Accept
<1>2. TurnsOK'
  BY <1>0, <1>1, Places, TurnDone
<1>3. PICK aid \in Aid :
        /\ MakeAgent(e, pv[e], aid, NOAID, "CONNECT", c \in UDP, c)
        /\ Send(e, Pack("CONNECT", NOAID, aid, c, 0))
  BY IdsAreAids DEF Accept
<1>4. TablesOK'
  <2>1. pv[e] \in Seq(Agent) /\ "CONNECT" \in Status /\ (c \in UDP) \in BOOLEAN
    BY <1>0 DEF TablesOK, Status
  <2> QED
    BY <1>0, <1>3, <2>1, MakeTables
<1>5. ChansOK'
  BY <1>0, <1>3, Packs, ChanSteps
<1> QED
  BY <1>2, <1>4, <1>5, PartsNext

\* Input of a closing agent.
LEMMA RelayIgnoredInv ==
    ASSUME IInv, NEW e \in End, NEW k \in 1 .. Len(pv[e]), RelayIgnored(e, k)
    PROVE  IInv'
<1>0. TablesOK /\ TurnsOK /\ ChansOK
  BY Parts
<1>1. TurnIn(e, k) /\ Done(e, 2 * k, TRUE) /\ UNCHANGED <<pv, aidactive, nlaid, chan>>
  BY DEF RelayIgnored, table
<1>2. TurnsOK'
  BY <1>0, <1>1, Places, TurnDone
<1>3. TablesOK' /\ ChansOK'
  BY <1>0, <1>1 DEF TablesOK, ChansOK
<1> QED
  BY <1>2, <1>3, PartsNext

\* A step that changes one agent and writes a packet.
LEMMA LocalStep ==
    ASSUME IInv, TurnsOK', NEW e \in End, NEW k \in 1 .. Len(pv[e]), NEW b \in Agent,
           b.laid = pv[e][k].laid, SetAgent(e, k, b), UNCHANGED <<aidactive, nlaid>>,
           NEW pk \in Packet, Send(e, pk)
    PROVE  IInv'
<1>1. TablesOK /\ ChansOK
  BY Parts
<1> QED
  BY <1>1, SetTables, ChanSteps, PartsNext

\* Output is flushed.
LEMMA FlushInv ==
    ASSUME IInv, NEW e \in End, NEW k \in 1 .. Len(pv[e]), Flush(e, k)
    PROVE  IInv'
<1>0. TablesOK /\ TurnsOK /\ ChansOK
  BY Parts
<1>1. TurnOut(e, k) /\ Done(e, 2 * k - 1, TRUE) /\ UNCHANGED <<aidactive, nlaid>>
  BY DEF Flush
<1>2. TurnsOK'
  BY <1>0, <1>1, Places, TurnDone
<1> DEFINE a == pv[e][k]
<1>3. PICK w \in 1 .. a.rem :
        /\ SetAgent(e, k, [a EXCEPT
             !.rem = @ - w, !.stat = IF @ = "CLOSED" THEN @ ELSE "OPEN"])
        /\ Send(e, Pack("SENT", a.xaid, a.laid, a.conn, w))
  BY DEF Flush
<1>4. PICK r \in Nat : r = a.rem
  BY <1>0, AgentFields
<1>5. w \in Nat /\ r - w \in Nat
  BY <1>3, <1>4
<1> DEFINE st == IF a.stat = "CLOSED" THEN a.stat ELSE "OPEN"
           b == [a EXCEPT !.rem = r - w, !.stat = st]
<1>6. b \in Agent /\ b.laid = a.laid
  <2>1. a \in Agent /\ st \in Status
    BY <1>0, AgentFields DEF Status
  <2> HIDE DEF a, st
  <2> QED
    BY <1>5, <2>1, NewRemStat
<1>7. SetAgent(e, k, b)
  BY <1>3, <1>4
<1>8. Pack("SENT", a.xaid, a.laid, a.conn, w) \in Packet
  BY <1>0, <1>5, AgentFields, Packs
<1> QED
  BY <1>1, <1>2, <1>3, <1>6, <1>7, <1>8, LocalStep

\* Input is relayed.
LEMMA RelayInv ==
    ASSUME IInv, NEW e \in End, NEW k \in 1 .. Len(pv[e]), Relay(e, k)
    PROVE  IInv'
<1>0. TablesOK /\ TurnsOK /\ ChansOK
  BY Parts
<1>1. TurnIn(e, k) /\ Done(e, 2 * k, TRUE) /\ UNCHANGED <<aidactive, nlaid>>
  BY DEF Relay
<1>2. TurnsOK'
  BY <1>0, <1>1, Places, TurnDone
<1> DEFINE a == pv[e][k]
           st == IF a.rpend + 1 < 0 THEN "SENDING" ELSE "OPEN"
           b == [a EXCEPT !.sent = a.sent + 1, !.rpend = a.rpend + 1, !.stat = st]
<1>3. SetAgent(e, k, b) /\ Send(e, Pack("SEND", a.xaid, a.laid, a.conn, 1))
  BY DEF Relay
<1>4. b \in Agent /\ b.laid = a.laid
  <2>1. a.sent + 1 \in Nat /\ a.rpend + 1 \in Int
    BY <1>0, AgentFields
  <2>2. a \in Agent /\ st \in Status
    BY <1>0, AgentFields DEF Status
  <2> HIDE DEF a, st
  <2> QED
    BY <2>1, <2>2, NewSent
<1>5. Pack("SEND", a.xaid, a.laid, a.conn, 1) \in Packet
  BY <1>0, AgentFields, Packs
<1> QED
  BY <1>1, <1>2, <1>3, <1>4, <1>5, LocalStep

\* End of file.
LEMMA RelayEofInv ==
    ASSUME IInv, NEW e \in End, NEW k \in 1 .. Len(pv[e]), RelayEof(e, k)
    PROVE  IInv'
<1>0. TablesOK /\ TurnsOK /\ ChansOK
  BY Parts
<1>1. TurnIn(e, k) /\ Done(e, 2 * k, TRUE) /\ UNCHANGED <<aidactive, nlaid>>
  BY DEF RelayEof
<1>2. TurnsOK'
  BY <1>0, <1>1, Places, TurnDone
<1> DEFINE a == pv[e][k]
           b == [a EXCEPT !.rem = 0, !.stat = "CLOSE"]
<1>3. SetAgent(e, k, b) /\ Send(e, Pack("CLOSE", a.xaid, a.laid, a.conn, 0))
  BY DEF RelayEof
<1>4. b \in Agent /\ b.laid = a.laid
  <2>1. a \in Agent /\ "CLOSE" \in Status
    BY <1>0, AgentFields DEF Status, Closing
  <2> HIDE DEF a
  <2> QED
    BY <2>1, NewRemStat
<1>5. Pack("CLOSE", a.xaid, a.laid, a.conn, 0) \in Packet
  BY <1>0, AgentFields, Packs
<1> QED
  BY <1>1, <1>2, <1>3, <1>4, <1>5, LocalStep

\* Time passes.
LEMMA AgeInv ==
    ASSUME IInv, NEW e \in End, NEW k \in 1 .. Len(pv[e]), Age(e, k)
    PROVE  IInv'
<1>0. TablesOK /\ TurnsOK /\ ChansOK
  BY Parts
<1> DEFINE b == [pv[e][k] EXCEPT !.time = "old"]
<1>1. SetAgent(e, k, b) /\ UNCHANGED <<aidactive, nlaid>>
      /\ UNCHANGED <<qfdset, qin, qout, scan, pos, chan>>
  BY DEF Age, turn
<1>2. b \in Agent /\ b.laid = pv[e][k].laid
  BY <1>0, AgentFields DEF Agent
<1>3. TablesOK'
  BY <1>0, <1>1, <1>2, SetTables
<1>4. TurnsOK' /\ ChansOK'
  BY <1>0, <1>1 DEF TurnsOK, ChansOK
<1> QED
  BY <1>3, <1>4, PartsNext

(***************************************************************************)
(* Packets.                                                                *)
(***************************************************************************)
\* What all the actions of sox_COMMIN start from.
LEMMA RecvFacts ==
    ASSUME IInv, NEW e \in End, NEW t, Recv(e, t)
    PROVE  /\ TablesOK /\ TurnsOK /\ ChansOK /\ chan[e] # <<>>
           /\ Head(chan[e]).raid \in Aid /\ Head(chan[e]).said \in Aid
           /\ Head(chan[e]).conn \in Conn \cup {NoConn} /\ Head(chan[e]).len \in Nat
           /\ NOAID \in Aid
<1>1. TablesOK /\ TurnsOK /\ ChansOK /\ chan[e] # <<>>
  BY Parts DEF Recv
<1> QED
  BY <1>1, HeadPacket DEF NOAID, Aid

\* The packet is taken, or taken and answered; COMMIN's place is done with.
LEMMA RecvStep ==
    ASSUME IInv, NEW e \in End, chan[e] # <<>>, NEW clear \in BOOLEAN, DoneIn(e, clear),
           NEW pk \in Packet, Take(e) \/ TakeSend(e, pk), TablesOK'
    PROVE  IInv'
<1>1. TurnsOK /\ ChansOK
  BY Parts
<1>2. TurnsOK'
  BY <1>1, Places, TurnDone DEF DoneIn
<1>3. ChansOK'
  BY <1>1, ChanSteps
<1> QED
  BY <1>2, <1>3, PartsNext

\* The packet is dropped.
LEMMA RecvIgnoredInv ==
    ASSUME IInv, NEW e \in End, NEW t, RecvIgnored(e, t) PROVE IInv'
<1>0. /\ Recv(e, t) /\ Take(e) /\ DoneIn(e, FALSE)
      /\ UNCHANGED <<aidactive, nlaid>>
  BY DEF RecvIgnored
<1>1. TablesOK /\ chan[e] # <<>> /\ Head(chan[e]) \in Packet
  BY <1>0, RecvFacts, HeadPacket
<1>2. TablesOK'
  <2>1. CASE pv' = pv
    BY <1>0, <1>1, <2>1 DEF TablesOK
  <2>2. CASE \E j \in 1 .. Len(pv[e]) : SetAgent(e, j, Heard(pv[e][j]))
    BY <1>0, <1>1, <2>2, AgentFields, HeardAgent, SetTables
  <2> QED
    BY <2>1, <2>2 DEF RecvIgnored
<1> QED
  BY <1>0, <1>1, <1>2, RecvStep

\* What newAgent finds when a CONNECT is handled.
LEMMA HeardTable ==
    ASSUME TablesOK, NEW e \in End
    PROVE  /\ HeardBy(e) \in Seq(Agent) /\ Len(HeardBy(e)) = Len(pv[e])
           /\ \A i \in 1 .. Len(pv[e]) : HeardBy(e)[i].laid = pv[e][i].laid
<1>1. pv[e] \in Seq(Agent) /\ Len(pv[e]) \in Nat
  BY DEF TablesOK
<1>2. \A i \in 1 .. Len(pv[e]) : /\ HeardBy(e)[i] \in Agent
                                 /\ HeardBy(e)[i].laid = pv[e][i].laid
  <2> SUFFICES ASSUME NEW i \in 1 .. Len(pv[e])
               PROVE  HeardBy(e)[i] \in Agent /\ HeardBy(e)[i].laid = pv[e][i].laid
    OBVIOUS
  <2>1. HeardBy(e)[i] = IF Finds(e, i) THEN Heard(pv[e][i]) ELSE pv[e][i]
    BY DEF HeardBy
  <2>2. pv[e][i] \in Agent
    BY AgentFields
  <2> QED
    BY <2>1, <2>2, HeardAgent
<1>3. HeardBy(e) \in [1 .. Len(pv[e]) -> Agent]
  BY <1>2 DEF HeardBy
<1> QED
  BY <1>1, <1>2, <1>3

\* A connection asked for by the peer.
LEMMA RecvConnectInv == ASSUME IInv, NEW e \in End, RecvConnect(e) PROVE IInv'
<1> DEFINE m == Head(chan[e])
<1>0. Recv(e, "CONNECT") /\ DoneIn(e, TRUE)
  BY DEF RecvConnect
<1>1. /\ TablesOK /\ chan[e] # <<>> /\ m.said \in Aid
      /\ m.conn \in Conn \cup {NoConn}
  BY <1>0, RecvFacts
<1>2. PICK aid \in Aid :
        /\ MakeAgent(e, HeardBy(e), aid, m.said, "OPEN", FALSE, m.conn)
        /\ TakeSend(e, Pack("CONNECTED", m.said, aid, m.conn, 0))
  BY IdsAreAids DEF RecvConnect
<1> HIDE DEF m
<1>3. TablesOK'
  <2>1. "OPEN" \in Status /\ FALSE \in BOOLEAN
    BY DEF Status
  <2> QED
    BY <1>1, <1>2, <2>1, HeardTable, MakeTables
<1>4. Pack("CONNECTED", m.said, aid, m.conn, 0) \in Packet
  BY <1>1, Packs
<1> QED
  BY <1>0, <1>1, <1>2, <1>3, <1>4, RecvStep

\* A connection that cannot be made.
LEMMA RecvConnectFailInv ==
    ASSUME IInv, NEW e \in End, RecvConnectFail(e) PROVE IInv'
<1> DEFINE m == Head(chan[e])
           t == HeardBy(e)
<1>0. /\ Recv(e, "CONNECT") /\ DoneIn(e, FALSE)
      /\ TakeSend(e, Pack("CLOSE", m.said, NOAID, m.conn, 0))
      /\ pv' = [pv EXCEPT ![e] = t] /\ UNCHANGED <<aidactive, nlaid>>
  BY DEF RecvConnectFail
<1>1. /\ TablesOK /\ chan[e] # <<>> /\ m.said \in Aid /\ NOAID \in Aid
      /\ m.conn \in Conn \cup {NoConn}
  BY <1>0, RecvFacts
<1>2. /\ t \in Seq(Agent) /\ Len(t) = Len(pv[e])
      /\ \A i \in 1 .. Len(pv[e]) : t[i].laid = pv[e][i].laid
  BY <1>1, HeardTable
<1> HIDE DEF m, t
<1>3. Match(t, aidactive[e])
  BY <1>1, <1>2, SameIds DEF TablesOK
<1>4. /\ pv' \in [End -> Seq(Agent)]
      /\ \A x \in End : pv'[x] = IF x = e THEN t ELSE pv[x]
  BY <1>0, <1>1, <1>2 DEF TablesOK
<1>5. \A x \in End : Len(pv'[x]) <= NSOCK /\ Match(pv'[x], aidactive'[x])
  BY <1>0, <1>1, <1>2, <1>3, <1>4 DEF TablesOK
<1>6. TablesOK'
  BY <1>0, <1>1, <1>4, <1>5 DEF TablesOK
<1>7. Pack("CLOSE", m.said, NOAID, m.conn, 0) \in Packet
  BY <1>1, Packs
<1> QED
  BY <1>0, <1>1, <1>6, <1>7, RecvStep

\* The answer to CONNECT.
LEMMA RecvConnectedInv == ASSUME IInv, NEW e \in End, RecvConnected(e) PROVE IInv'
<1> DEFINE m == Head(chan[e])
<1>0. /\ Recv(e, "CONNECTED") /\ Take(e) /\ DoneIn(e, TRUE)
      /\ UNCHANGED <<aidactive, nlaid>>
  BY DEF RecvConnected
<1>1. TablesOK /\ chan[e] # <<>> /\ m.said \in Aid /\ Head(chan[e]) \in Packet
  BY <1>0, RecvFacts, HeadPacket
<1>2. PICK j \in 1 .. Len(pv[e]) :
        SetAgent(e, j, [Heard(pv[e][j]) EXCEPT !.xaid = m.said, !.stat = "OPEN"])
  BY DEF RecvConnected
<1> DEFINE h == Heard(pv[e][j])
<1>3. h \in Agent /\ h.laid = pv[e][j].laid /\ "OPEN" \in Status
  BY <1>1, AgentFields, HeardAgent DEF Status
<1> HIDE DEF h, m
<1>4. /\ [h EXCEPT !.xaid = m.said, !.stat = "OPEN"] \in Agent
      /\ [h EXCEPT !.xaid = m.said, !.stat = "OPEN"].laid = pv[e][j].laid
  BY <1>1, <1>3, NewXaid
<1>5. TablesOK'
  BY <1>0, <1>1, <1>2, <1>4, SetTables DEF h
<1> QED
  BY <1>0, <1>1, <1>5, RecvStep

\* Data.
LEMMA RecvSendInv == ASSUME IInv, NEW e \in End, RecvSend(e) PROVE IInv'
<1> DEFINE m == Head(chan[e])
<1>0. Recv(e, "SEND") /\ UNCHANGED <<aidactive, nlaid>>
  BY DEF RecvSend
<1>1. /\ TablesOK /\ chan[e] # <<>> /\ m.said \in Aid /\ m.raid \in Aid
      /\ m.conn \in Conn \cup {NoConn} /\ m.len \in Nat /\ m \in Packet
  BY <1>0, RecvFacts, HeadPacket
<1>2. PICK j \in 1 .. Len(pv[e]) : \E w \in 0 .. pv[e][j].rem + m.len :
        /\ SetAgent(e, j, [Heard(pv[e][j]) EXCEPT !.rem = pv[e][j].rem + m.len - w])
        /\ IF w = 0 THEN Take(e)
             ELSE TakeSend(e, Pack("SENT", m.said, m.raid, m.conn, w))
        /\ DoneIn(e, IF pv[e][j].rem > 0 THEN w >= pv[e][j].rem ELSE w < m.len)
  BY DEF RecvSend
<1> DEFINE h == Heard(pv[e][j])
<1>3. PICK r \in Nat : r = pv[e][j].rem
  BY <1>1, AgentFields
<1>4. h \in Agent /\ h.laid = pv[e][j].laid /\ "OPEN" \in Status
  BY <1>1, AgentFields, HeardAgent DEF Status
<1> HIDE DEF h, m
<1>5. PICK w \in 0 .. r + m.len :
        /\ SetAgent(e, j, [h EXCEPT !.rem = r + m.len - w])
        /\ IF w = 0 THEN Take(e)
             ELSE TakeSend(e, Pack("SENT", m.said, m.raid, m.conn, w))
        /\ DoneIn(e, IF r > 0 THEN w >= r ELSE w < m.len)
  BY <1>2, <1>3 DEF h
<1>6. w \in Nat /\ r + m.len - w \in Nat
  BY <1>1, <1>5
<1>7. /\ [h EXCEPT !.rem = r + m.len - w] \in Agent
      /\ [h EXCEPT !.rem = r + m.len - w].laid = pv[e][j].laid
  BY <1>4, <1>6, NewRem
<1>8. TablesOK'
  BY <1>0, <1>1, <1>5, <1>7, SetTables
<1> DEFINE clear == IF r > 0 THEN w >= r ELSE w < m.len
<1>9. clear \in BOOLEAN
  <2>1. (w >= r) \in BOOLEAN /\ (w < m.len) \in BOOLEAN
    BY <1>1, <1>6
  <2> QED
    BY <2>1, Zenon
<1>10. CASE w = 0
  BY <1>1, <1>5, <1>8, <1>9, <1>10, RecvStep
<1>11. CASE w # 0
  <2>1. Pack("SENT", m.said, m.raid, m.conn, w) \in Packet
    BY <1>1, <1>6, Packs
  <2> QED
    BY <1>1, <1>5, <1>8, <1>9, <1>11, <2>1, RecvStep
<1> QED
  BY <1>10, <1>11

\* A report of what the peer has written.
LEMMA RecvSentInv == ASSUME IInv, NEW e \in End, RecvSent(e) PROVE IInv'
<1> DEFINE m == Head(chan[e])
<1>0. Recv(e, "SENT") /\ Take(e) /\ UNCHANGED <<aidactive, nlaid>>
  BY DEF RecvSent
<1>1. TablesOK /\ chan[e] # <<>> /\ m.len \in Nat /\ m \in Packet
  BY <1>0, RecvFacts, HeadPacket
<1>2. PICK j \in 1 .. Len(pv[e]) :
        LET r == pv[e][j].rpend - m.len IN
          /\ SetAgent(e, j, [Heard(pv[e][j]) EXCEPT
               !.rpend = r, !.stat = IF r < 0 THEN @ ELSE "OPEN"])
          /\ DoneIn(e, r >= 0)
  BY DEF RecvSent
<1> DEFINE h == Heard(pv[e][j])
           st == IF pv[e][j].rpend - m.len < 0 THEN h.stat ELSE "OPEN"
<1>3. PICK r \in Int : r = pv[e][j].rpend - m.len
  BY <1>1, AgentFields
<1>4. h \in Agent /\ h.laid = pv[e][j].laid /\ st \in Status
  BY <1>1, AgentFields, HeardAgent DEF Status
<1>5. SetAgent(e, j, [h EXCEPT !.rpend = r, !.stat = st]) /\ DoneIn(e, r >= 0)
  BY <1>2, <1>3
<1> HIDE DEF h, m, st
<1>6. /\ [h EXCEPT !.rpend = r, !.stat = st] \in Agent
      /\ [h EXCEPT !.rpend = r, !.stat = st].laid = pv[e][j].laid
  BY <1>3, <1>4, NewPend
<1>7. TablesOK'
  BY <1>0, <1>1, <1>5, <1>6, SetTables
<1>8. (r >= 0) \in BOOLEAN
  OBVIOUS
<1> QED
  BY <1>0, <1>1, <1>5, <1>7, <1>8, RecvStep

\* An agent that becomes CLOSED.
LEMMA ClosesAgent ==
    ASSUME TablesOK, NEW e \in End, NEW j \in 1 .. Len(pv[e]),
           SetAgent(e, j, [Heard(pv[e][j]) EXCEPT !.stat = "CLOSED"]),
           UNCHANGED <<aidactive, nlaid>>
    PROVE  TablesOK'
<1> DEFINE h == Heard(pv[e][j])
<1>1. h \in Agent /\ h.laid = pv[e][j].laid /\ "CLOSED" \in Status
  BY AgentFields, HeardAgent DEF Status, Closing
<1> HIDE DEF h
<1>2. /\ [h EXCEPT !.stat = "CLOSED"] \in Agent
      /\ [h EXCEPT !.stat = "CLOSED"].laid = pv[e][j].laid
  BY <1>1, NewStat
<1> QED
  BY <1>2, SetTables DEF h

\* CLOSE.
LEMMA RecvCloseInv == ASSUME IInv, NEW e \in End, RecvClose(e) PROVE IInv'
<1> DEFINE m == Head(chan[e])
           closed == Pack("CLOSED", m.said, m.raid, m.conn, 0)
<1>0. Recv(e, "CLOSE") /\ UNCHANGED <<aidactive, nlaid>>
  BY DEF RecvClose
<1>1. /\ TablesOK /\ chan[e] # <<>> /\ m.said \in Aid /\ m.raid \in Aid
      /\ m.conn \in Conn \cup {NoConn}
  BY <1>0, RecvFacts
<1>2. closed \in Packet
  BY <1>1, Packs
<1>3. CASE TakeSend(e, closed) /\ DoneIn(e, FALSE) /\ pv' = pv
  <2>1. TablesOK'
    BY <1>0, <1>1, <1>3 DEF TablesOK
  <2> QED
    BY <1>1, <1>2, <1>3, <2>1, RecvStep
<1>4. CASE \E j \in 1 .. Len(pv[e]) :
             /\ SetAgent(e, j, [Heard(pv[e][j]) EXCEPT !.stat = "CLOSED"])
             /\ Take(e) \/ TakeSend(e, closed)
             /\ DoneIn(e, TRUE)
  <2>1. TablesOK'
    BY <1>0, <1>1, <1>4, ClosesAgent
  <2> QED
    BY <1>1, <1>2, <1>4, <2>1, RecvStep
<1> QED
  BY <1>3, <1>4 DEF RecvClose

\* CLOSED.
LEMMA RecvClosedInv == ASSUME IInv, NEW e \in End, RecvClosed(e) PROVE IInv'
<1>0. /\ Recv(e, "CLOSED") /\ Take(e) /\ DoneIn(e, TRUE)
      /\ UNCHANGED <<aidactive, nlaid>>
  BY DEF RecvClosed
<1>1. TablesOK /\ chan[e] # <<>> /\ Head(chan[e]) \in Packet
  BY <1>0, RecvFacts, HeadPacket
<1>2. PICK j \in 1 .. Len(pv[e]) :
        SetAgent(e, j, [Heard(pv[e][j]) EXCEPT !.stat = "CLOSED"])
  BY DEF RecvClosed
<1>3. TablesOK'
  BY <1>0, <1>1, <1>2, ClosesAgent
<1> QED
  BY <1>0, <1>1, <1>3, RecvStep

(***************************************************************************)
(* The invariant, and what follows.                                        *)
(***************************************************************************)
\* Every step keeps the invariant.
LEMMA NextInv == ASSUME IInv, [Next]_vars PROVE IInv'
<1>1. CASE UNCHANGED vars
  BY <1>1 DEF vars, IInv, TypeOK, IdsMatch
<1>2. ASSUME NEW e \in End, Fdset(e) PROVE IInv'
  BY <1>2, FdsetDoneInv, FdsetFreeInv DEF Fdset
<1>3. ASSUME NEW e \in End, Comm(e) PROVE IInv'
  BY <1>3, RecvIgnoredInv, RecvConnectInv, RecvConnectFailInv, RecvConnectedInv,
     RecvSendInv, RecvSentInv, RecvCloseInv, RecvClosedInv DEF Comm
<1>4. ASSUME NEW e \in End, Local(e) PROVE IInv'
  BY <1>4, FlushInv, RelayIgnoredInv, RelayInv, RelayEofInv, AgeInv, AcceptInv DEF Local
<1> QED
  BY <1>1, <1>2, <1>3, <1>4 DEF Next

\* The state that sox_setupX sets up.
LEMMA InitInv == Init => IInv
<1> SUFFICES ASSUME Init PROVE IInv
  OBVIOUS
<1>0. NSOCK \in 4 .. 255 /\ NOAID = 255
  BY TableAssumption DEF NOAID
<1> DEFINE a == NewAgent(0, NOAID, "COMMOUT", FALSE, NoConn)
           b == NewAgent(1, NOAID, "COMMIN", FALSE, NoConn)
           c == NewAgent(2, NOAID, "LISTEN", FALSE, NoConn)
<1>1. /\ a \in Agent /\ b \in Agent /\ c \in Agent
      /\ a.laid = 0 /\ b.laid = 1 /\ c.laid = 2
  BY <1>0 DEF NewAgent, Agent, Aid, Status, Permanent
<1>2. /\ pv = [e \in End |-> <<a, b>> \o IF e \in Listen THEN <<c>> ELSE <<>>]
      /\ nlaid = [e \in End |-> IF e \in Listen THEN 3 ELSE 2]
      /\ aidactive = [e \in End |-> 0 .. nlaid[e] - 1]
  BY DEF Init
<1> HIDE DEF a, b, c
<1>3. ASSUME NEW e \in End
      PROVE  /\ pv[e] \in Seq(Agent) /\ Len(pv[e]) <= NSOCK
             /\ Match(pv[e], aidactive[e])
             /\ aidactive[e] \subseteq 0 .. NSOCK - 2
  <2>1. CASE e \in Listen
    <3> DEFINE u == <<a, b>>
               v == <<c>>
               w == u \o v
    <3>1. /\ u \in Seq(Agent) /\ Len(u) = 2 /\ u[1] = a /\ u[2] = b
          /\ v \in Seq(Agent) /\ Len(v) = 1 /\ v[1] = c
      BY <1>1
    <3>2. pv[e] = w /\ aidactive[e] = 0 .. 3 - 1
      BY <1>2, <2>1
    <3>3. aidactive[e] = {0, 1, 2}
      BY <3>2
    <3> HIDE DEF u, v
    <3>4. /\ w \in Seq(Agent) /\ Len(w) = Len(u) + Len(v)
          /\ \A i \in 1 .. Len(u) + Len(v) :
               w[i] = IF i <= Len(u) THEN u[i] ELSE v[i - Len(u)]
      BY <3>1, ConcatProperties
    <3> HIDE DEF w
    <3>5. Len(w) = 3
      BY <3>1, <3>4
    <3>6. w[1] = a /\ w[2] = b /\ w[3] = c
      BY <3>1, <3>4
    <3>7. Laids(w) = {0, 1, 2}
      BY <1>1, <3>5, <3>6 DEF Laids
    <3>8. \A i, j \in 1 .. Len(w) : w[i].laid = w[j].laid => i = j
      <4>1. \A i \in 1 .. Len(w) : w[i].laid = i - 1
        BY <1>1, <3>5, <3>6
      <4> QED
        BY <3>5, <4>1
    <3>9. aidactive[e] = Laids(w) \ {NOAID}
      BY <1>0, <3>3, <3>7
    <3>10. Match(pv[e], aidactive[e])
      BY <3>2, <3>8, <3>9 DEF Match
    <3>11. pv[e] \in Seq(Agent) /\ Len(pv[e]) <= NSOCK
      <4>1. w \in Seq(Agent)
        BY <3>4, Zenon
      <4>2. Len(w) <= NSOCK
        BY <1>0, <3>5
      <4> QED
        BY <3>2, <4>1, <4>2, Zenon
    <3>12. aidactive[e] \subseteq 0 .. NSOCK - 2
      BY <1>0, <3>3
    <3> QED
      BY <3>10, <3>11, <3>12
  <2>2. CASE e \notin Listen
    <3>1. pv[e] = <<a, b>> /\ aidactive[e] = {0, 1}
      <4>1. pv[e] = <<a, b>> \o << >> /\ aidactive[e] = 0 .. 2 - 1
        BY <1>2, <2>2
      <4> QED
        BY <4>1
    <3>2. Laids(<<a, b>>) = {0, 1}
      BY <1>1 DEF Laids
    <3> QED
      BY <1>0, <1>1, <3>1, <3>2 DEF Match
  <2> QED
    BY <2>1, <2>2
<1>4. TablesOK
  <2>1. nlaid \in [End -> 0 .. NSOCK - 1]
    BY <1>0, <1>2
  <2>2. pv \in [End -> Seq(Agent)] /\ aidactive \in [End -> SUBSET (0 .. NSOCK - 2)]
    BY <1>2, <1>3
  <2> QED
    BY <1>3, <2>1, <2>2 DEF TablesOK
<1>5. TurnsOK
  BY <1>0 DEF Init, TurnsOK
<1>6. ChansOK
  BY DEF Init, ChansOK
<1> QED
  BY <1>4, <1>5, <1>6, Parts

\* TypeOK and IdsMatch together are an inductive invariant of the tables.
THEOREM TablesInductive == Spec => []IInv
<1>1. IInv /\ [Next]_vars => IInv'
  BY NextInv
<1> QED
  BY <1>1, InitInv, PTL DEF Spec

\* The tables of newAgent and delAgent never hold more than NSOCK agents, and
\* newlaid never indexes past the ids.
THEOREM TablesTyped == Spec => []TypeOK
<1>1. IInv => TypeOK
  BY DEF IInv
<1> QED
  BY <1>1, TablesInductive, PTL

\* newlaid and delAgent keep s_aidactive the set of the ids that agents have,
\* and no two agents of a table ever have the same id: with any number of
\* connections of either kind, in a table of any size, also when it is full.
THEOREM IdsUnique == Spec => []IdsMatch
<1>1. IInv => IdsMatch
  BY DEF IInv
<1> QED
  BY <1>1, TablesInductive, PTL

-----------------------------------------------------------------------------
(***************************************************************************)
(* Addressed and TunnelIntact, for clients by TCP and as long as the       *)
(* tables have room.                                                       *)
(***************************************************************************)
\* The permanent agents come first.
Fixed(e) == IF e \in Listen THEN 3 ELSE 2
Standing == <<"COMMOUT", "COMMIN", "LISTEN">>
Fixture(a, j) ==
    /\ a.conn = NoConn /\ a.laid = j - 1 /\ a.stat = Standing[j]
    /\ a.rem = 0 /\ ~a.ludp

\* The other ones have ids of their own, and nothing buffered before they are
\* connected or after they have sent CLOSE.
Regular(e, a) ==
    /\ a.conn \in Conn /\ a.stat \notin Permanent /\ ~a.ludp
    /\ a.laid \in Fixed(e) .. NSOCK - 2 /\ a.xaid \in Fixed(Peer(e)) .. NOAID
    /\ a.stat \in {"CONNECT", "CLOSE"} => a.rem = 0
    /\ a.stat = "CONNECT" => a.rpend <= 0
Fits(e, a, j) == IF j <= Fixed(e) THEN Fixture(a, j) ELSE Regular(e, a)
Shape(e) ==
    Fixed(e) <= Len(pv[e]) /\ \A j \in 1 .. Len(pv[e]) : Fits(e, pv[e][j], j)

\* A connection has at most one agent in a table.
Distinct(s) ==
    \A i, j \in 1 .. Len(s) : s[i].conn = s[j].conn /\ s[i].conn # NoConn => i = j

\* The turn does not poll an agent that waits for CONNECTED.
Waits(e) ==
    scan[e] = 0 => \A k \in qin[e] : k <= Len(pv[e]) /\ pv[e][k].stat # "CONNECT"

\* A packet is for nobody, or for an id that no permanent agent has.
Letter(e, m) ==
    /\ m.conn \in Conn
    /\ m.raid \in Fixed(e) .. NOAID /\ m.said \in Fixed(Peer(e)) .. NOAID
    /\ m.type = "SENT" => m.len > 0

\* But for SENT, the packets of a connection begin with CONNECTED and end with
\* CLOSE or CLOSED, and CONNECT is alone.
Ordered(q) ==
    \A i, j \in 1 .. Len(q) :
        i < j /\ q[i].conn = q[j].conn /\ q[i].type # "SENT" /\ q[j].type # "SENT" =>
            q[i].type \in {"CONNECTED", "SEND"} /\ q[j].type \in {"SEND", "CLOSE", "CLOSED"}
Mail(e) == Ordered(chan[e]) /\ \A i \in 1 .. Len(chan[e]) : Letter(e, chan[e][i])

(***************************************************************************)
(* The handshake of a connection: what its agents are at the two ends, and *)
(* its packets other than SENT on their way to each.                       *)
(***************************************************************************)
Nobody == [st |-> "NONE", laid |-> NOAID, xaid |-> NOAID]
ViewOf(a) == [st |-> IF a.stat \in {"OPEN", "SENDING"} THEN "LIVE" ELSE a.stat,
              laid |-> a.laid, xaid |-> a.xaid]
Has(s, c) == \E j \in 1 .. Len(s) : s[j].conn = c
View(s, c) ==
    IF Has(s, c) THEN ViewOf(s[CHOOSE j \in 1 .. Len(s) : s[j].conn = c]) ELSE Nobody
Post(q, c) == {q[i] : i \in {x \in 1 .. Len(q) : q[x].conn = c /\ q[x].type # "SENT"}}

\* What end a, with k on its way to it, knows of the other end b.
Here == {"CONNECT", "LIVE", "CLOSE"}
Half(a, b, k, l) ==
    /\ \A m \in k :
         /\ m.type = "CONNECT" =>
              m.raid = NOAID /\ a.st = "NONE" /\ b.st = "CONNECT" /\ b.laid = m.said /\ l = {}
         /\ m.type = "CONNECTED" =>
              /\ a.st = "CONNECT" /\ a.laid = m.raid
              /\ b.st \in {"LIVE", "CLOSE"} /\ b.laid = m.said
         /\ m.type = "SEND" => a.st \in Here /\ a.laid = m.raid
         /\ m.type = "CLOSE" =>
              /\ a.st \in Here /\ a.laid = m.raid /\ b.st \in {"NONE", "CLOSE", "CLOSED"}
              /\ IF m.said = NOAID THEN a.st = "CONNECT" /\ b.st = "NONE"
                   ELSE a.st = "CLOSE" \/ (b.st = "CLOSE" /\ b.laid = m.said)
         /\ m.type = "CLOSED" =>
              /\ b.st \in {"NONE", "CLOSED"}
              /\ \/ m.raid = NOAID /\ a.st = "NONE"
                 \/ m.raid # NOAID /\ m.raid = a.laid /\ a.st = "CLOSE"
    /\ a.st = "CONNECT" =>
         /\ \A m \in l : m.type = "CONNECT"
         /\ \A m \in k : \/ m.type = "CLOSE" /\ m.said = NOAID
                         \/ \E x \in k : x.type = "CONNECTED"
    /\ a.st = "LIVE" =>
         /\ b.st \in Here /\ b.laid = a.xaid
         /\ \A m \in l : m.type \in {"CONNECTED", "SEND"}
         /\ b.st = "CONNECT" => \E x \in l : x.type = "CONNECTED"
Both(a, b, k, l) == Half(a, b, k, l) /\ Half(b, a, l, k)
Shake(e, c) ==
    Half(View(pv[e], c), View(pv[Peer(e)], c), Post(chan[e], c), Post(chan[Peer(e)], c))

AInv ==
    \A e \in End : /\ Shape(e) /\ Distinct(pv[e]) /\ Waits(e) /\ Mail(e)
                   /\ \A c \in Conn : Shake(e, c)

-----------------------------------------------------------------------------
(* Views of a table. *)

\* The view of a connection is the one of its agent.
LEMMA ViewAt ==
    ASSUME NEW s, Distinct(s), NEW j \in 1 .. Len(s), s[j].conn # NoConn
    PROVE  Has(s, s[j].conn) /\ View(s, s[j].conn) = ViewOf(s[j])
<1> DEFINE c == s[j].conn
           i == CHOOSE x \in 1 .. Len(s) : s[x].conn = c
<1>1. i \in 1 .. Len(s) /\ s[i].conn = c
  OBVIOUS
<1>2. i = j
  BY <1>1 DEF Distinct
<1> QED
  BY <1>2 DEF View, Has

\* Who is there is an agent of the table.
LEMMA ViewThere ==
    ASSUME NEW s, Distinct(s), NEW c, c # NoConn, Has(s, c)
    PROVE  \E j \in 1 .. Len(s) : s[j].conn = c /\ View(s, c) = ViewOf(s[j])
<1>1. PICK j \in 1 .. Len(s) : s[j].conn = c
  BY DEF Has
<1> QED
  BY <1>1, ViewAt

\* Who is not there is nobody.
LEMMA ViewNone == ASSUME NEW s, NEW c, ~Has(s, c) PROVE View(s, c) = Nobody
  BY DEF View

\* Tables with the same agents, for a connection, have the same view of it.
LEMMA ViewSame ==
    ASSUME NEW s, NEW t, Distinct(s), Distinct(t), NEW c, c # NoConn,
           \A j \in 1 .. Len(s) : s[j].conn = c => \E i \in 1 .. Len(t) : t[i] = s[j],
           \A i \in 1 .. Len(t) : t[i].conn = c => \E j \in 1 .. Len(s) : s[j] = t[i]
    PROVE  View(t, c) = View(s, c)
<1>1. CASE Has(s, c)
  <2>1. PICK j \in 1 .. Len(s) : s[j].conn = c /\ View(s, c) = ViewOf(s[j])
    BY <1>1, ViewThere
  <2>2. PICK i \in 1 .. Len(t) : t[i] = s[j]
    BY <2>1
  <2>3. View(t, c) = ViewOf(t[i])
    BY <2>1, <2>2, ViewAt
  <2> QED
    BY <2>1, <2>2, <2>3
<1>2. CASE ~Has(s, c)
  <2>1. ~Has(t, c)
    BY <1>2 DEF Has
  <2> QED
    BY <1>2, <2>1, ViewNone
<1> QED
  BY <1>1, <1>2

\* One agent changes, but for its connection.
LEMMA ViewSet ==
    ASSUME NEW s, Distinct(s), NEW k \in 1 .. Len(s), NEW b,
           b.conn = s[k].conn, b.conn # NoConn, NEW t, Len(t) = Len(s), t[k] = b,
           \A i \in 1 .. Len(s) : i # k => t[i] = s[i]
    PROVE  /\ Distinct(t) /\ View(t, b.conn) = ViewOf(b)
           /\ \A c \in Conn : c # b.conn => View(t, c) = View(s, c)
<1>2. \A i \in 1 .. Len(s) : t[i].conn = s[i].conn
  OBVIOUS
<1>3. Distinct(t)
  BY <1>2 DEF Distinct
<1>4. View(t, b.conn) = ViewOf(b)
  BY <1>3, ViewAt
<1>5. ASSUME NEW c \in Conn, c # b.conn PROVE View(t, c) = View(s, c)
  <2>1. /\ \A j \in 1 .. Len(s) : s[j].conn = c => \E i \in 1 .. Len(t) : t[i] = s[j]
        /\ \A i \in 1 .. Len(t) : t[i].conn = c => \E j \in 1 .. Len(s) : s[j] = t[i]
    BY <1>5
  <2> QED
    BY <1>3, <2>1, ViewSame, TableAssumption
<1> QED
  BY <1>3, <1>4, <1>5

\* newAgent, for a connection that has no agent here.
LEMMA ViewAdd ==
    ASSUME NEW s, Distinct(s), NEW b, b.conn \in Conn, ~Has(s, b.conn),
           Len(s) \in Nat, NEW t, Len(t) = Len(s) + 1, t[Len(s) + 1] = b,
           \A i \in 1 .. Len(s) : t[i] = s[i]
    PROVE  /\ Distinct(t) /\ View(t, b.conn) = ViewOf(b)
           /\ \A c \in Conn : c # b.conn => View(t, c) = View(s, c)
<1>1. Len(s) + 1 \in 1 .. Len(t) /\ \A i \in 1 .. Len(s) : i \in 1 .. Len(t)
  OBVIOUS
<1>2. \A i \in 1 .. Len(t) : i \in 1 .. Len(s) \/ i = Len(s) + 1
  OBVIOUS
<1>3. Distinct(t)
  BY <1>1, <1>2 DEF Distinct, Has
<1>4. View(t, b.conn) = ViewOf(b)
  BY <1>1, <1>3, ViewAt, TableAssumption
<1>5. ASSUME NEW c \in Conn, c # b.conn PROVE View(t, c) = View(s, c)
  <2>1. \A j \in 1 .. Len(s) : s[j].conn = c => \E i \in 1 .. Len(t) : t[i] = s[j]
    BY <1>1
  <2>2. \A i \in 1 .. Len(t) : t[i].conn = c => \E j \in 1 .. Len(s) : s[j] = t[i]
    BY <1>1, <1>2, <1>5
  <2> QED
    BY <1>3, <2>1, <2>2, ViewSame, TableAssumption
<1> QED
  BY <1>3, <1>4, <1>5

\* delAgent.
LEMMA ViewDel ==
    ASSUME NEW s \in Seq(Agent), Distinct(s), NEW k \in 1 .. Len(s),
           s[k].conn # NoConn, NEW t, Len(t) = Len(s) - 1,
           \A i \in 1 .. Len(s) - 1 : t[i] = IF i < k THEN s[i] ELSE s[i + 1]
    PROVE  /\ Distinct(t) /\ View(t, s[k].conn) = Nobody
           /\ \A c \in Conn : c # s[k].conn => View(t, c) = View(s, c)
<1>1. Len(s) \in Nat
  OBVIOUS
<1> DEFINE up(x) == IF x < k THEN x ELSE x + 1
<1>2. \A i \in 1 .. Len(t) : up(i) \in 1 .. Len(s) /\ up(i) # k /\ t[i] = s[up(i)]
  BY <1>1
<1>3. \A i, j \in 1 .. Len(t) : up(i) = up(j) => i = j
  BY <1>1
<1>4. ASSUME NEW j \in 1 .. Len(s), j # k PROVE \E i \in 1 .. Len(t) : t[i] = s[j]
  <2>1. CASE j < k
    BY <1>1, <2>1
  <2>2. CASE j > k
    <3>1. j - 1 \in 1 .. Len(s) - 1 /\ ~(j - 1 < k) /\ (j - 1) + 1 = j
      BY <1>1, <2>2
    <3> QED
      BY <1>1, <3>1
  <2> QED
    BY <1>4, <2>1, <2>2
<1> HIDE DEF up
<1>5. Distinct(t)
  BY <1>2, <1>3 DEF Distinct
<1>6. ~Has(t, s[k].conn)
  BY <1>2 DEF Distinct, Has
<1>7. ASSUME NEW c \in Conn, c # s[k].conn PROVE View(t, c) = View(s, c)
  <2>1. \A j \in 1 .. Len(s) : s[j].conn = c => \E i \in 1 .. Len(t) : t[i] = s[j]
    BY <1>4, <1>7
  <2>2. \A i \in 1 .. Len(t) : t[i].conn = c => \E j \in 1 .. Len(s) : s[j] = t[i]
    BY <1>2
  <2> QED
    BY <1>5, <2>1, <2>2, ViewSame, TableAssumption
<1> QED
  BY <1>5, <1>6, <1>7, ViewNone

-----------------------------------------------------------------------------
(* Packets of a connection. *)

\* The places of a sequence without its head.
LEMMA TailPlaces ==
    ASSUME NEW S, NEW q \in Seq(S), q # << >>
    PROVE  /\ Tail(q) \in Seq(S) /\ Len(q) \in Nat \ {0} /\ Len(Tail(q)) = Len(q) - 1
           /\ Head(q) = q[1] /\ 1 \in 1 .. Len(q)
           /\ \A i \in 1 .. Len(q) - 1 : Tail(q)[i] = q[i + 1] /\ i + 1 \in 1 .. Len(q)
           /\ \A i \in 1 .. Len(q) : i # 1 => i - 1 \in 1 .. Len(q) - 1 /\ Tail(q)[i - 1] = q[i]
<1>1. Tail(q) \in Seq(S) /\ Len(q) \in Nat \ {0} /\ Len(Tail(q)) = Len(q) - 1
  OBVIOUS
<1>2. Head(q) = q[1] /\ 1 \in 1 .. Len(q)
  BY <1>1
<1>3. \A i \in 1 .. Len(q) - 1 : Tail(q)[i] = q[i + 1] /\ i + 1 \in 1 .. Len(q)
  BY <1>1
<1>4. ASSUME NEW i \in 1 .. Len(q), i # 1
      PROVE  i - 1 \in 1 .. Len(q) - 1 /\ Tail(q)[i - 1] = q[i]
  <2>1. i - 1 \in 1 .. Len(q) - 1 /\ (i - 1) + 1 = i
    BY <1>1, <1>4
  <2> QED
    BY <1>3, <2>1
<1> QED
  BY <1>1, <1>2, <1>3, <1>4

\* What is left of the packets when the first one is taken.
LEMMA Taken ==
    ASSUME NEW q \in Seq(Packet), q # << >>, Ordered(q)
    PROVE  LET h == Head(q)
               r == Tail(q) IN
           /\ Ordered(r)
           /\ \A c : c # h.conn \/ h.type = "SENT" => Post(r, c) = Post(q, c)
           /\ h.type # "SENT" => /\ h \in Post(q, h.conn)
                                 /\ Post(r, h.conn) \subseteq Post(q, h.conn)
                                 /\ Post(q, h.conn) \subseteq Post(r, h.conn) \cup {h}
           /\ h.type \in {"CONNECT", "CLOSE", "CLOSED"} => Post(r, h.conn) = {}
           /\ h.type \in {"CONNECTED", "SEND"} =>
                \A m \in Post(r, h.conn) : m.type \in {"SEND", "CLOSE", "CLOSED"}
<1> DEFINE h == Head(q)
           r == Tail(q)
<1>1. /\ Len(q) \in Nat \ {0} /\ Len(r) = Len(q) - 1 /\ h = q[1] /\ 1 \in 1 .. Len(q)
      /\ \A i \in 1 .. Len(q) - 1 : r[i] = q[i + 1] /\ i + 1 \in 1 .. Len(q)
      /\ \A i \in 1 .. Len(q) : i # 1 => i - 1 \in 1 .. Len(q) - 1 /\ r[i - 1] = q[i]
  BY TailPlaces
<1> HIDE DEF h, r
<1>2. Ordered(r)
  <2>1. ASSUME NEW i \in 1 .. Len(r), NEW j \in 1 .. Len(r), i < j
        PROVE  /\ r[i] = q[i + 1] /\ r[j] = q[j + 1] /\ i + 1 < j + 1
               /\ i + 1 \in 1 .. Len(q) /\ j + 1 \in 1 .. Len(q)
    BY <1>1, <2>1
  <2> QED
    BY <2>1 DEF Ordered
<1>3. ASSUME NEW c, NEW m \in Post(r, c) PROVE m \in Post(q, c)
  <2>1. PICK i \in 1 .. Len(r) : r[i] = m /\ m.conn = c /\ m.type # "SENT"
    BY DEF Post
  <2>2. i + 1 \in 1 .. Len(q) /\ q[i + 1] = m
    BY <1>1, <2>1
  <2> QED
    BY <2>1, <2>2 DEF Post
<1>4. \A c : \A m \in Post(q, c) : m \in Post(r, c) \/ (m = h /\ c = h.conn /\ h.type # "SENT")
  BY <1>1 DEF Post
<1>5. h.type # "SENT" => h \in Post(q, h.conn)
  BY <1>1 DEF Post
<1>6. ASSUME h.type # "SENT", NEW m \in Post(r, h.conn)
      PROVE  h.type \in {"CONNECTED", "SEND"} /\ m.type \in {"SEND", "CLOSE", "CLOSED"}
  <2>1. PICK i \in 1 .. Len(r) : r[i] = m /\ m.conn = h.conn /\ m.type # "SENT"
    BY DEF Post
  <2>2. i + 1 \in 1 .. Len(q) /\ 1 < i + 1 /\ q[i + 1] = m
    BY <1>1, <2>1
  <2> QED
    BY <1>1, <1>6, <2>1, <2>2 DEF Ordered
<1>7. ASSUME NEW c, c # h.conn \/ h.type = "SENT" PROVE Post(r, c) = Post(q, c)
  <2>1. \A m : m \in Post(r, c) <=> m \in Post(q, c)
    BY <1>3, <1>4, <1>7
  <2> QED
    BY <2>1
<1>8. /\ Post(r, h.conn) \subseteq Post(q, h.conn)
      /\ Post(q, h.conn) \subseteq Post(r, h.conn) \cup {h}
  BY <1>3, <1>4
<1>9. h.type \in {"CONNECT", "CLOSE", "CLOSED"} => Post(r, h.conn) = {}
  BY <1>6
<1>10. h.type \in {"CONNECTED", "SEND"} =>
         \A m \in Post(r, h.conn) : m.type \in {"SEND", "CLOSE", "CLOSED"}
  BY <1>6
<1> QED
  BY <1>2, <1>5, <1>7, <1>8, <1>9, <1>10 DEF h, r

\* The packet m may follow those of its connection that are in k.
Follows(m, k) ==
    \/ m.type = "SENT" \/ k = {}
    \/ /\ m.type \in {"SEND", "CLOSE", "CLOSED"}
       /\ \A x \in k : x.type \in {"CONNECTED", "SEND"}

\* A packet more at the end.
LEMMA Added ==
    ASSUME NEW q \in Seq(Packet), NEW m \in Packet
    PROVE  LET r == Append(q, m) IN
           /\ \A c : c # m.conn \/ m.type = "SENT" => Post(r, c) = Post(q, c)
           /\ m.type # "SENT" => Post(r, m.conn) = Post(q, m.conn) \cup {m}
           /\ Ordered(q) /\ Follows(m, Post(q, m.conn)) => Ordered(r)
<1> DEFINE r == Append(q, m)
<1>1. /\ Len(q) \in Nat /\ Len(r) = Len(q) + 1 /\ r[Len(q) + 1] = m
      /\ \A i \in 1 .. Len(q) : r[i] = q[i] /\ i \in 1 .. Len(r)
      /\ Len(q) + 1 \in 1 .. Len(r)
  OBVIOUS
<1> HIDE DEF r
<1>2. \A i \in 1 .. Len(r) : i \in 1 .. Len(q) \/ i = Len(q) + 1
  BY <1>1
<1>3. ASSUME NEW c, NEW x
      PROVE  x \in Post(r, c) <=> x \in Post(q, c) \/ (x = m /\ c = m.conn /\ m.type # "SENT")
  BY <1>1, <1>2 DEF Post
<1>4. /\ \A c : c # m.conn \/ m.type = "SENT" => Post(r, c) = Post(q, c)
      /\ m.type # "SENT" => Post(r, m.conn) = Post(q, m.conn) \cup {m}
  <2>1. ASSUME NEW c, c # m.conn \/ m.type = "SENT" PROVE Post(r, c) = Post(q, c)
    <3>1. \A x : x \in Post(r, c) <=> x \in Post(q, c)
      BY <1>3, <2>1
    <3> QED
      BY <3>1
  <2>2. m.type # "SENT" => Post(r, m.conn) = Post(q, m.conn) \cup {m}
    BY <1>3
  <2> QED
    BY <2>1, <2>2
<1>5. ASSUME Ordered(q), Follows(m, Post(q, m.conn)) PROVE Ordered(r)
  <2> SUFFICES ASSUME NEW i \in 1 .. Len(r), NEW j \in 1 .. Len(r), i < j,
                      r[i].conn = r[j].conn, r[i].type # "SENT", r[j].type # "SENT"
               PROVE  /\ r[i].type \in {"CONNECTED", "SEND"}
                      /\ r[j].type \in {"SEND", "CLOSE", "CLOSED"}
    BY DEF Ordered
  <2>1. i \in 1 .. Len(q)
    BY <1>1, <1>2
  <2>2. CASE j \in 1 .. Len(q)
    BY <1>1, <1>5, <2>1, <2>2 DEF Ordered
  <2>3. CASE j = Len(q) + 1
    <3>1. r[j] = m /\ q[i] = r[i] /\ q[i] \in Post(q, m.conn)
      BY <1>1, <2>1, <2>3 DEF Post
    <3> QED
      BY <1>5, <3>1 DEF Follows
  <2> QED
    BY <1>2, <2>2, <2>3
<1> QED
  BY <1>4, <1>5 DEF r

-----------------------------------------------------------------------------
(* The handshake, step by step. *)

\* A client comes.
LEMMA ShakeAccept ==
    ASSUME NEW a, NEW m, m.type = "CONNECT", m.raid = NOAID, a.st = "CONNECT", a.laid = m.said
    PROVE  Both(a, Nobody, {}, {m})
  BY DEF Both, Half, Nobody, Here

\* The server is connected.
LEMMA ShakeConnect ==
    ASSUME NEW a, NEW b, NEW k, NEW l, NEW m \in k, Both(a, b, k, l), m.type = "CONNECT",
           NEW x, x.st = "LIVE", x.xaid = m.said,
           NEW n, n.type = "CONNECTED", n.raid = m.said, n.said = x.laid
    PROVE  a.st = "NONE" /\ l = {} /\ Both(x, b, {}, {n})
  BY DEF Both, Half, Nobody, Here

\* It is not.
LEMMA ShakeRefuse ==
    ASSUME NEW a, NEW b, NEW k, NEW l, NEW m \in k, Both(a, b, k, l), m.type = "CONNECT",
           NEW n, n.type = "CLOSE", n.raid = m.said, n.said = NOAID
    PROVE  a.st = "NONE" /\ l = {} /\ Both(a, b, {}, {n})
  BY DEF Both, Half, Nobody, Here

\* The client hears of it.
LEMMA ShakeConnected ==
    ASSUME NEW a, NEW b, NEW k, NEW l, NEW m \in k, Both(a, b, k, l), m.type = "CONNECTED",
           NEW r, r \subseteq k, \A y \in r : y.type \in {"SEND", "CLOSE", "CLOSED"},
           NEW x, x.st = "LIVE", x.laid = a.laid, x.xaid = m.said
    PROVE  a.st = "CONNECT" /\ a.laid = m.raid /\ Both(x, b, r, l)
  BY DEF Both, Half, Here

\* Data is sent.
LEMMA ShakeSend ==
    ASSUME NEW a, NEW b, NEW k, NEW l, Both(a, b, k, l), a.st = "LIVE",
           NEW n, n.type = "SEND", n.raid = a.xaid
    PROVE  /\ \A y \in l : y.type \in {"CONNECTED", "SEND"}
           /\ Both(a, b, k, l \cup {n})
  BY DEF Both, Half, Here

\* Data is received, or dropped.
LEMMA ShakeTake ==
    ASSUME NEW a, NEW b, NEW k, NEW l, NEW m \in k, Both(a, b, k, l), m.type = "SEND",
           NEW r, r \subseteq k, k \subseteq r \cup {m}
    PROVE  a.st \in Here /\ a.laid = m.raid /\ Both(a, b, r, l)
  BY DEF Both, Half, Here

\* An agent sends CLOSE.
LEMMA ShakeEof ==
    ASSUME NEW a, NEW b, NEW k, NEW l, Both(a, b, k, l), a.st = "LIVE", a.laid # NOAID,
           NEW n, n.type = "CLOSE", n.raid = a.xaid, n.said = a.laid,
           NEW x, x.st = "CLOSE", x.laid = a.laid
    PROVE  /\ \A y \in l : y.type \in {"CONNECTED", "SEND"}
           /\ Both(x, b, k, l \cup {n})
  BY DEF Both, Half, Here

\* CLOSE is received by one that has sent it, too.
LEMMA ShakeCross ==
    ASSUME NEW a, NEW b, NEW k, NEW l, NEW m \in k, Both(a, b, k, l), m.type = "CLOSE",
           a.st = "CLOSE", NEW x, x.st = "CLOSED"
    PROVE  Both(x, b, {}, l)
  BY DEF Both, Half, Here

\* CLOSE is received by another one, and answered.
LEMMA ShakeClose ==
    ASSUME NEW a, NEW b, NEW k, NEW l, NEW m \in k, Both(a, b, k, l), m.type = "CLOSE",
           a.st # "CLOSE", NEW x, x.st = "CLOSED",
           NEW n, n.type = "CLOSED", n.raid = m.said
    PROVE  /\ \A y \in l : y.type \in {"CONNECTED", "SEND"}
           /\ Both(x, b, {}, l \cup {n})
  BY DEF Both, Half, Here

\* CLOSED is received, unless it is for nobody.
LEMMA ShakeClosed ==
    ASSUME NEW a, NEW b, NEW k, NEW l, NEW m \in k, Both(a, b, k, l), m.type = "CLOSED",
           NEW x, x.st = IF a.st = "CLOSE" THEN "CLOSED" ELSE "NONE"
    PROVE  /\ m.raid = NOAID => a.st = "NONE"
           /\ m.raid # NOAID => a.st = "CLOSE" /\ a.laid = m.raid
           /\ Both(x, b, {}, l)
  BY DEF Both, Half, Here

\* An agent that is CLOSED is given back.
LEMMA ShakeFree ==
    ASSUME NEW a, NEW b, NEW k, NEW l, Both(a, b, k, l), a.st = "CLOSED"
    PROVE  Both(Nobody, b, k, l)
  BY DEF Both, Half, Here, Nobody

-----------------------------------------------------------------------------
(* From the steps of a connection to those of the tables. *)

\* The two ends.
LEMMA Ends ==
    ASSUME NEW e \in End
    PROVE  /\ Peer(e) \in End /\ Peer(e) # e /\ Peer(Peer(e)) = e
           /\ \A x \in End : x = e \/ x = Peer(e)
           /\ Fixed(e) \in 2 .. 3
  BY DEF End, Peer, Fixed

\* A step of end e, for connection c.
LEMMA Keeps ==
    ASSUME AInv, NEW e \in End, NEW c \in Conn, NEW p, p = Peer(e), pv'[p] = pv[p],
           Shape(e)', Distinct(pv[e])', Waits(e)', Waits(p)', Mail(e)', Mail(p)',
           \A d \in Conn : d # c =>
              /\ View(pv'[e], d) = View(pv[e], d)
              /\ Post(chan'[e], d) = Post(chan[e], d) /\ Post(chan'[p], d) = Post(chan[p], d),
           Both(View(pv'[e], c), View(pv[p], c), Post(chan'[e], c), Post(chan'[p], c))
    PROVE  AInv'
<1>1. p \in End /\ p # e /\ Peer(p) = e /\ \A x \in End : x = e \/ x = p
  BY Ends
<1>2. Shape(p)' /\ Distinct(pv[p])'
  BY <1>1 DEF AInv, Shape
<1>3. ASSUME NEW d \in Conn PROVE Shake(e, d)' /\ Shake(p, d)'
  <2>1. CASE d = c
    BY <1>1, <2>1 DEF Shake, Both
  <2>2. CASE d # c
    <3>1. Shake(e, d) /\ Shake(p, d)
      BY <1>1 DEF AInv
    <3> QED
      BY <1>1, <2>2, <3>1 DEF Shake
  <2> QED
    BY <2>1, <2>2
<1>4. ASSUME NEW x \in End
      PROVE  Shape(x)' /\ Distinct(pv[x])' /\ Waits(x)' /\ Mail(x)' /\ \A d \in Conn : Shake(x, d)'
  <2>1. CASE x = e
    BY <1>3, <2>1
  <2>2. CASE x = p
    BY <1>2, <1>3, <2>2
  <2> QED
    BY <1>1, <2>1, <2>2
<1> QED
  BY <1>4 DEF AInv

\* The handshake of c, in this state.
LEMMA Shaken ==
    ASSUME AInv, NEW e \in End, NEW c \in Conn
    PROVE  Both(View(pv[e], c), View(pv[Peer(e)], c), Post(chan[e], c), Post(chan[Peer(e)], c))
  BY Ends DEF AInv, Shake, Both

\* The agents of the connections are those behind the permanent ones.
LEMMA Regulars ==
    ASSUME IInv, AInv, NEW e \in End, NEW j \in 1 .. Len(pv[e])
    PROVE  /\ pv[e][j] \in Agent /\ ~pv[e][j].ludp
           /\ pv[e][j].laid # NOAID /\ Heard(pv[e][j]) = pv[e][j]
           /\ pv[e][j].laid >= Fixed(e) \/ pv[e][j].stat \notin Permanent \/ pv[e][j].rem > 0 =>
                /\ j > Fixed(e) /\ Regular(e, pv[e][j])
                /\ pv[e][j].conn # NoConn
                /\ View(pv[e], pv[e][j].conn) = ViewOf(pv[e][j])
<1> DEFINE a == pv[e][j]
<1>0. NSOCK \in 4 .. 255 /\ NOAID = 255 /\ NoConn \notin Conn
  BY TableAssumption DEF NOAID
<1>1. a \in Agent /\ a.laid \in Aid /\ a.stat \in Status /\ Fits(e, a, j)
  BY Parts, AgentFields DEF AInv, Shape
<1>2. Fixed(e) \in 2 .. 3
  BY Ends
<1> HIDE DEF a
<1>3. ~a.ludp /\ a.laid # NOAID
  BY <1>0, <1>1, <1>2 DEF Fits, Fixture, Regular
<1>4. Heard(a) = a
  BY <1>1, <1>3 DEF Heard, Agent
<1>5. ASSUME a.laid >= Fixed(e) \/ a.stat \notin Permanent \/ a.rem > 0
      PROVE  j > Fixed(e) /\ Regular(e, a)
  <2>1. ~(j <= Fixed(e))
    <3> SUFFICES ASSUME j <= Fixed(e) PROVE FALSE
      OBVIOUS
    <3>1. Fixture(a, j) /\ j \in {1, 2, 3}
      BY <1>1, <1>2 DEF Fits
    <3>2. Standing[j] \in Permanent
      BY <3>1 DEF Standing, Permanent
    <3> QED
      BY <1>2, <1>5, <3>1, <3>2 DEF Fixture
  <2> QED
    BY <1>1, <1>2, <2>1 DEF Fits
<1>6. Regular(e, a) => a.conn # NoConn /\ View(pv[e], a.conn) = ViewOf(a)
  BY <1>0, ViewAt DEF AInv, Regular, a
<1> QED
  BY <1>1, <1>3, <1>4, <1>5, <1>6 DEF a

\* A packet that is for the agent of c finds it.
LEMMA Found ==
    ASSUME IInv, AInv, NEW e \in End, NEW c \in Conn, View(pv[e], c).st # "NONE"
    PROVE  \E j \in 1 .. Len(pv[e]) :
             /\ pv[e][j].conn = c /\ View(pv[e], c) = ViewOf(pv[e][j])
             /\ j > Fixed(e) /\ Regular(e, pv[e][j])
             /\ \A i \in 1 .. Len(pv[e]) : pv[e][i].laid = View(pv[e], c).laid => i = j
<1>0. NoConn \notin Conn
  BY TableAssumption
<1>1. Has(pv[e], c)
  BY ViewNone DEF Nobody
<1>2. PICK j \in 1 .. Len(pv[e]) : pv[e][j].conn = c /\ View(pv[e], c) = ViewOf(pv[e][j])
  BY <1>0, <1>1, ViewThere DEF AInv
<1>3. j > Fixed(e) /\ Regular(e, pv[e][j])
  <2>1. Fits(e, pv[e][j], j) /\ Fixed(e) \in 2 .. 3
    BY Ends DEF AInv, Shape
  <2>2. ~(j <= Fixed(e))
    BY <1>0, <1>2, <2>1 DEF Fits, Fixture
  <2> QED
    BY <2>1, <2>2 DEF Fits
<1>4. View(pv[e], c).laid = pv[e][j].laid
  BY <1>2 DEF ViewOf
<1>5. \A i \in 1 .. Len(pv[e]) : pv[e][i].laid = View(pv[e], c).laid => i = j
  BY <1>4 DEF IInv, IdsMatch
<1> QED
  BY <1>2, <1>3, <1>5

\* Nobody else is there.
LEMMA NotThere ==
    ASSUME IInv, AInv, NEW e \in End, NEW c \in Conn, View(pv[e], c).st = "NONE"
    PROVE  ~Has(pv[e], c)
<1> SUFFICES ASSUME Has(pv[e], c) PROVE FALSE
  OBVIOUS
<1>1. PICK j \in 1 .. Len(pv[e]) : pv[e][j].conn = c /\ View(pv[e], c) = ViewOf(pv[e][j])
  BY ViewThere, TableAssumption DEF AInv
<1>2. pv[e][j].stat \in Status
  BY Parts, AgentFields
<1> QED
  BY <1>1, <1>2 DEF ViewOf, Status, Permanent, Closing

\* The packet that sox_COMMIN handles.
LEMMA FirstPacket ==
    ASSUME IInv, AInv, NEW e \in End, chan[e] # << >>
    PROVE  LET m == Head(chan[e])
           IN  /\ m \in Packet /\ Letter(e, m)
               /\ m.type # "SENT" => m \in Post(chan[e], m.conn)
<1>1. chan[e] \in Seq(Packet)
  BY DEF IInv, TypeOK
<1>2. Head(chan[e]) \in Packet /\ Head(chan[e]) = chan[e][1] /\ 1 \in 1 .. Len(chan[e])
  BY <1>1, TailPlaces
<1> QED
  BY <1>2 DEF AInv, Mail, Post

\* Letters stay letters.
LEMMA MailSend ==
    ASSUME IInv, AInv, NEW p \in End, NEW m \in Packet, Letter(p, m),
           chan'[p] = Append(chan[p], m),
           Follows(m, Post(chan[p], m.conn))
    PROVE  /\ Mail(p)'
           /\ \A c : c # m.conn \/ m.type = "SENT" => Post(chan'[p], c) = Post(chan[p], c)
           /\ m.type # "SENT" => Post(chan'[p], m.conn) = Post(chan[p], m.conn) \cup {m}
<1>1. chan[p] \in Seq(Packet) /\ Mail(p)
  BY DEF IInv, TypeOK, AInv
<1>2. /\ Ordered(chan'[p])
      /\ \A c : c # m.conn \/ m.type = "SENT" => Post(chan'[p], c) = Post(chan[p], c)
      /\ m.type # "SENT" => Post(chan'[p], m.conn) = Post(chan[p], m.conn) \cup {m}
  <2> DEFINE r == Append(chan[p], m)
  <2>1. /\ Ordered(r)
        /\ \A c : c # m.conn \/ m.type = "SENT" => Post(r, c) = Post(chan[p], c)
        /\ m.type # "SENT" => Post(r, m.conn) = Post(chan[p], m.conn) \cup {m}
    BY <1>1, Added DEF Mail
  <2>2. chan'[p] = r
    OBVIOUS
  <2> HIDE DEF r
  <2> QED
    BY <2>1, <2>2, Zenon
<1>3. ASSUME NEW i \in 1 .. Len(chan'[p]) PROVE Letter(p, chan'[p][i])
  <2>1. CASE i \in 1 .. Len(chan[p])
    BY <1>1, <2>1 DEF Mail
  <2>2. CASE i \notin 1 .. Len(chan[p])
    BY <1>1, <2>2
  <2> QED
    BY <2>1, <2>2
<1> QED
  BY <1>2, <1>3 DEF Mail

\* The same when the first one is taken.
LEMMA MailTake ==
    ASSUME IInv, AInv, NEW e \in End, chan[e] # << >>, chan'[e] = Tail(chan[e])
    PROVE  LET m == Head(chan[e])
               c == m.conn
           IN  /\ Mail(e)'
               /\ \A d : d # c \/ m.type = "SENT" => Post(chan'[e], d) = Post(chan[e], d)
               /\ Post(chan'[e], c) \subseteq Post(chan[e], c)
               /\ Post(chan[e], c) \subseteq Post(chan'[e], c) \cup {m}
               /\ m.type \in {"CONNECT", "CLOSE", "CLOSED"} => Post(chan'[e], c) = {}
               /\ m.type \in {"CONNECTED", "SEND"} =>
                    \A x \in Post(chan'[e], c) : x.type \in {"SEND", "CLOSE", "CLOSED"}
<1> DEFINE m == Head(chan[e])
           c == m.conn
<1>1. chan[e] \in Seq(Packet) /\ Mail(e)
  BY DEF IInv, TypeOK, AInv
<1>2. /\ Ordered(chan'[e])
      /\ \A d : d # c \/ m.type = "SENT" => Post(chan'[e], d) = Post(chan[e], d)
      /\ m.type # "SENT" => /\ Post(chan'[e], c) \subseteq Post(chan[e], c)
                            /\ Post(chan[e], c) \subseteq Post(chan'[e], c) \cup {m}
      /\ m.type \in {"CONNECT", "CLOSE", "CLOSED"} => Post(chan'[e], c) = {}
      /\ m.type \in {"CONNECTED", "SEND"} =>
           \A x \in Post(chan'[e], c) : x.type \in {"SEND", "CLOSE", "CLOSED"}
  <2> DEFINE r == Tail(chan[e])
  <2>1. /\ Ordered(r)
        /\ \A d : d # c \/ m.type = "SENT" => Post(r, d) = Post(chan[e], d)
        /\ m.type # "SENT" => /\ Post(r, c) \subseteq Post(chan[e], c)
                              /\ Post(chan[e], c) \subseteq Post(r, c) \cup {m}
        /\ m.type \in {"CONNECT", "CLOSE", "CLOSED"} => Post(r, c) = {}
        /\ m.type \in {"CONNECTED", "SEND"} =>
             \A x \in Post(r, c) : x.type \in {"SEND", "CLOSE", "CLOSED"}
    BY <1>1, Taken DEF Mail
  <2>2. chan'[e] = r
    OBVIOUS
  <2> HIDE DEF r
  <2> QED
    BY <2>1, <2>2, Zenon
<1>3. \A i \in 1 .. Len(chan'[e]) : Letter(e, chan'[e][i])
  <2>1. /\ Len(chan'[e]) = Len(chan[e]) - 1
        /\ \A i \in 1 .. Len(chan[e]) - 1 :
             chan'[e][i] = chan[e][i + 1] /\ i + 1 \in 1 .. Len(chan[e])
    BY <1>1, TailPlaces
  <2> QED
    BY <1>1, <2>1 DEF Mail
<1> QED
  BY <1>2, <1>3 DEF Mail

\* What the three ways to use the channels do, at both ends.
LEMMA Sends ==
    ASSUME IInv, AInv, NEW e \in End, NEW p, p = Peer(e), NEW m \in Packet, Letter(p, m),
           Send(e, m), Follows(m, Post(chan[p], m.conn))
    PROVE  /\ Mail(e)' /\ Mail(p)' /\ chan'[e] = chan[e]
           /\ \A c : c # m.conn \/ m.type = "SENT" => Post(chan'[p], c) = Post(chan[p], c)
           /\ m.type # "SENT" => Post(chan'[p], m.conn) = Post(chan[p], m.conn) \cup {m}
<1>1. p \in End /\ p # e /\ chan \in [End -> Seq(Packet)] /\ Mail(e)
  BY Ends DEF IInv, TypeOK, AInv
<1>2. chan'[e] = chan[e] /\ chan'[p] = Append(chan[p], m)
  BY <1>1 DEF Send
<1>3. Mail(e)'
  BY <1>1, <1>2 DEF Mail
<1>4. /\ Mail(p)'
      /\ \A c : c # m.conn \/ m.type = "SENT" => Post(chan'[p], c) = Post(chan[p], c)
      /\ m.type # "SENT" => Post(chan'[p], m.conn) = Post(chan[p], m.conn) \cup {m}
  BY <1>1, <1>2, MailSend
<1> QED
  BY <1>2, <1>3, <1>4, Zenon

\* A packet is taken.
LEMMA Takes ==
    ASSUME IInv, AInv, NEW e \in End, NEW p, p = Peer(e), chan[e] # << >>, Take(e)
    PROVE  /\ Mail(e)' /\ Mail(p)' /\ chan'[p] = chan[p] /\ chan'[e] = Tail(chan[e])
<1>1. p \in End /\ p # e /\ chan \in [End -> Seq(Packet)] /\ Mail(p)
  BY Ends DEF IInv, TypeOK, AInv
<1>2. chan'[p] = chan[p] /\ chan'[e] = Tail(chan[e])
  BY <1>1 DEF Take
<1>3. Mail(p)'
  BY <1>1, <1>2 DEF Mail
<1> QED
  BY <1>2, <1>3, MailTake

\* A packet is taken and another one is sent.
LEMMA TakesSends ==
    ASSUME IInv, AInv, NEW e \in End, NEW p, p = Peer(e), NEW m \in Packet, Letter(p, m),
           chan[e] # << >>, TakeSend(e, m),
           Follows(m, Post(chan[p], m.conn))
    PROVE  /\ Mail(e)' /\ Mail(p)' /\ chan'[e] = Tail(chan[e])
           /\ \A c : c # m.conn \/ m.type = "SENT" => Post(chan'[p], c) = Post(chan[p], c)
           /\ m.type # "SENT" => Post(chan'[p], m.conn) = Post(chan[p], m.conn) \cup {m}
<1>1. p \in End /\ p # e /\ chan \in [End -> Seq(Packet)]
  BY Ends DEF IInv, TypeOK
<1>2. chan'[e] = Tail(chan[e]) /\ chan'[p] = Append(chan[p], m)
  BY <1>1 DEF TakeSend
<1>3. /\ Mail(p)'
      /\ \A c : c # m.conn \/ m.type = "SENT" => Post(chan'[p], c) = Post(chan[p], c)
      /\ m.type # "SENT" => Post(chan'[p], m.conn) = Post(chan[p], m.conn) \cup {m}
  BY <1>1, <1>2, MailSend
<1>4. Mail(e)'
  BY <1>2, MailTake
<1> QED
  BY <1>2, <1>3, <1>4, Zenon

\* A table that stays.
LEMMA Stays ==
    ASSUME AInv, NEW e \in End, pv' = pv, UNCHANGED <<scan, qin>>
    PROVE  Shape(e)' /\ Distinct(pv[e])' /\ Waits(e)' /\ Waits(Peer(e))'
<1>1. Shape(e) /\ Distinct(pv[e]) /\ Waits(e) /\ Waits(Peer(e))
  BY Ends DEF AInv
<1> QED
  BY <1>1 DEF Shape, Waits

\* An agent of a connection that changes, but for its connection.
LEMMA Sets ==
    ASSUME IInv, AInv, NEW e \in End, NEW k \in 1 .. Len(pv[e]), NEW b \in Agent,
           SetAgent(e, k, b), k > Fixed(e), Regular(e, b), b.conn = pv[e][k].conn,
           b.stat = "CONNECT" => pv[e][k].stat = "CONNECT", UNCHANGED <<scan, qin>>
    PROVE  /\ pv'[Peer(e)] = pv[Peer(e)] /\ Shape(e)' /\ Distinct(pv[e])'
           /\ Waits(e)' /\ Waits(Peer(e))'
           /\ View(pv'[e], b.conn) = ViewOf(b)
           /\ \A d \in Conn : d # b.conn => View(pv'[e], d) = View(pv[e], d)
<1>1. pv \in [End -> Seq(Agent)] /\ Peer(e) \in End /\ Peer(e) # e /\ NoConn \notin Conn
  BY Ends, TableAssumption DEF IInv, TypeOK
<1>2. /\ pv'[Peer(e)] = pv[Peer(e)] /\ Len(pv'[e]) = Len(pv[e]) /\ pv'[e][k] = b
      /\ \A i \in 1 .. Len(pv[e]) : i # k => pv'[e][i] = pv[e][i]
  BY <1>1 DEF SetAgent
<1>3. /\ Shape(e) /\ Distinct(pv[e]) /\ Waits(e) /\ Waits(Peer(e))
      /\ Len(pv[e]) \in Nat /\ Fixed(e) \in 2 .. 3
  BY <1>1, Ends DEF AInv
<1>4. b.conn # NoConn
  BY <1>1 DEF Regular
<1>5. /\ Distinct(pv'[e]) /\ View(pv'[e], b.conn) = ViewOf(b)
      /\ \A d \in Conn : d # b.conn => View(pv'[e], d) = View(pv[e], d)
  BY <1>2, <1>3, <1>4, ViewSet
<1>6. Shape(e)'
  <2>1. ~(k <= Fixed(e))
    BY <1>3
  <2>2. \A j \in 1 .. Len(pv'[e]) : Fits(e, pv'[e][j], j)
    BY <1>2, <1>3, <2>1 DEF Shape, Fits
  <2> QED
    BY <1>2, <1>3, <2>2 DEF Shape
<1>7. Waits(e)'
  <2> SUFFICES ASSUME scan[e] = 0, NEW i \in qin[e]
               PROVE  i <= Len(pv'[e]) /\ pv'[e][i].stat # "CONNECT"
    BY DEF Waits
  <2>1. i <= Len(pv[e]) /\ pv[e][i].stat # "CONNECT" /\ i \in Nat \ {0}
    BY <1>3 DEF Waits, IInv, TypeOK
  <2>2. i \in 1 .. Len(pv[e])
    BY <1>3, <2>1
  <2> QED
    BY <1>2, <2>1, <2>2
<1>8. Waits(Peer(e))'
  BY <1>2, <1>3 DEF Waits
<1> QED
  BY <1>2, <1>5, <1>6, <1>7, <1>8

\* What a place that is done with leaves alone.
LEMMA Rests ==
    ASSUME NEW e, NEW n, NEW clear, Done(e, n, clear) \/ DoneIn(e, clear)
    PROVE  UNCHANGED <<scan, qin>>
  BY DEF Done, DoneIn

\* The fields of a packet.
LEMMA PackFields ==
    ASSUME NEW t, NEW r, NEW s, NEW c, NEW n
    PROVE  LET m == Pack(t, r, s, c, n)
           IN  m.type = t /\ m.raid = r /\ m.said = s /\ m.conn = c /\ m.len = n
  BY DEF Pack

\* A packet that an agent of end e sends on its own is a letter.
LEMMA OwnLetter ==
    ASSUME IInv, AInv, NEW e \in End, NEW k \in 1 .. Len(pv[e]), Regular(e, pv[e][k]),
           NEW t \in {"SEND", "SENT", "CLOSE"}, NEW n \in Nat, t = "SENT" => n > 0,
           NEW a, a = pv[e][k]
    PROVE  LET m == Pack(t, a.xaid, a.laid, a.conn, n) IN m \in Packet /\ Letter(Peer(e), m)
<1>1. /\ a.laid \in Aid /\ a.xaid \in Aid /\ a.conn \in Conn \cup {NoConn}
      /\ Regular(e, a) /\ Peer(Peer(e)) = e
  BY Parts, AgentFields, Ends
<1>2. Pack(t, a.xaid, a.laid, a.conn, n) \in Packet
  BY <1>1, Packs
<1>3. a.laid \in Fixed(e) .. NOAID
  <2>1. a.laid \in Fixed(e) .. NSOCK - 2
    BY <1>1 DEF Regular
  <2>2. NSOCK \in 4 .. 255 /\ NOAID = 255 /\ Fixed(e) \in 2 .. 3
    BY TableAssumption, Ends DEF NOAID
  <2> QED
    BY <2>1, <2>2
<1> QED
  BY <1>1, <1>2, <1>3, PackFields DEF Letter, Regular

-----------------------------------------------------------------------------
(* Local events. *)

\* PS_OUT: a SENT more, and the agent is as before.
LEMMA FlushAddr ==
    ASSUME IInv, AInv, NEW e \in End, NEW k \in 1 .. Len(pv[e]), Flush(e, k)
    PROVE  AInv'
<1> DEFINE a == pv[e][k]
           p == Peer(e)
<1>1. PICK w \in 1 .. a.rem :
        /\ SetAgent(e, k, [a EXCEPT
             !.rem = @ - w, !.stat = IF @ = "CLOSED" THEN @ ELSE "OPEN"])
        /\ Send(e, Pack("SENT", a.xaid, a.laid, a.conn, w))
  BY DEF Flush
<1>2. UNCHANGED <<scan, qin>>
  BY Rests DEF Flush
<1>3. a.rem \in Nat /\ a.stat \in Status /\ a \in Agent
  BY Parts, AgentFields
<1>4. w \in Nat /\ w > 0 /\ a.rem > 0 /\ a.rem - w \in Nat
  BY <1>1, <1>3
<1>5. /\ k > Fixed(e) /\ Regular(e, a) /\ a.conn \in Conn
      /\ View(pv[e], a.conn) = ViewOf(a)
  BY <1>4, Regulars DEF Regular
<1> DEFINE m == Pack("SENT", a.xaid, a.laid, a.conn, w)
           s == IF a.stat = "CLOSED" THEN a.stat ELSE "OPEN"
           b == [a EXCEPT !.rem = a.rem - w, !.stat = s]
<1>6. m \in Packet /\ Letter(p, m) /\ m.type = "SENT"
  BY <1>4, <1>5, OwnLetter, PackFields
<1> HIDE DEF a
<1>7. a.stat \in {"OPEN", "SENDING", "CLOSED"} /\ s \in {"OPEN", "CLOSED"}
  <2>1. a.stat \notin {"CONNECT", "CLOSE"}
    BY <1>4, <1>5 DEF Regular
  <2> QED
    BY <1>3, <1>5, <2>1 DEF Regular, Status, Closing
<1>8. /\ b.conn = a.conn /\ b.laid = a.laid /\ b.xaid = a.xaid /\ b.stat = s
      /\ b.ludp = a.ludp /\ b.rpend = a.rpend /\ b \in Agent
  BY <1>3, <1>4, <1>7 DEF Agent, Status, Closing
<1>9. Regular(e, b) /\ ViewOf(b) = ViewOf(a)
  BY <1>5, <1>7, <1>8 DEF Regular, ViewOf, Permanent
<1>10. SetAgent(e, k, b) /\ Send(e, m)
  BY <1>1
<1> HIDE DEF b, m, s
<1>11. /\ Mail(e)' /\ Mail(p)' /\ chan'[e] = chan[e]
       /\ \A c : Post(chan'[p], c) = Post(chan[p], c)
  <2>1. /\ Mail(e)' /\ Mail(p)' /\ chan'[e] = chan[e]
        /\ \A c : c # m.conn \/ m.type = "SENT" => Post(chan'[p], c) = Post(chan[p], c)
        /\ m.type # "SENT" => Post(chan'[p], m.conn) = Post(chan[p], m.conn) \cup {m}
    BY <1>6, <1>10, Sends DEF Follows
  <2> QED
    BY <1>6, <2>1
<1>12. /\ pv'[p] = pv[p] /\ Shape(e)' /\ Distinct(pv[e])' /\ Waits(e)' /\ Waits(p)'
       /\ View(pv'[e], a.conn) = View(pv[e], a.conn)
       /\ \A d \in Conn : d # a.conn => View(pv'[e], d) = View(pv[e], d)
  <2>1. b.stat # "CONNECT"
    BY <1>7, <1>8
  <2> QED
    BY <1>2, <1>5, <1>8, <1>9, <1>10, <2>1, Sets DEF a
<1>13. Both(View(pv[e], a.conn), View(pv[p], a.conn), Post(chan[e], a.conn), Post(chan[p], a.conn))
  BY <1>5, Shaken
<1> QED
  BY <1>5, <1>11, <1>12, <1>13, Keeps

\* Nothing changes that the invariant is about.
LEMMA Idle == ASSUME AInv, UNCHANGED <<pv, scan, qin, chan>> PROVE AInv'
  BY DEF AInv, Shape, Waits, Mail, Shake

\* The input of a closing agent.
LEMMA RelayIgnoredAddr ==
    ASSUME AInv, NEW e \in End, NEW k, RelayIgnored(e, k)
    PROVE  AInv'
<1>1. UNCHANGED <<pv, scan, qin, chan>>
  BY DEF RelayIgnored, Done, table
<1> QED
  BY <1>1, Idle

\* There are no agents of UDP.
LEMMA AgeAddr ==
    ASSUME IInv, AInv, NEW e \in End, NEW k \in 1 .. Len(pv[e]), Age(e, k)
    PROVE  AInv'
  BY Regulars DEF Age

\* An agent that relays is connected.
LEMMA Relaying ==
    ASSUME IInv, AInv, NEW e \in End, NEW k \in 1 .. Len(pv[e]), TurnIn(e, k),
           pv[e][k].stat \notin Permanent \cup Closing
    PROVE  /\ pv[e][k].stat \in {"OPEN", "SENDING"} /\ k > Fixed(e) /\ Regular(e, pv[e][k])
           /\ View(pv[e], pv[e][k].conn) = ViewOf(pv[e][k])
           /\ ViewOf(pv[e][k]).st = "LIVE"
           /\ ViewOf(pv[e][k]).laid = pv[e][k].laid /\ ViewOf(pv[e][k]).xaid = pv[e][k].xaid
<1>1. pv[e][k].stat \in Status
  BY Parts, AgentFields
<1>2. pv[e][k].stat # "CONNECT"
  BY DEF AInv, Waits, TurnIn, Turn
<1>3. pv[e][k].stat \in {"OPEN", "SENDING"}
  BY <1>1, <1>2 DEF Status
<1>4. ViewOf(pv[e][k]).st = "LIVE"
  BY <1>3 DEF ViewOf
<1> QED
  BY <1>3, <1>4, Regulars DEF ViewOf

\* sock2comm: a SEND more.
LEMMA RelayAddr ==
    ASSUME IInv, AInv, NEW e \in End, NEW k \in 1 .. Len(pv[e]), Relay(e, k)
    PROVE  AInv'
<1> DEFINE a == pv[e][k]
           p == Peer(e)
           s == IF a.rpend + 1 < 0 THEN "SENDING" ELSE "OPEN"
           b == [a EXCEPT !.sent = a.sent + 1, !.rpend = a.rpend + 1, !.stat = s]
           m == Pack("SEND", a.xaid, a.laid, a.conn, 1)
<1>1. SetAgent(e, k, b) /\ Send(e, m)
  BY DEF Relay
<1>2. UNCHANGED <<scan, qin>>
  BY Rests DEF Relay
<1>3. a.rpend + 1 \in Int /\ a.sent + 1 \in Nat /\ a \in Agent
  BY Parts, AgentFields
<1>4. /\ k > Fixed(e) /\ Regular(e, a) /\ a.conn \in Conn
      /\ View(pv[e], a.conn) = ViewOf(a) /\ ViewOf(a).st = "LIVE"
      /\ ViewOf(a).laid = a.laid /\ ViewOf(a).xaid = a.xaid
      /\ a.stat \in {"OPEN", "SENDING"}
  BY Relaying DEF Relay, Regular
<1>5. m \in Packet /\ Letter(p, m) /\ m.type = "SEND" /\ m.conn = a.conn /\ m.raid = a.xaid
  BY <1>4, OwnLetter, PackFields
<1> HIDE DEF a
<1>6. /\ b.conn = a.conn /\ b.laid = a.laid /\ b.xaid = a.xaid /\ b.stat \in {"OPEN", "SENDING"}
      /\ b.ludp = a.ludp /\ b \in Agent
  BY <1>3 DEF Agent, Status
<1> HIDE DEF b, m, s
<1>7. Regular(e, b) /\ ViewOf(b) = ViewOf(a)
  BY <1>4, <1>6 DEF Regular, ViewOf, Permanent
<1>8. Both(View(pv[e], a.conn), View(pv[p], a.conn), Post(chan[e], a.conn), Post(chan[p], a.conn))
  BY <1>4, Shaken
<1>9. /\ \A y \in Post(chan[p], a.conn) : y.type \in {"CONNECTED", "SEND"}
      /\ Both(View(pv[e], a.conn), View(pv[p], a.conn), Post(chan[e], a.conn),
              Post(chan[p], a.conn) \cup {m})
  BY <1>4, <1>5, <1>8, ShakeSend
<1>10. Follows(m, Post(chan[p], m.conn))
  BY <1>5, <1>9 DEF Follows
<1>11. /\ Mail(e)' /\ Mail(p)' /\ chan'[e] = chan[e]
       /\ \A c : c # m.conn \/ m.type = "SENT" => Post(chan'[p], c) = Post(chan[p], c)
       /\ m.type # "SENT" => Post(chan'[p], m.conn) = Post(chan[p], m.conn) \cup {m}
  BY <1>1, <1>5, <1>10, Sends
<1>12. /\ pv'[p] = pv[p] /\ Shape(e)' /\ Distinct(pv[e])' /\ Waits(e)' /\ Waits(p)'
       /\ View(pv'[e], a.conn) = View(pv[e], a.conn)
       /\ \A d \in Conn : d # a.conn => View(pv'[e], d) = View(pv[e], d)
  BY <1>1, <1>2, <1>4, <1>6, <1>7, Sets DEF a
<1> QED
  BY <1>4, <1>5, <1>9, <1>11, <1>12, Keeps

\* End of file: CLOSE.
LEMMA RelayEofAddr ==
    ASSUME IInv, AInv, NEW e \in End, NEW k \in 1 .. Len(pv[e]), RelayEof(e, k)
    PROVE  AInv'
<1> DEFINE a == pv[e][k]
           p == Peer(e)
           b == [a EXCEPT !.stat = "CLOSE", !.rem = 0]
           m == Pack("CLOSE", a.xaid, a.laid, a.conn, 0)
<1>1. SetAgent(e, k, b) /\ Send(e, m)
  BY DEF RelayEof
<1>2. UNCHANGED <<scan, qin>>
  BY Rests DEF RelayEof
<1>3. a \in Agent
  BY Parts, AgentFields
<1>4. /\ k > Fixed(e) /\ Regular(e, a) /\ a.conn \in Conn /\ a.laid # NOAID
      /\ View(pv[e], a.conn) = ViewOf(a) /\ ViewOf(a).st = "LIVE"
      /\ ViewOf(a).laid = a.laid /\ ViewOf(a).xaid = a.xaid
  BY Relaying, Regulars DEF RelayEof, Regular
<1>5. /\ m \in Packet /\ Letter(p, m) /\ m.type = "CLOSE" /\ m.conn = a.conn
      /\ m.raid = a.xaid /\ m.said = a.laid
  BY <1>4, OwnLetter, PackFields
<1> HIDE DEF a
<1>6. /\ b.conn = a.conn /\ b.laid = a.laid /\ b.xaid = a.xaid /\ b.stat = "CLOSE"
      /\ b.rem = 0 /\ b.ludp = a.ludp /\ b \in Agent
  BY <1>3 DEF Agent, Status, Closing
<1> HIDE DEF b, m
<1>7. Regular(e, b) /\ ViewOf(b).st = "CLOSE" /\ ViewOf(b).laid = ViewOf(a).laid
  BY <1>4, <1>6 DEF Regular, ViewOf, Permanent
<1>8. Both(View(pv[e], a.conn), View(pv[p], a.conn), Post(chan[e], a.conn), Post(chan[p], a.conn))
  BY <1>4, Shaken
<1>9. /\ \A y \in Post(chan[p], a.conn) : y.type \in {"CONNECTED", "SEND"}
      /\ Both(ViewOf(b), View(pv[p], a.conn), Post(chan[e], a.conn),
              Post(chan[p], a.conn) \cup {m})
  BY <1>4, <1>5, <1>7, <1>8, ShakeEof
<1>10. Follows(m, Post(chan[p], m.conn))
  BY <1>5, <1>9 DEF Follows
<1>11. /\ Mail(e)' /\ Mail(p)' /\ chan'[e] = chan[e]
       /\ \A c : c # m.conn \/ m.type = "SENT" => Post(chan'[p], c) = Post(chan[p], c)
       /\ m.type # "SENT" => Post(chan'[p], m.conn) = Post(chan[p], m.conn) \cup {m}
  BY <1>1, <1>5, <1>10, Sends
<1>12. /\ pv'[p] = pv[p] /\ Shape(e)' /\ Distinct(pv[e])' /\ Waits(e)' /\ Waits(p)'
       /\ View(pv'[e], a.conn) = ViewOf(b)
       /\ \A d \in Conn : d # a.conn => View(pv'[e], d) = View(pv[e], d)
  BY <1>1, <1>2, <1>4, <1>6, <1>7, Sets DEF a
<1> QED
  BY <1>4, <1>5, <1>9, <1>11, <1>12, Keeps

-----------------------------------------------------------------------------
(* sox_fdset, and new agents. *)

\* The scan polls nobody that waits for CONNECTED.
LEMMA FdsetDoneAddr == ASSUME IInv, AInv, NEW e \in End, FdsetDone(e) PROVE AInv'
<1>1. /\ pv' = pv /\ chan' = chan
      /\ \A x \in End : x # e => scan'[x] = scan[x] /\ qin'[x] = qin[x]
      /\ qin'[e] = {i \in 1 .. Len(pv[e]) :
                      pv[e][i].stat \notin {"COMMOUT", "CONNECT", "CLOSE", "SENDING"}}
  BY DEF FdsetDone, table, IInv, TypeOK
<1>2. \A x \in End : Waits(x)'
  BY <1>1 DEF AInv, Waits
<1> QED
  BY <1>1, <1>2 DEF AInv, Shape, Mail, Shake

\* delAgent: the agent is CLOSED, and nothing but SENT is on its way to it.
LEMMA FdsetFreeAddr ==
    ASSUME IInv, AInv, NEW e \in End, NEW k \in 1 .. Len(pv[e]), FdsetFree(e, k)
    PROVE  AInv'
<1> DEFINE a == pv[e][k]
           p == Peer(e)
<1>1. /\ pv' = [pv EXCEPT ![e] = RemoveAt(@, k)] /\ a.stat = "CLOSED" /\ chan' = chan
      /\ scan' = [scan EXCEPT ![e] = k + 1] /\ qin' = qin
  BY DEF FdsetFree, MayFree
<1>2. p \in End /\ p # e /\ Fixed(e) \in 2 .. 3
  BY Ends
<1>3. /\ pv'[p] = pv[p] /\ Len(pv'[e]) = Len(pv[e]) - 1 /\ Len(pv[e]) \in Nat
      /\ \A i \in 1 .. Len(pv[e]) - 1 : pv'[e][i] = IF i < k THEN pv[e][i] ELSE pv[e][i + 1]
      /\ pv[e] \in Seq(Agent) /\ scan'[e] = k + 1 /\ scan'[p] = scan[p]
  <2>1. pv \in [End -> Seq(Agent)] /\ scan \in [End -> 0 .. NSOCK + 1]
    BY DEF IInv, TypeOK
  <2>2. pv'[p] = pv[p] /\ pv'[e] = RemoveAt(pv[e], k) /\ scan'[e] = k + 1 /\ scan'[p] = scan[p]
    BY <1>1, <1>2, <2>1
  <2>3. pv[e] \in Seq(Agent) /\ Len(pv[e]) \in Nat
    BY <2>1
  <2> QED
    BY <2>2, <2>3, RemoveFacts
<1>4. /\ k > Fixed(e) /\ a.conn \in Conn /\ a.conn # NoConn
      /\ View(pv[e], a.conn) = ViewOf(a)
  BY <1>1, Regulars DEF Regular, Permanent
<1>5. ViewOf(a).st = "CLOSED"
  BY <1>1 DEF ViewOf
<1> HIDE DEF a
<1>6. Distinct(pv[e]) /\ Shape(e) /\ Waits(p)
  BY <1>2 DEF AInv
<1>7. /\ Distinct(pv'[e]) /\ View(pv'[e], a.conn) = Nobody
      /\ \A c \in Conn : c # a.conn => View(pv'[e], c) = View(pv[e], c)
  BY <1>3, <1>4, <1>6, ViewDel DEF a
<1>8. Shape(e)'
  <2>1. Fixed(e) <= Len(pv'[e])
    BY <1>2, <1>3, <1>4
  <2>2. ASSUME NEW j \in 1 .. Len(pv'[e]) PROVE Fits(e, pv'[e][j], j)
    <3>1. CASE j < k
      <4>1. j \in 1 .. Len(pv[e]) /\ pv'[e][j] = pv[e][j]
        BY <1>3, <3>1
      <4> QED
        BY <1>6, <4>1 DEF Shape
    <3>2. CASE ~(j < k)
      <4>1. /\ j + 1 \in 1 .. Len(pv[e]) /\ pv'[e][j] = pv[e][j + 1]
            /\ ~(j <= Fixed(e)) /\ ~(j + 1 <= Fixed(e))
        BY <1>2, <1>3, <1>4, <3>2
      <4> QED
        BY <1>6, <4>1 DEF Shape, Fits
    <3> QED
      BY <3>1, <3>2
  <2> QED
    BY <2>1, <2>2 DEF Shape
<1>9. Waits(e)' /\ Waits(p)'
  BY <1>1, <1>3, <1>6 DEF Waits
<1>10. Mail(e)' /\ Mail(p)'
  BY <1>1, <1>2 DEF AInv, Mail
<1>11. Both(Nobody, View(pv[p], a.conn), Post(chan[e], a.conn), Post(chan[p], a.conn))
  BY <1>4, <1>5, Shaken, ShakeFree
<1> QED
  BY <1>1, <1>3, <1>4, <1>7, <1>8, <1>9, <1>10, <1>11, Keeps

\* No table has all its NSOCK places taken.
HasRoom == \A e \in End : Len(pv[e]) < NSOCK

\* A table that holds every id has NSOCK - 1 agents.
LEMMA AllIds ==
    ASSUME NEW n \in Nat, NEW f \in [1 .. n -> Aid],
           \A x \in 0 .. NSOCK - 2 : \E i \in 1 .. n : f[i] = x
    PROVE  NSOCK - 1 <= n
<1> DEFINE T == {f[i] : i \in 1 .. n}
           U == 0 .. NSOCK - 2
<1>0. NSOCK \in 4 .. 255
  BY TableAssumption
<1>1. f \in Surjection(1 .. n, T)
  BY DEF Surjection
<1>2. IsFiniteSet(1 .. n) /\ Cardinality(1 .. n) = n
  BY FS_Interval
<1>3. IsFiniteSet(T) /\ Cardinality(T) <= n
  BY <1>1, <1>2, FS_Surjection
<1>4. U \in SUBSET T
  OBVIOUS
<1>5. Cardinality(U) <= Cardinality(T)
  BY <1>3, <1>4, FS_Subset
<1>6. Cardinality(U) = NSOCK - 1
  <2>1. 0 \in Int /\ NSOCK - 2 \in Int /\ ~(0 > NSOCK - 2)
    BY <1>0
  <2>2. Cardinality(0 .. NSOCK - 2) = (NSOCK - 2) - 0 + 1
    BY <2>1, FS_Interval
  <2> QED
    BY <1>0, <2>2
<1>7. Cardinality(T) \in Nat
  BY <1>3, FS_CardinalityType
<1> HIDE DEF T, U
<1> QED
  BY <1>0, <1>3, <1>5, <1>6, <1>7

\* newAgent finds an id that is free and not one of a permanent agent, and adds
\* the agent at the end.
LEMMA Makes ==
    ASSUME IInv, AInv, HasRoom, HasRoom', NEW e \in End, NEW aid, NEW x, NEW st,
           NEW u \in BOOLEAN, NEW c,
           MakeAgent(e, pv[e], aid, x, st, u, c)
    PROVE  /\ pv'[e] = Append(pv[e], NewAgent(aid, x, st, u, c)) /\ pv'[Peer(e)] = pv[Peer(e)]
           /\ aid \in Fixed(e) .. NSOCK - 2
<1>0. NSOCK \in 4 .. 255 /\ NOAID = 255 /\ Fixed(e) \in 2 .. 3
  BY TableAssumption, Ends DEF NOAID
<1>1. /\ pv \in [End -> Seq(Agent)] /\ pv[e] \in Seq(Agent) /\ Len(pv[e]) \in Nat
      /\ Len(pv[e]) < NSOCK /\ nlaid[e] \in 0 .. NSOCK - 1
  BY DEF IInv, TypeOK, HasRoom
<1>2. Sweep(pv[e]) = pv[e]
  <2>1. \A i \in 1 .. Len(pv[e]) : ~pv[e][i].ludp
    BY Regulars
  <2>2. Sweep(pv[e]) = [i \in 1 .. Len(pv[e]) |-> pv[e][i]]
    BY <2>1 DEF Sweep
  <2> QED
    BY <1>1, <2>2
<1>3. PICK id \in -1 .. NSOCK - 2 :
        Newlaid(aidactive[e], nlaid[e], id) /\ aid = IF id = -1 THEN NOAID ELSE id
  BY <1>1 DEF MakeAgent
<1>4. pv'[e] = Append(pv[e], NewAgent(aid, x, st, u, c)) /\ pv'[Peer(e)] = pv[Peer(e)]
  <2>1. pv' = [pv EXCEPT ![e] = Append(pv[e], NewAgent(aid, x, st, u, c))]
    BY <1>1, <1>2 DEF MakeAgent
  <2> QED
    BY <1>1, <2>1, Ends
<1>5. Len(pv[e]) + 1 < NSOCK
  <2>2. Len(pv'[e]) = Len(pv[e]) + 1
    BY <1>1, <1>4
  <2>3. Len(pv'[e]) < NSOCK
    BY DEF HasRoom
  <2> QED
    BY <2>2, <2>3
<1>6. aidactive[e] = {pv[e][i].laid : i \in 1 .. Len(pv[e])} \ {NOAID}
  BY DEF IInv, IdsMatch
<1>7. id # -1
  <2> SUFFICES ASSUME id = -1 PROVE FALSE
    OBVIOUS
  <2>1. 0 .. NSOCK - 2 \subseteq aidactive[e]
    <3>1. ~(id \in nlaid[e] .. NSOCK - 2) /\ ~(id \in 0 .. nlaid[e] - 1)
      BY <1>0, <1>1
    <3>2. nlaid[e] .. NSOCK - 2 \subseteq aidactive[e] /\ 0 .. nlaid[e] - 1 \subseteq aidactive[e]
      BY <1>3, <3>1 DEF Newlaid
    <3>3. \A y \in 0 .. NSOCK - 2 : y \in nlaid[e] .. NSOCK - 2 \/ y \in 0 .. nlaid[e] - 1
      BY <1>0, <1>1
    <3> QED
      BY <3>2, <3>3
  <2> DEFINE f == [i \in 1 .. Len(pv[e]) |-> pv[e][i].laid]
  <2>2. \A i \in 1 .. Len(pv[e]) : pv[e][i].laid \in Aid
    BY Parts, AgentFields
  <2>3. f \in [1 .. Len(pv[e]) -> Aid]
    BY <2>2
  <2>4. \A y \in 0 .. NSOCK - 2 : \E i \in 1 .. Len(pv[e]) : f[i] = y
    BY <1>6, <2>1
  <2> HIDE DEF f
  <2>5. NSOCK - 1 <= Len(pv[e])
    BY <1>1, <2>3, <2>4, AllIds
  <2> QED
    BY <1>0, <1>1, <1>5, <2>5
<1>8. id \notin aidactive[e] /\ id \in 0 .. NSOCK - 2
  BY <1>0, <1>1, <1>3, <1>7 DEF Newlaid
<1>9. ~(id < Fixed(e))
  <2> SUFFICES ASSUME id < Fixed(e) PROVE FALSE
    OBVIOUS
  <2>1. id + 1 \in 1 .. Len(pv[e]) /\ id + 1 <= Fixed(e)
    BY <1>0, <1>1, <1>8 DEF AInv, Shape
  <2>2. pv[e][id + 1].laid = (id + 1) - 1
    BY <2>1 DEF AInv, Shape, Fits, Fixture
  <2>3. id # NOAID
    BY <1>0, <1>8
  <2> QED
    BY <1>6, <1>8, <2>1, <2>2, <2>3
<1> QED
  BY <1>0, <1>3, <1>4, <1>7, <1>8, <1>9

\* A table with an agent more.
LEMMA Adds ==
    ASSUME IInv, AInv, NEW e \in End, NEW b \in Agent, Regular(e, b), ~Has(pv[e], b.conn),
           pv'[e] = Append(pv[e], b), pv'[Peer(e)] = pv[Peer(e)], UNCHANGED <<scan, qin>>
    PROVE  /\ Shape(e)' /\ Distinct(pv[e])' /\ Waits(e)' /\ Waits(Peer(e))'
           /\ View(pv'[e], b.conn) = ViewOf(b)
           /\ \A d \in Conn : d # b.conn => View(pv'[e], d) = View(pv[e], d)
<1>1. pv \in [End -> Seq(Agent)] /\ Peer(e) \in End /\ Peer(e) # e
  BY Ends DEF IInv, TypeOK
<1>2. /\ Shape(e) /\ Distinct(pv[e]) /\ Waits(e) /\ Waits(Peer(e))
      /\ pv[e] \in Seq(Agent) /\ Len(pv[e]) \in Nat /\ Fixed(e) \in 2 .. 3
  BY <1>1, Ends DEF AInv
<1> DEFINE t == pv'[e]
<1>4. /\ Len(t) = Len(pv[e]) + 1 /\ t[Len(pv[e]) + 1] = b
      /\ \A i \in 1 .. Len(pv[e]) : t[i] = pv[e][i]
  BY <1>2
<1> HIDE DEF t
<1>5. /\ Distinct(t) /\ View(t, b.conn) = ViewOf(b)
      /\ \A d \in Conn : d # b.conn => View(t, d) = View(pv[e], d)
  <2>1. b.conn \in Conn
    BY DEF Regular
  <2> QED
    BY <1>2, <1>4, <2>1, ViewAdd
<1>6. Shape(e)'
  <2>1. Fixed(e) <= Len(pv[e])
    BY <1>2 DEF Shape
  <2>2. ASSUME NEW j \in 1 .. Len(t) PROVE Fits(e, t[j], j)
    <3>1. CASE j \in 1 .. Len(pv[e])
      BY <1>2, <1>4, <3>1 DEF Shape
    <3>2. CASE j = Len(pv[e]) + 1
      <4>1. ~(j <= Fixed(e))
        BY <1>2, <2>1, <3>2
      <4> QED
        BY <1>4, <3>2, <4>1 DEF Fits
    <3> QED
      BY <1>2, <1>4, <3>1, <3>2
  <2> QED
    BY <1>2, <1>4, <2>1, <2>2 DEF Shape, t
<1>7. Waits(e)'
  <2> SUFFICES ASSUME scan[e] = 0, NEW i \in qin[e]
               PROVE  i <= Len(t) /\ t[i].stat # "CONNECT"
    BY DEF Waits, t
  <2>1. i <= Len(pv[e]) /\ pv[e][i].stat # "CONNECT" /\ i \in Nat \ {0}
    BY <1>2 DEF Waits, IInv, TypeOK
  <2>2. i \in 1 .. Len(pv[e])
    BY <1>2, <2>1
  <2> QED
    BY <1>2, <1>4, <2>1, <2>2
<1>8. Waits(Peer(e))'
  BY <1>2 DEF Waits
<1> QED
  BY <1>5, <1>6, <1>7, <1>8 DEF t

\* A new agent is one of a connection.
LEMMA NewRegular ==
    ASSUME NEW e \in End, NEW aid \in Fixed(e) .. NSOCK - 2, NEW x \in Fixed(Peer(e)) .. NOAID,
           NEW st \in {"CONNECT", "OPEN"}, NEW u \in BOOLEAN, ~u, NEW c \in Conn,
           NEW b, b = NewAgent(aid, x, st, u, c)
    PROVE  /\ b \in Agent /\ Regular(e, b) /\ b.conn = c
           /\ ViewOf(b).laid = aid /\ ViewOf(b).xaid = x
           /\ ViewOf(b).st = IF st = "OPEN" THEN "LIVE" ELSE st
<1>0. NSOCK \in 4 .. 255 /\ NOAID = 255 /\ Fixed(e) \in 2 .. 3 /\ Fixed(Peer(e)) \in 2 .. 3
  BY TableAssumption, Ends DEF NOAID
<1>1. aid \in 0 .. 255 /\ x \in 0 .. 255
  BY <1>0
<1> QED
  BY <1>1 DEF NewAgent, Agent, Regular, ViewOf, Aid, Status, Permanent

\* sox_accept1: a client that nobody knows, and CONNECT on its behalf.
LEMMA AcceptAddr ==
    ASSUME IInv, AInv, UDP = {}, HasRoom, HasRoom', NEW e \in End, NEW k, NEW c \in Conn,
           Accept(e, k, c)
    PROVE  AInv'
<1> DEFINE p == Peer(e)
<1>0. /\ NSOCK \in 4 .. 255 /\ NOAID = 255 /\ Fixed(e) \in 2 .. 3 /\ Fixed(p) \in 2 .. 3
      /\ p \in End /\ Peer(p) = e
  BY TableAssumption, Ends DEF NOAID
<1> DEFINE u == c \in UDP
<1>1. PICK aid \in Ids : /\ MakeAgent(e, pv[e], aid, NOAID, "CONNECT", u, c)
                         /\ Send(e, Pack("CONNECT", NOAID, aid, c, 0))
  BY DEF Accept
<1>2. UNCHANGED <<scan, qin>>
  BY Rests DEF Accept
<1>3. u \in BOOLEAN /\ ~u
  OBVIOUS
<1> HIDE DEF u
<1> DEFINE b == NewAgent(aid, NOAID, "CONNECT", u, c)
           m == Pack("CONNECT", NOAID, aid, c, 0)
<1>4. aid \in Fixed(e) .. NSOCK - 2 /\ pv'[e] = Append(pv[e], b) /\ pv'[p] = pv[p]
  BY <1>1, <1>3, Makes
<1>5. /\ b \in Agent /\ Regular(e, b) /\ b.conn = c
      /\ ViewOf(b).laid = aid /\ ViewOf(b).st = "CONNECT"
  <2>1. NOAID \in Fixed(p) .. NOAID
    BY <1>0
  <2>2. b = NewAgent(aid, NOAID, "CONNECT", u, c)
    OBVIOUS
  <2> HIDE DEF b
  <2> QED
    BY <1>3, <1>4, <2>1, <2>2, NewRegular
<1>6. /\ m \in Packet /\ Letter(p, m) /\ m.type = "CONNECT" /\ m.conn = c
      /\ m.raid = NOAID /\ m.said = aid
  <2>1. aid \in Aid /\ NOAID \in Aid /\ aid \in Fixed(e) .. NOAID /\ NOAID \in Fixed(p) .. NOAID
    <3>1. aid \in Fixed(e) .. NSOCK - 2
      BY <1>4
    <3> QED
      BY <1>0, <3>1 DEF Aid
  <2> QED
    BY <1>0, <2>1, Packs, PackFields DEF Letter
<1> HIDE DEF b, m
<1>7. /\ ~Has(pv[e], c) /\ ~Has(pv[p], c)
      /\ Post(chan[e], c) = {} /\ Post(chan[p], c) = {}
  <2>1. ~Seen(c)
    BY DEF Accept
  <2> QED
    BY <1>0, <2>1 DEF Seen, Has, Post
<1>8. /\ pv'[p] = pv[p] /\ Shape(e)' /\ Distinct(pv[e])' /\ Waits(e)' /\ Waits(p)'
      /\ View(pv'[e], c) = ViewOf(b)
      /\ \A d \in Conn : d # c => View(pv'[e], d) = View(pv[e], d)
  BY <1>2, <1>4, <1>5, <1>7, Adds
<1>9. /\ Mail(e)' /\ Mail(p)' /\ chan'[e] = chan[e]
      /\ \A d : d # m.conn \/ m.type = "SENT" => Post(chan'[p], d) = Post(chan[p], d)
      /\ m.type # "SENT" => Post(chan'[p], m.conn) = Post(chan[p], m.conn) \cup {m}
  <2>1. Follows(m, Post(chan[p], m.conn)) /\ Send(e, m)
    BY <1>1, <1>6, <1>7 DEF Follows, m
  <2> QED
    BY <1>6, <2>1, Sends
<1>10. View(pv[p], c) = Nobody
  BY <1>7, ViewNone
<1>11. Both(ViewOf(b), Nobody, {}, {m})
  BY <1>5, <1>6, ShakeAccept
<1>12. Post(chan'[p], c) = {m} /\ Post(chan'[e], c) = {}
  BY <1>6, <1>7, <1>9
<1> QED
  BY <1>6, <1>8, <1>9, <1>10, <1>11, <1>12, Keeps

-----------------------------------------------------------------------------
(* Packets. *)

\* The table of end e changes for no connection but c.
Moves(e, c) ==
    /\ pv'[Peer(e)] = pv[Peer(e)] /\ Shape(e)' /\ Distinct(pv[e])'
    /\ Waits(e)' /\ Waits(Peer(e))'
    /\ \A d \in Conn : d # c => View(pv'[e], d) = View(pv[e], d)

\* The packet that end e handles, and the ones of its connection behind it.
LEMMA Handles ==
    ASSUME IInv, AInv, NEW e \in End, NEW t, Recv(e, t)
    PROVE  LET m == Head(chan[e])
               k == Post(chan[e], m.conn)
               r == Post(Tail(chan[e]), m.conn)
           IN  /\ chan[e] # << >> /\ m \in Packet /\ Letter(e, m) /\ m.type = t
               /\ m.conn \in Conn /\ m.said \in Aid /\ m.len \in Nat
               /\ t # "SENT" => m \in k /\ r \subseteq k /\ k \subseteq r \cup {m}
               /\ t = "SENT" => r = k
               /\ t \in {"CONNECT", "CLOSE", "CLOSED"} => r = {}
               /\ t \in {"CONNECTED", "SEND"} =>
                    \A y \in r : y.type \in {"SEND", "CLOSE", "CLOSED"}
               /\ Both(View(pv[e], m.conn), View(pv[Peer(e)], m.conn),
                       k, Post(chan[Peer(e)], m.conn))
<1> DEFINE m == Head(chan[e])
           k == Post(chan[e], m.conn)
           r == Post(Tail(chan[e]), m.conn)
<1>1. chan[e] # << >> /\ m.type = t
  BY DEF Recv
<1>2. m \in Packet /\ Letter(e, m) /\ (m.type # "SENT" => m \in k)
  BY <1>1, FirstPacket
<1>3. chan[e] \in Seq(Packet) /\ Ordered(chan[e])
  BY DEF IInv, TypeOK, AInv, Mail
<1>4. /\ m.type = "SENT" => r = k
      /\ m.type # "SENT" => r \subseteq k /\ k \subseteq r \cup {m}
      /\ m.type \in {"CONNECT", "CLOSE", "CLOSED"} => r = {}
      /\ m.type \in {"CONNECTED", "SEND"} =>
           \A y \in r : y.type \in {"SEND", "CLOSE", "CLOSED"}
  BY <1>1, <1>3, Taken
<1> HIDE DEF m
<1>5. m.conn \in Conn /\ m.said \in Aid /\ m.len \in Nat
  BY <1>2 DEF Letter, Packet
<1>6. Both(View(pv[e], m.conn), View(pv[Peer(e)], m.conn), k, Post(chan[Peer(e)], m.conn))
  BY <1>5, Shaken
<1> QED
  BY <1>1, <1>2, <1>4, <1>5, <1>6 DEF m

\* It is taken.
LEMMA TakeKeeps ==
    ASSUME IInv, AInv, NEW e \in End, chan[e] # << >>, NEW c \in Conn, c = Head(chan[e]).conn,
           Take(e), Moves(e, c),
           Both(View(pv'[e], c), View(pv[Peer(e)], c),
                Post(Tail(chan[e]), c), Post(chan[Peer(e)], c))
    PROVE  AInv'
<1>1. Mail(e)' /\ Mail(Peer(e))' /\ chan'[Peer(e)] = chan[Peer(e)] /\ chan'[e] = Tail(chan[e])
  BY Takes
<1>2. \A d : d # c => Post(chan'[e], d) = Post(chan[e], d)
  BY <1>1, MailTake
<1> QED
  BY <1>1, <1>2, Keeps DEF Moves

\* It is taken and answered by n.
LEMMA AnswerKeeps ==
    ASSUME IInv, AInv, NEW e \in End, chan[e] # << >>, NEW c \in Conn, c = Head(chan[e]).conn,
           NEW n \in Packet, Letter(Peer(e), n), n.conn = c, TakeSend(e, n), Moves(e, c),
           Follows(n, Post(chan[Peer(e)], c)),
           NEW l, l = IF n.type = "SENT" THEN Post(chan[Peer(e)], c)
                        ELSE Post(chan[Peer(e)], c) \cup {n},
           Both(View(pv'[e], c), View(pv[Peer(e)], c), Post(Tail(chan[e]), c), l)
    PROVE  AInv'
<1> DEFINE p == Peer(e)
<1>0. p = Peer(e)
  OBVIOUS
<1> HIDE DEF p
<1>1. /\ Mail(e)' /\ Mail(p)' /\ chan'[e] = Tail(chan[e])
      /\ \A d : d # n.conn \/ n.type = "SENT" => Post(chan'[p], d) = Post(chan[p], d)
      /\ n.type # "SENT" => Post(chan'[p], n.conn) = Post(chan[p], n.conn) \cup {n}
  BY <1>0, TakesSends
<1>2. \A d : d # c => Post(chan'[e], d) = Post(chan[e], d)
  BY <1>1, MailTake
<1>3. Post(chan'[p], c) = l
  BY <1>0, <1>1
<1> QED
  BY <1>0, <1>1, <1>2, <1>3, Keeps DEF Moves

\* An answer is a letter.
LEMMA Answers ==
    ASSUME NEW e \in End, NEW m \in Packet, Letter(e, m),
           NEW t \in {"CONNECTED", "SENT", "CLOSE", "CLOSED"}, NEW s \in Fixed(e) .. NOAID,
           NEW w \in Nat, t = "SENT" => w > 0, NEW n, n = Pack(t, m.said, s, m.conn, w)
    PROVE  /\ n \in Packet /\ Letter(Peer(e), n)
           /\ n.type = t /\ n.raid = m.said /\ n.said = s /\ n.conn = m.conn
<1>0. NOAID = 255 /\ Fixed(e) \in 2 .. 3 /\ Peer(Peer(e)) = e
  BY Ends DEF NOAID
<1>1. m.said \in Aid /\ m.conn \in Conn \cup {NoConn}
  BY DEF Packet
<1>2. s \in Aid
  BY <1>0 DEF Aid
<1>3. n.type = t /\ n.raid = m.said /\ n.said = s /\ n.conn = m.conn /\ n.len = w
  BY PackFields
<1>4. n \in Packet
  BY <1>1, <1>2, Packs
<1> QED
  BY <1>0, <1>3, <1>4 DEF Letter

\* A table that stays does not move.
LEMMA StaysMoves ==
    ASSUME AInv, NEW e \in End, NEW c, pv' = pv, UNCHANGED <<scan, qin>>
    PROVE  Moves(e, c)
  BY Stays DEF Moves

\* SOX_CONNECT finds nobody.
LEMMA ForNobody ==
    ASSUME IInv, AInv, NEW e \in End
    PROVE  HeardBy(e) = pv[e]
<1>1. \A j \in 1 .. Len(pv[e]) : Heard(pv[e][j]) = pv[e][j]
  BY Regulars
<1>2. HeardBy(e) = [j \in 1 .. Len(pv[e]) |-> pv[e][j]]
  BY <1>1 DEF HeardBy
<1>3. pv[e] \in Seq(Agent)
  BY DEF IInv, TypeOK
<1> QED
  BY <1>2, <1>3

\* SOX_CONNECT: an agent for the server, and CONNECTED.
LEMMA RecvConnectAddr ==
    ASSUME IInv, AInv, HasRoom, HasRoom', NEW e \in End, RecvConnect(e)
    PROVE  AInv'
<1> DEFINE p == Peer(e)
           m == Head(chan[e])
           c == m.conn
           k == Post(chan[e], c)
           r == Post(Tail(chan[e]), c)
           u == FALSE
<1>0. /\ NSOCK \in 4 .. 255 /\ NOAID = 255 /\ Recv(e, "CONNECT")
      /\ HeardBy(e) = pv[e] /\ u \in BOOLEAN /\ ~u
  BY TableAssumption, ForNobody DEF RecvConnect, NOAID
<1>1. PICK aid \in Ids : /\ MakeAgent(e, HeardBy(e), aid, m.said, "OPEN", u, c)
                         /\ TakeSend(e, Pack("CONNECTED", m.said, aid, c, 0))
  BY DEF RecvConnect
<1>2. UNCHANGED <<scan, qin>>
  BY Rests DEF RecvConnect
<1>3. /\ chan[e] # << >> /\ m \in Packet /\ Letter(e, m) /\ m.type = "CONNECT" /\ c \in Conn
      /\ m \in k /\ r = {}
      /\ Both(View(pv[e], c), View(pv[p], c), k, Post(chan[p], c))
  <2>1. m = Head(chan[e]) /\ k = Post(chan[e], m.conn) /\ r = Post(Tail(chan[e]), m.conn)
    OBVIOUS
  <2>2. Recv(e, "CONNECT")
    BY <1>0
  <2> HIDE DEF m, k, r
  <2> QED
    BY <2>1, <2>2, Handles
<1> DEFINE b == NewAgent(aid, m.said, "OPEN", u, c)
           n == Pack("CONNECTED", m.said, aid, c, 0)
<1> HIDE DEF u
<1>4. aid \in Fixed(e) .. NSOCK - 2 /\ pv'[e] = Append(pv[e], b) /\ pv'[p] = pv[p]
  BY <1>0, <1>1, Makes
<1>5. m.said \in Fixed(p) .. NOAID
  BY <1>3 DEF Letter
<1>6. b = NewAgent(aid, m.said, "OPEN", u, c) /\ n = Pack("CONNECTED", m.said, aid, c, 0)
  OBVIOUS
<1> HIDE DEF b, n, m, k, r, c
<1>7. /\ b \in Agent /\ Regular(e, b) /\ b.conn = c
      /\ ViewOf(b).laid = aid /\ ViewOf(b).xaid = m.said /\ ViewOf(b).st = "LIVE"
  BY <1>0, <1>3, <1>4, <1>5, <1>6, NewRegular
<1>8. /\ n \in Packet /\ Letter(p, n)
      /\ n.type = "CONNECTED" /\ n.raid = m.said /\ n.said = aid /\ n.conn = c
  <2>1. aid \in Fixed(e) .. NOAID
    <3>1. aid \in Fixed(e) .. NSOCK - 2 /\ Fixed(e) \in 2 .. 3
      BY <1>4, Ends
    <3> QED
      BY <1>0, <3>1
  <2> QED
    BY <1>3, <1>6, <2>1, Answers DEF c
<1>9. /\ View(pv[e], c).st = "NONE" /\ Post(chan[p], c) = {}
      /\ Both(ViewOf(b), View(pv[p], c), {}, {n})
  <2> DEFINE v == ViewOf(b)
             o == View(pv[p], c)
             a == View(pv[e], c)
             l == Post(chan[p], c)
  <2>1. m \in k /\ Both(a, o, k, l) /\ m.type = "CONNECT" /\ v.st = "LIVE" /\ v.xaid = m.said
    BY <1>3, <1>7
  <2>2. n.type = "CONNECTED" /\ n.raid = m.said /\ n.said = v.laid
    BY <1>7, <1>8
  <2> HIDE DEF v, o, a, l
  <2>3. a.st = "NONE" /\ l = {} /\ Both(v, o, {}, {n})
    BY <2>1, <2>2, ShakeConnect
  <2> QED
    BY <2>3 DEF v, o, a, l
<1>10. ~Has(pv[e], c)
  BY <1>3, <1>9, NotThere
<1>11. Moves(e, c) /\ View(pv'[e], c) = ViewOf(b)
  BY <1>2, <1>4, <1>7, <1>10, Adds DEF Moves
<1>12. Follows(n, Post(chan[p], c)) /\ TakeSend(e, n)
  BY <1>1, <1>6, <1>9 DEF Follows, c, m
<1>13. c = Head(chan[e]).conn /\ r = Post(Tail(chan[e]), c)
  BY DEF c, m, r
<1>14. {n} = IF n.type = "SENT" THEN Post(chan[p], c) ELSE Post(chan[p], c) \cup {n}
  BY <1>8, <1>9
<1> QED
  BY <1>3, <1>8, <1>9, <1>11, <1>12, <1>13, <1>14, AnswerKeeps

\* SOX_CONNECT: CLOSE on behalf of nobody.
LEMMA RecvConnectFailAddr ==
    ASSUME IInv, AInv, NEW e \in End, RecvConnectFail(e)
    PROVE  AInv'
<1> DEFINE p == Peer(e)
           m == Head(chan[e])
           c == m.conn
           k == Post(chan[e], c)
           r == Post(Tail(chan[e]), c)
           n == Pack("CLOSE", m.said, NOAID, c, 0)
<1>0. Recv(e, "CONNECT") /\ TakeSend(e, n) /\ pv' = [pv EXCEPT ![e] = HeardBy(e)]
  BY DEF RecvConnectFail
<1>1. pv' = pv
  BY <1>0, ForNobody DEF IInv, TypeOK
<1>2. UNCHANGED <<scan, qin>>
  BY Rests DEF RecvConnectFail
<1>3. /\ chan[e] # << >> /\ m \in Packet /\ Letter(e, m) /\ m.type = "CONNECT" /\ c \in Conn
      /\ m \in k /\ r = {}
      /\ Both(View(pv[e], c), View(pv[p], c), k, Post(chan[p], c))
  <2>1. m = Head(chan[e]) /\ k = Post(chan[e], m.conn) /\ r = Post(Tail(chan[e]), m.conn)
    OBVIOUS
  <2>2. Recv(e, "CONNECT")
    BY <1>0
  <2> HIDE DEF m, k, r
  <2> QED
    BY <2>1, <2>2, Handles
<1>4. /\ n \in Packet /\ Letter(p, n)
      /\ n.type = "CLOSE" /\ n.raid = m.said /\ n.said = NOAID /\ n.conn = c
  <2>1. NOAID \in Fixed(e) .. NOAID
    BY Ends DEF NOAID
  <2> QED
    BY <1>3, <2>1, Answers
<1> HIDE DEF n, m, k, r, c
<1>5. Post(chan[p], c) = {} /\ Both(View(pv[e], c), View(pv[p], c), {}, {n})
  BY <1>3, <1>4, ShakeRefuse
<1>6. Moves(e, c) /\ View(pv'[e], c) = View(pv[e], c)
  BY <1>1, <1>2, StaysMoves
<1>7. Follows(n, Post(chan[p], c))
  BY <1>5 DEF Follows
<1>8. c = Head(chan[e]).conn /\ r = Post(Tail(chan[e]), c)
  BY DEF c, m, r
<1>9. {n} = IF n.type = "SENT" THEN Post(chan[p], c) ELSE Post(chan[p], c) \cup {n}
  BY <1>4, <1>5
<1> QED
  BY <1>0, <1>3, <1>4, <1>5, <1>6, <1>7, <1>8, <1>9, AnswerKeeps

\* The agent of m's connection is the one that m finds.
LEMMA FindsHim ==
    ASSUME IInv, AInv, NEW e \in End, NEW m, m = Head(chan[e]), m.conn \in Conn,
           View(pv[e], m.conn).st # "NONE", View(pv[e], m.conn).laid = m.raid
    PROVE  /\ ~FindsNone(e)
           /\ \A j \in 1 .. Len(pv[e]) : Finds(e, j) =>
                /\ pv[e][j].conn = m.conn /\ View(pv[e], m.conn) = ViewOf(pv[e][j])
                /\ j > Fixed(e) /\ Regular(e, pv[e][j])
                /\ pv[e][j] \in Agent /\ Heard(pv[e][j]) = pv[e][j]
<1>1. PICK i \in 1 .. Len(pv[e]) :
        /\ pv[e][i].conn = m.conn /\ View(pv[e], m.conn) = ViewOf(pv[e][i])
        /\ i > Fixed(e) /\ Regular(e, pv[e][i])
        /\ \A j \in 1 .. Len(pv[e]) : pv[e][j].laid = View(pv[e], m.conn).laid => j = i
  BY Found
<1>2. pv[e][i].laid = m.raid
  BY <1>1 DEF ViewOf
<1>3. ~FindsNone(e)
  BY <1>2 DEF FindsNone
<1>4. \A j \in 1 .. Len(pv[e]) : Finds(e, j) => j = i
  BY <1>1 DEF Finds
<1>5. pv[e][i] \in Agent /\ Heard(pv[e][i]) = pv[e][i]
  BY Regulars
<1> QED
  BY <1>1, <1>3, <1>4, <1>5

\* SOX_CONNECTED: the agent learns the id of its peer.
LEMMA RecvConnectedAddr ==
    ASSUME IInv, AInv, NEW e \in End, RecvConnected(e)
    PROVE  AInv'
<1> DEFINE p == Peer(e)
           m == Head(chan[e])
           c == m.conn
           k == Post(chan[e], c)
           r == Post(Tail(chan[e]), c)
           v == View(pv[e], c)
           o == View(pv[p], c)
           l == Post(chan[p], c)
<1>1. PICK j \in 1 .. Len(pv[e]) :
        /\ Finds(e, j)
        /\ SetAgent(e, j, [Heard(pv[e][j]) EXCEPT !.xaid = m.said, !.stat = "OPEN"])
  BY DEF RecvConnected
<1>2. UNCHANGED <<scan, qin>> /\ Recv(e, "CONNECTED") /\ Take(e)
  BY Rests DEF RecvConnected
<1>3. /\ m = Head(chan[e]) /\ c = m.conn
      /\ k = Post(chan[e], m.conn) /\ r = Post(Tail(chan[e]), m.conn)
  OBVIOUS
<1> DEFINE a == pv[e][j]
           b == [a EXCEPT !.xaid = m.said, !.stat = "OPEN"]
<1> HIDE DEF m, k, r, c
<1>4. /\ chan[e] # << >> /\ m \in Packet /\ Letter(e, m) /\ m.type = "CONNECTED" /\ c \in Conn
      /\ m \in k /\ r \subseteq k /\ m.said \in Aid
      /\ \A y \in r : y.type \in {"SEND", "CLOSE", "CLOSED"}
      /\ Both(v, o, k, l)
  BY <1>2, <1>3, Handles
<1> HIDE DEF v, o, l
<1>5. v.st = "CONNECT" /\ v.laid = m.raid
  BY <1>4 DEF Both, Half
<1>6. /\ a.conn = c /\ v = ViewOf(a) /\ j > Fixed(e) /\ Regular(e, a) /\ a \in Agent
      /\ Heard(pv[e][j]) = a
  BY <1>1, <1>3, <1>4, <1>5, FindsHim DEF v
<1>7. SetAgent(e, j, b)
  BY <1>1, <1>6
<1> HIDE DEF a
<1>8. /\ b \in Agent /\ b.conn = c /\ b.laid = a.laid /\ b.xaid = m.said /\ b.stat = "OPEN"
      /\ b.ludp = a.ludp
  BY <1>4, <1>6 DEF Agent, Status
<1> HIDE DEF b
<1>9. Regular(e, b) /\ ViewOf(b).st = "LIVE" /\ ViewOf(b).laid = v.laid /\ ViewOf(b).xaid = m.said
  BY <1>4, <1>6, <1>8 DEF Regular, ViewOf, Permanent, Letter
<1>10. Moves(e, c) /\ View(pv'[e], c) = ViewOf(b)
  <2>1. b.conn = pv[e][j].conn /\ b.stat # "CONNECT"
    BY <1>6, <1>8 DEF a
  <2> QED
    BY <1>2, <1>6, <1>7, <1>8, <1>9, <2>1, Sets DEF Moves
<1>11. Both(ViewOf(b), o, r, l)
  <2> DEFINE x == ViewOf(b)
  <2>1. x.st = "LIVE" /\ x.laid = v.laid /\ x.xaid = m.said
    BY <1>9
  <2> HIDE DEF x
  <2>2. Both(x, o, r, l)
    BY <1>4, <2>1, ShakeConnected
  <2> QED
    BY <2>2 DEF x
<1> QED
  BY <1>2, <1>3, <1>4, <1>10, <1>11, TakeKeeps DEF o, l

\* SOX_SEND: the data is written or kept, and SENT reports what is written.
LEMMA RecvSendAddr ==
    ASSUME IInv, AInv, NEW e \in End, RecvSend(e)
    PROVE  AInv'
<1> DEFINE p == Peer(e)
           m == Head(chan[e])
           c == m.conn
           k == Post(chan[e], c)
           r == Post(Tail(chan[e]), c)
           v == View(pv[e], c)
           o == View(pv[p], c)
           l == Post(chan[p], c)
<1>1. PICK j \in 1 .. Len(pv[e]) :
        /\ Finds(e, j) /\ pv[e][j].stat \notin Closing
        /\ \E w \in 0 .. pv[e][j].rem + m.len :
             /\ SetAgent(e, j, [Heard(pv[e][j]) EXCEPT !.rem = pv[e][j].rem + m.len - w])
             /\ IF w = 0 THEN Take(e)
                  ELSE TakeSend(e, Pack("SENT", m.said, m.raid, m.conn, w))
             /\ DoneIn(e, IF pv[e][j].rem > 0 THEN w >= pv[e][j].rem ELSE w < m.len)
  BY DEF RecvSend
<1> DEFINE a == pv[e][j]
<1>2. PICK w \in 0 .. a.rem + m.len :
        /\ SetAgent(e, j, [Heard(a) EXCEPT !.rem = a.rem + m.len - w])
        /\ IF w = 0 THEN Take(e) ELSE TakeSend(e, Pack("SENT", m.said, m.raid, m.conn, w))
        /\ UNCHANGED <<scan, qin>>
  BY <1>1, Rests
<1>3. /\ m = Head(chan[e]) /\ c = m.conn
      /\ k = Post(chan[e], m.conn) /\ r = Post(Tail(chan[e]), m.conn)
  OBVIOUS
<1>4. Recv(e, "SEND")
  BY DEF RecvSend
<1> DEFINE b == [a EXCEPT !.rem = a.rem + m.len - w]
           n == Pack("SENT", m.said, m.raid, m.conn, w)
<1> HIDE DEF m, k, r, c
<1>5. /\ chan[e] # << >> /\ m \in Packet /\ Letter(e, m) /\ m.type = "SEND" /\ c \in Conn
      /\ m \in k /\ r \subseteq k /\ k \subseteq r \cup {m} /\ m.len \in Nat
      /\ \A y \in r : y.type \in {"SEND", "CLOSE", "CLOSED"}
      /\ Both(v, o, k, l)
  BY <1>3, <1>4, Handles
<1> HIDE DEF v, o, l
<1>6. v.st \in {"LIVE", "CLOSE"} /\ v.laid = m.raid /\ Both(v, o, r, l)
  <2>1. v.st \in Here /\ v.laid = m.raid /\ Both(v, o, r, l)
    BY <1>5, ShakeTake
  <2>2. v.st # "CONNECT"
    <3>1. \A x \in k : x.type # "CONNECTED"
      BY <1>5
    <3> QED
      BY <1>5, <3>1 DEF Both, Half
  <2> QED
    BY <2>1, <2>2 DEF Here
<1>7. /\ a.conn = c /\ v = ViewOf(a) /\ j > Fixed(e) /\ Regular(e, a) /\ a \in Agent
      /\ Heard(a) = a
  BY <1>1, <1>3, <1>5, <1>6, FindsHim DEF v
<1>8. SetAgent(e, j, b)
  BY <1>2, <1>7
<1>9. a.stat \notin {"CONNECT", "CLOSE", "CLOSED"} /\ a.rem \in Nat
  BY <1>1, <1>6, <1>7 DEF ViewOf, Closing, Agent
<1> HIDE DEF a
<1>10. w \in Nat /\ a.rem + m.len - w \in Nat
  BY <1>2, <1>5, <1>9
<1>11. /\ b \in Agent /\ b.conn = c /\ b.laid = a.laid /\ b.xaid = a.xaid /\ b.stat = a.stat
       /\ b.ludp = a.ludp
  BY <1>7, <1>10 DEF Agent
<1> HIDE DEF b
<1>12. Regular(e, b) /\ ViewOf(b) = v
  BY <1>7, <1>9, <1>11 DEF Regular, ViewOf
<1>13. Moves(e, c) /\ View(pv'[e], c) = v
  <2>1. b.conn = pv[e][j].conn /\ b.stat # "CONNECT"
    BY <1>7, <1>9, <1>11 DEF a
  <2> QED
    BY <1>2, <1>7, <1>8, <1>11, <1>12, <2>1, Sets DEF Moves
<1>14. CASE w = 0
  BY <1>2, <1>3, <1>5, <1>6, <1>13, <1>14, TakeKeeps DEF o, l
<1>15. CASE w # 0
  <2>1. TakeSend(e, n) /\ w > 0
    BY <1>2, <1>10, <1>15
  <2>2. m.raid \in Fixed(e) .. NOAID
    BY <1>5 DEF Letter
  <2>3. n = Pack("SENT", m.said, m.raid, m.conn, w)
    OBVIOUS
  <2> HIDE DEF n
  <2>4. n \in Packet /\ Letter(p, n) /\ n.type = "SENT" /\ n.conn = c
    BY <1>3, <1>5, <1>10, <2>1, <2>2, <2>3, Answers
  <2>5. Follows(n, l) /\ l = IF n.type = "SENT" THEN l ELSE l \cup {n}
    BY <2>4 DEF Follows
  <2> QED
    BY <1>3, <1>5, <1>6, <1>13, <2>1, <2>4, <2>5, AnswerKeeps DEF o, l
<1> QED
  BY <1>14, <1>15

\* SOX_SENT may find an agent of another connection, but it changes only what
\* is pending there: a_rpend, and the status of one that is connected.
LEMMA RecvSentAddr ==
    ASSUME IInv, AInv, NEW e \in End, RecvSent(e)
    PROVE  AInv'
<1> DEFINE p == Peer(e)
           m == Head(chan[e])
           c == m.conn
<1>1. PICK j \in 1 .. Len(pv[e]) :
        /\ Finds(e, j) /\ pv[e][j].stat \notin Closing
        /\ SetAgent(e, j, [Heard(pv[e][j]) EXCEPT
             !.rpend = pv[e][j].rpend - m.len,
             !.stat = IF pv[e][j].rpend - m.len < 0 THEN @ ELSE "OPEN"])
        /\ DoneIn(e, pv[e][j].rpend - m.len >= 0)
  BY DEF RecvSent
<1>2. UNCHANGED <<scan, qin>> /\ Recv(e, "SENT") /\ Take(e)
  BY <1>1, Rests DEF RecvSent
<1>3. /\ chan[e] # << >> /\ Letter(e, m) /\ m.type = "SENT" /\ c \in Conn /\ m.len \in Nat
      /\ Post(Tail(chan[e]), c) = Post(chan[e], c)
      /\ Both(View(pv[e], c), View(pv[p], c), Post(chan[e], c), Post(chan[p], c))
  BY <1>2, Handles
<1> DEFINE a == pv[e][j]
           q == a.rpend - m.len
           s == IF q < 0 THEN a.stat ELSE "OPEN"
           b == [a EXCEPT !.rpend = q, !.stat = s]
<1>4. m.raid >= Fixed(e) /\ m.len > 0
  BY <1>3, Ends DEF Letter, NOAID
<1>5. a.laid = m.raid
  BY <1>1 DEF Finds
<1>6. /\ a \in Agent /\ Heard(a) = a /\ j > Fixed(e) /\ Regular(e, a) /\ a.conn \in Conn
      /\ View(pv[e], a.conn) = ViewOf(a)
  BY <1>4, <1>5, Regulars DEF Regular
<1>7. SetAgent(e, j, b)
  BY <1>1, <1>6
<1>8. a.stat \in {"CONNECT", "OPEN", "SENDING"} /\ a.rpend \in Int
  BY <1>1, <1>6 DEF Regular, Agent, Status
<1> HIDE DEF a, m
<1>9. q \in Int /\ (a.stat = "CONNECT" => q < 0) /\ s \in Status
  BY <1>3, <1>4, <1>6, <1>8 DEF Regular, Status
<1>10. s \in {"CONNECT", "OPEN", "SENDING"} /\ (s = "CONNECT" <=> a.stat = "CONNECT")
  BY <1>8, <1>9
<1> HIDE DEF q, s
<1>11. /\ b \in Agent /\ b.conn = a.conn /\ b.laid = a.laid /\ b.xaid = a.xaid /\ b.stat = s
       /\ b.rpend = q /\ b.rem = a.rem /\ b.ludp = a.ludp
  BY <1>6, <1>9 DEF Agent
<1> HIDE DEF b
<1>12. Regular(e, b) /\ ViewOf(b) = ViewOf(a)
  <2>1. Regular(e, b)
    BY <1>6, <1>9, <1>10, <1>11 DEF Regular, Permanent
  <2>2. ViewOf(b) = ViewOf(a)
    BY <1>8, <1>10, <1>11 DEF ViewOf
  <2> QED
    BY <2>1, <2>2
<1>13. Moves(e, c) /\ View(pv'[e], c) = View(pv[e], c)
  <2>1. b.conn = pv[e][j].conn /\ (b.stat = "CONNECT" => pv[e][j].stat = "CONNECT")
    BY <1>10, <1>11 DEF a
  <2>2. /\ pv'[p] = pv[p] /\ Shape(e)' /\ Distinct(pv[e])' /\ Waits(e)' /\ Waits(p)'
        /\ View(pv'[e], b.conn) = ViewOf(b)
        /\ \A d \in Conn : d # b.conn => View(pv'[e], d) = View(pv[e], d)
    BY <1>2, <1>6, <1>7, <1>11, <1>12, <2>1, Sets
  <2>3. \A d \in Conn : View(pv'[e], d) = View(pv[e], d)
    BY <1>6, <1>11, <1>12, <2>2
  <2> QED
    BY <1>3, <2>2, <2>3 DEF Moves
<1> QED
  BY <1>2, <1>3, <1>13, TakeKeeps DEF m

\* An agent that becomes CLOSED.
LEMMA ClosesHim ==
    ASSUME IInv, AInv, NEW e \in End, NEW j \in 1 .. Len(pv[e]), UNCHANGED <<scan, qin>>,
           SetAgent(e, j, [Heard(pv[e][j]) EXCEPT !.stat = "CLOSED"]),
           j > Fixed(e), Regular(e, pv[e][j]), NEW c, c = pv[e][j].conn
    PROVE  Moves(e, c) /\ View(pv'[e], c).st = "CLOSED"
<1> DEFINE a == pv[e][j]
           b == [a EXCEPT !.stat = "CLOSED"]
<1>1. a \in Agent /\ Heard(a) = a
  BY Regulars
<1>2. SetAgent(e, j, b)
  BY <1>1
<1> HIDE DEF a
<1>3. /\ b \in Agent /\ b.conn = a.conn /\ b.laid = a.laid /\ b.xaid = a.xaid
      /\ b.stat = "CLOSED" /\ b.ludp = a.ludp
  BY <1>1 DEF Agent, Status, Closing
<1> HIDE DEF b
<1>4. Regular(e, b) /\ ViewOf(b).st = "CLOSED"
  BY <1>3 DEF Regular, ViewOf, Permanent, a
<1>5. b.conn = pv[e][j].conn /\ b.stat # "CONNECT"
  BY <1>3 DEF a
<1> QED
  BY <1>2, <1>3, <1>4, <1>5, Sets DEF Moves

\* SOX_CLOSE: the agent is CLOSED, and answers unless it has sent CLOSE itself.
LEMMA RecvCloseAddr ==
    ASSUME IInv, AInv, NEW e \in End, RecvClose(e)
    PROVE  AInv'
<1> DEFINE p == Peer(e)
           m == Head(chan[e])
           c == m.conn
           k == Post(chan[e], c)
           r == Post(Tail(chan[e]), c)
           v == View(pv[e], c)
           o == View(pv[p], c)
           l == Post(chan[p], c)
           n == Pack("CLOSED", m.said, m.raid, m.conn, 0)
           x == View(pv'[e], c)
<1>1. Recv(e, "CLOSE")
  BY DEF RecvClose
<1>2. /\ chan[e] # << >> /\ m \in Packet /\ Letter(e, m) /\ m.type = "CLOSE" /\ c \in Conn
      /\ m \in k /\ r = {} /\ Both(v, o, k, l)
  BY <1>1, Handles
<1>3. m = Head(chan[e]) /\ c = m.conn
  OBVIOUS
<1>4. \/ FindsNone(e)
      \/ \E j \in 1 .. Len(pv[e]) :
           /\ Finds(e, j)
           /\ SetAgent(e, j, [Heard(pv[e][j]) EXCEPT !.stat = "CLOSED"])
           /\ IF pv[e][j].stat = "CLOSE" THEN Take(e) ELSE TakeSend(e, n)
           /\ DoneIn(e, TRUE)
  BY DEF RecvClose
<1>5. m.raid \in Fixed(e) .. NOAID
  BY <1>2 DEF Letter
<1>6. n = Pack("CLOSED", m.said, m.raid, m.conn, 0) /\ r = Post(Tail(chan[e]), c)
  OBVIOUS
<1> HIDE DEF m, c, k, r, n, x
<1>7. v.st # "NONE" /\ v.laid = m.raid
  <2> HIDE DEF v, o, l
  <2> QED
    BY <1>2 DEF Both, Half, Here
<1>8. ~FindsNone(e)
  BY <1>2, <1>3, <1>7, FindsHim
<1>9. PICK j \in 1 .. Len(pv[e]) :
        /\ Finds(e, j)
        /\ SetAgent(e, j, [Heard(pv[e][j]) EXCEPT !.stat = "CLOSED"])
        /\ IF pv[e][j].stat = "CLOSE" THEN Take(e) ELSE TakeSend(e, n)
        /\ DoneIn(e, TRUE)
  BY <1>4, <1>8
<1>10. pv[e][j].conn = c /\ v = ViewOf(pv[e][j]) /\ j > Fixed(e) /\ Regular(e, pv[e][j])
  BY <1>2, <1>3, <1>7, <1>9, FindsHim
<1>11. UNCHANGED <<scan, qin>>
  BY <1>9, Rests
<1>12. Moves(e, c) /\ x.st = "CLOSED"
  BY <1>9, <1>10, <1>11, ClosesHim DEF x
<1>13. v.st = "CLOSE" <=> pv[e][j].stat = "CLOSE"
  BY <1>10 DEF ViewOf
<1> HIDE DEF v, o, l
<1>14. CASE pv[e][j].stat = "CLOSE"
  <2>1. Both(x, o, {}, l)
    BY <1>2, <1>12, <1>13, <1>14, ShakeCross
  <2> QED
    BY <1>2, <1>3, <1>6, <1>9, <1>12, <1>14, <2>1, TakeKeeps DEF o, l, x
<1>15. CASE pv[e][j].stat # "CLOSE"
  <2>1. /\ n \in Packet /\ Letter(p, n)
        /\ n.type = "CLOSED" /\ n.raid = m.said /\ n.conn = c
    <3>1. m \in Packet /\ Letter(e, m) /\ n = Pack("CLOSED", m.said, m.raid, m.conn, 0)
      BY <1>2, <1>6
    <3> QED
      BY <1>3, <1>5, <3>1, Answers
  <2>2. (\A y \in l : y.type \in {"CONNECTED", "SEND"}) /\ Both(x, o, {}, l \cup {n})
    BY <1>2, <1>12, <1>13, <1>15, <2>1, ShakeClose
  <2> DEFINE q == l \cup {n}
  <2>3. Follows(n, l) /\ Both(x, o, {}, q) /\ q = IF n.type = "SENT" THEN l ELSE l \cup {n}
    BY <2>1, <2>2 DEF Follows
  <2> HIDE DEF q
  <2>4. TakeSend(e, n)
    BY <1>9, <1>15
  <2> QED
    BY <1>2, <1>3, <1>6, <1>12, <2>1, <2>3, <2>4, AnswerKeeps DEF o, l, x
<1> QED
  BY <1>14, <1>15

\* SOX_CLOSED: the agent had sent CLOSE.
LEMMA RecvClosedAddr ==
    ASSUME IInv, AInv, NEW e \in End, RecvClosed(e)
    PROVE  AInv'
<1> DEFINE p == Peer(e)
           m == Head(chan[e])
           c == m.conn
           k == Post(chan[e], c)
           r == Post(Tail(chan[e]), c)
           v == View(pv[e], c)
           o == View(pv[p], c)
           l == Post(chan[p], c)
           x == View(pv'[e], c)
<1>1. PICK j \in 1 .. Len(pv[e]) :
        Finds(e, j) /\ SetAgent(e, j, [Heard(pv[e][j]) EXCEPT !.stat = "CLOSED"])
  BY DEF RecvClosed
<1>2. UNCHANGED <<scan, qin>> /\ Recv(e, "CLOSED") /\ Take(e)
  BY Rests DEF RecvClosed
<1>3. /\ chan[e] # << >> /\ m.type = "CLOSED" /\ c \in Conn
      /\ m \in k /\ r = {} /\ Both(v, o, k, l)
  BY <1>2, Handles
<1>4. m = Head(chan[e]) /\ c = m.conn /\ r = Post(Tail(chan[e]), c)
  OBVIOUS
<1> HIDE DEF m, c, k, r, x
<1>5. m.raid # NOAID
  <2>1. pv[e][j].laid = m.raid
    BY <1>1, <1>4 DEF Finds
  <2> QED
    BY <2>1, Regulars
<1>6. v.st = "CLOSE" /\ v.laid = m.raid
  <2> HIDE DEF v, o, l
  <2> QED
    BY <1>3, <1>5 DEF Both, Half
<1>7. pv[e][j].conn = c /\ j > Fixed(e) /\ Regular(e, pv[e][j])
  BY <1>1, <1>3, <1>4, <1>6, FindsHim
<1>8. Moves(e, c) /\ x.st = "CLOSED"
  BY <1>1, <1>2, <1>7, ClosesHim DEF x
<1> HIDE DEF v, o, l
<1>9. Both(x, o, {}, l)
  BY <1>3, <1>6, <1>8, ShakeClosed
<1> QED
  BY <1>2, <1>3, <1>4, <1>8, <1>9, TakeKeeps DEF o, l, x

\* A packet that is dropped changes no agent.
LEMMA RecvIgnoredAddr ==
    ASSUME IInv, AInv, NEW e \in End,
           NEW t \in {"CONNECT", "CONNECTED", "SEND", "SENT", "CLOSED"}, RecvIgnored(e, t)
    PROVE  AInv'
<1> DEFINE p == Peer(e)
           m == Head(chan[e])
           c == m.conn
           k == Post(chan[e], c)
           r == Post(Tail(chan[e]), c)
           v == View(pv[e], c)
           o == View(pv[p], c)
           l == Post(chan[p], c)
<1>1. UNCHANGED <<scan, qin>> /\ Recv(e, t) /\ Take(e)
  BY Rests DEF RecvIgnored
<1>2. /\ chan[e] # << >> /\ m.type = t /\ c \in Conn
      /\ t # "SENT" => m \in k /\ r \subseteq k /\ k \subseteq r \cup {m}
      /\ t = "SENT" => r = k
      /\ t \in {"CONNECT", "CLOSE", "CLOSED"} => r = {}
      /\ Both(v, o, k, l)
  BY <1>1, Handles
<1>3. m = Head(chan[e]) /\ c = m.conn /\ r = Post(Tail(chan[e]), c)
  OBVIOUS
<1>4. \/ /\ t \notin Closing
         /\ \E j \in 1 .. Len(pv[e]) :
              /\ Finds(e, j) /\ pv[e][j].stat \in Closing
              /\ SetAgent(e, j, Heard(pv[e][j]))
      \/ t \notin {"CONNECT", "CLOSE"} /\ FindsNone(e) /\ pv' = pv
  BY DEF RecvIgnored
<1> HIDE DEF m, c, k, r
<1>5. pv' = pv
  <2>1. ASSUME NEW j \in 1 .. Len(pv[e]), SetAgent(e, j, Heard(pv[e][j])) PROVE pv' = pv
    <3>1. SetAgent(e, j, pv[e][j])
      BY <2>1, Regulars
    <3> QED
      BY <3>1 DEF SetAgent, IInv, TypeOK
  <2> QED
    BY <1>4, <2>1
<1>6. Moves(e, c) /\ View(pv'[e], c) = v
  BY <1>1, <1>5, StaysMoves
<1>7. v.st # "NONE" /\ v.laid = m.raid =>
        /\ ~FindsNone(e)
        /\ \A j \in 1 .. Len(pv[e]) : Finds(e, j) => v = ViewOf(pv[e][j])
  BY <1>2, <1>3, FindsHim
<1>8. \A j \in 1 .. Len(pv[e]) : Finds(e, j) => m.raid # NOAID
  BY <1>3, Regulars DEF Finds
<1>9. Both(v, o, r, l)
  <2>1. CASE t = "CONNECT"
    <3>1. m.raid = NOAID
      <4> HIDE DEF v, o, l
      <4> QED
        BY <1>2, <2>1 DEF Both, Half
    <3> QED
      BY <1>4, <1>8, <2>1, <3>1
  <2>2. CASE t = "CONNECTED"
    <3>1. v.st = "CONNECT" /\ v.laid = m.raid
      <4> HIDE DEF v, o, l
      <4> QED
        BY <1>2, <2>2 DEF Both, Half
    <3>2. PICK j \in 1 .. Len(pv[e]) : Finds(e, j) /\ pv[e][j].stat \in Closing
      BY <1>4, <1>7, <3>1
    <3>3. v = ViewOf(pv[e][j])
      BY <1>7, <3>1, <3>2
    <3> QED
      BY <3>1, <3>2, <3>3 DEF ViewOf, Closing
  <2>3. CASE t = "SEND"
    <3> HIDE DEF v, o, l
    <3> QED
      BY <1>2, <2>3, ShakeTake
  <2>4. CASE t = "SENT"
    BY <1>2, <2>4
  <2>5. CASE t = "CLOSED"
    <3>1. FindsNone(e)
      BY <1>4, <2>5 DEF Closing
    <3>2. v.st = "NONE"
      <4>1. \/ v.st = "NONE"
            \/ v.st = "CLOSE" /\ v.laid = m.raid
        <5> HIDE DEF v, o, l
        <5> QED
          BY <1>2, <2>5 DEF Both, Half
      <4> QED
        BY <1>7, <3>1, <4>1
    <3> HIDE DEF v, o, l
    <3>3. Both(v, o, {}, l)
      BY <1>2, <2>5, <3>2, ShakeClosed
    <3> QED
      BY <1>2, <2>5, <3>3
  <2> QED
    BY <2>1, <2>2, <2>3, <2>4, <2>5
<1> QED
  BY <1>1, <1>2, <1>3, <1>6, <1>9, TakeKeeps

-----------------------------------------------------------------------------
(* The invariant, and what follows. *)

\* Every step keeps the invariant, as long as it leaves room in the tables.
LEMMA NextAddr == ASSUME UDP = {}, IInv, AInv, HasRoom, HasRoom', [Next]_vars PROVE AInv'
<1>1. CASE UNCHANGED vars
  BY <1>1, Idle DEF vars
<1>2. ASSUME NEW e \in End, Fdset(e) PROVE AInv'
  BY <1>2, FdsetDoneAddr, FdsetFreeAddr DEF Fdset
<1>3. ASSUME NEW e \in End, Comm(e) PROVE AInv'
  BY <1>3, RecvIgnoredAddr, RecvConnectAddr, RecvConnectFailAddr, RecvConnectedAddr,
     RecvSendAddr, RecvSentAddr, RecvCloseAddr, RecvClosedAddr DEF Comm
<1>4. ASSUME NEW e \in End, Local(e) PROVE AInv'
  BY <1>4, FlushAddr, RelayIgnoredAddr, RelayAddr, RelayEofAddr, AgeAddr, AcceptAddr DEF Local
<1> QED
  BY <1>1, <1>2, <1>3, <1>4 DEF Next

\* The tables that sox_setupX sets up have the permanent agents only.
LEMMA InitTables ==
    ASSUME Init, NEW e \in End
    PROVE  /\ Len(pv[e]) = Fixed(e)
           /\ \A j \in 1 .. Fixed(e) : Fixture(pv[e][j], j)
<1> DEFINE a == NewAgent(0, NOAID, "COMMOUT", FALSE, NoConn)
           b == NewAgent(1, NOAID, "COMMIN", FALSE, NoConn)
           c == NewAgent(2, NOAID, "LISTEN", FALSE, NoConn)
<1>1. Fixture(a, 1) /\ Fixture(b, 2) /\ Fixture(c, 3)
  BY DEF NewAgent, Fixture, Standing
<1>2. pv[e] = <<a, b>> \o IF e \in Listen THEN <<c>> ELSE <<>>
  BY DEF Init
<1> HIDE DEF a, b, c
<1>3. CASE e \in Listen
  <2> DEFINE u == <<a, b>>
             v == <<c>>
             w == u \o v
             S == {a, b, c}
  <2>1. pv[e] = w /\ Fixed(e) = 3
    BY <1>2, <1>3 DEF Fixed
  <2>2. /\ u \in Seq(S) /\ Len(u) = 2 /\ u[1] = a /\ u[2] = b
        /\ v \in Seq(S) /\ Len(v) = 1 /\ v[1] = c
    OBVIOUS
  <2> HIDE DEF u, v, S
  <2>3. /\ Len(w) = Len(u) + Len(v)
        /\ \A i \in 1 .. Len(u) + Len(v) : w[i] = IF i <= Len(u) THEN u[i] ELSE v[i - Len(u)]
    BY <2>2, ConcatProperties
  <2> HIDE DEF w
  <2>4. Len(w) = 3 /\ w[1] = a /\ w[2] = b /\ w[3] = c
    BY <2>2, <2>3
  <2>5. \A j \in 1 .. 3 : j = 1 \/ j = 2 \/ j = 3
    OBVIOUS
  <2> QED
    BY <1>1, <2>1, <2>4, <2>5
<1>4. CASE e \notin Listen
  <2>1. pv[e] = <<a, b>>
    BY <1>2, <1>4
  <2>2. Fixed(e) = 2
    BY <1>4 DEF Fixed
  <2>3. \A j \in 1 .. 2 : j = 1 \/ j = 2
    OBVIOUS
  <2> QED
    BY <1>1, <2>1, <2>2, <2>3
<1> QED
  BY <1>3, <1>4

\* The invariant holds there.
LEMMA InitAddr == Init => AInv
<1> SUFFICES ASSUME Init, NEW e \in End
             PROVE  /\ Shape(e) /\ Distinct(pv[e]) /\ Waits(e) /\ Mail(e)
                    /\ \A c \in Conn : Shake(e, c)
  BY DEF AInv
<1>1. ASSUME NEW x \in End
      PROVE  /\ Len(pv[x]) = Fixed(x) /\ Fixed(x) \in 2 .. 3
             /\ \A j \in 1 .. Fixed(x) : Fixture(pv[x][j], j)
  BY Ends, InitTables
<1>2. ASSUME NEW x \in End, NEW c \in Conn PROVE View(pv[x], c) = Nobody
  <2>1. \A j \in 1 .. Len(pv[x]) : pv[x][j].conn = NoConn
    BY <1>1 DEF Fixture
  <2>2. ~Has(pv[x], c)
    BY <2>1, TableAssumption DEF Has
  <2> QED
    BY <2>2, ViewNone
<1>3. \A x \in End : chan[x] = << >> /\ qin[x] = {}
  BY DEF Init
<1>4. Shape(e)
  BY <1>1 DEF Shape, Fits
<1>5. Distinct(pv[e])
  BY <1>1 DEF Distinct, Fixture
<1>6. Waits(e) /\ Mail(e)
  BY <1>3 DEF Waits, Mail, Ordered
<1>7. ASSUME NEW c \in Conn PROVE Shake(e, c)
  <2>1. View(pv[e], c) = Nobody /\ View(pv[Peer(e)], c) = Nobody
    BY <1>2, Ends
  <2>2. Post(chan[e], c) = {} /\ Post(chan[Peer(e)], c) = {}
    BY <1>3, Ends DEF Post
  <2>3. Half(Nobody, Nobody, {}, {})
    BY DEF Half, Nobody
  <2> QED
    BY <2>1, <2>2, <2>3 DEF Shake
<1> QED
  BY <1>4, <1>5, <1>6, <1>7

\* A packet that finds an agent finds the one of its connection.
LEMMA AddressedHere == ASSUME IInv, AInv PROVE Addressed
<1> SUFFICES ASSUME NEW e \in End, NEW i \in 1 .. Len(chan[e]), NEW j \in 1 .. Len(pv[e]),
                    chan[e][i].type # "SENT", pv[e][j].laid = chan[e][i].raid
             PROVE  pv[e][j].conn = chan[e][i].conn
  BY DEF Addressed
<1> DEFINE m == chan[e][i]
           c == m.conn
           v == View(pv[e], c)
           o == View(pv[Peer(e)], c)
           k == Post(chan[e], c)
           l == Post(chan[Peer(e)], c)
<1>1. m \in Packet /\ m \in k /\ c \in Conn
  <2>1. m \in Packet
    BY DEF IInv, TypeOK
  <2> QED
    BY <2>1 DEF AInv, Mail, Letter, Post
<1>2. Both(v, o, k, l) /\ m.raid # NOAID
  BY <1>1, Shaken, Regulars
<1>3. v.st # "NONE" /\ v.laid = m.raid
  <2>1. m.type \in {"CONNECT", "CONNECTED", "SEND", "CLOSE", "CLOSED"}
    BY <1>1 DEF Packet
  <2> HIDE DEF m, v, o, k, l
  <2> QED
    BY <1>1, <1>2, <2>1 DEF Both, Half, Here
<1>4. PICK x \in 1 .. Len(pv[e]) :
        pv[e][x].conn = c /\ \A y \in 1 .. Len(pv[e]) : pv[e][y].laid = v.laid => y = x
  BY <1>1, <1>3, Found
<1> QED
  BY <1>3, <1>4

\* The permanent agents are among those that the shape of a table names.
LEMMA IntactHere == ASSUME IInv, AInv PROVE TunnelIntact
<1> SUFFICES ASSUME NEW e \in End
             PROVE  /\ pv[e][1].stat = "COMMOUT" /\ pv[e][2].stat = "COMMIN"
                    /\ e \in Listen => pv[e][3].stat = "LISTEN"
  BY DEF TunnelIntact
<1>1. Shape(e) /\ Fixed(e) \in 2 .. 3 /\ (e \in Listen => Fixed(e) = 3)
  BY Ends DEF AInv, Fixed
<1>2. \A j \in 1 .. Fixed(e) : pv[e][j].stat = Standing[j]
  <2>1. ASSUME NEW j \in 1 .. Fixed(e) PROVE j \in 1 .. Len(pv[e]) /\ j <= Fixed(e)
    <3>1. Fixed(e) <= Len(pv[e]) /\ Len(pv[e]) \in Nat
      BY <1>1 DEF Shape, IInv, TypeOK
    <3> QED
      BY <1>1, <3>1
  <2> QED
    BY <1>1, <2>1 DEF Shape, Fits, Fixture
<1> QED
  BY <1>1, <1>2 DEF Standing

\* As long as no table is full, the permanent agents come first and stay, every
\* connection has at most one agent in a table, and its two ends and the
\* packets between them are in one of the states of the handshake.
THEOREM HandshakesInductive == UDP = {} /\ Spec /\ []HasRoom => []AInv
<1>1. ASSUME UDP = {} PROVE Spec /\ []HasRoom => []AInv
  <2>1. IInv /\ AInv /\ HasRoom /\ HasRoom' /\ [Next]_vars => AInv'
    BY <1>1, NextAddr
  <2> QED
    BY <2>1, InitAddr, TablesInductive, PTL DEF Spec
<1> QED
  BY <1>1

\* sox_COMMIN, clients by TCP: a packet that finds an agent finds the one of
\* its connection, but for SENT, as long as no table is full.
THEOREM PacketsAddressed == UDP = {} /\ Spec /\ []HasRoom => []Addressed
<1>1. IInv /\ AInv => Addressed
  BY AddressedHere
<1> QED
  BY <1>1, TablesInductive, HandshakesInductive, PTL

\* No packet changes what the agents of the comm connection and of the PORTs
\* are, as long as no table is full.
THEOREM TunnelStays == UDP = {} /\ Spec /\ []HasRoom => []TunnelIntact
<1>1. IInv /\ AInv => TunnelIntact
  BY IntactHere
<1> QED
  BY <1>1, TablesInductive, HandshakesInductive, PTL

-----------------------------------------------------------------------------
(* When no table is ever full. *)

\* Behind the permanent agents there is room for one agent of each connection.
LEMMA RoomLeft ==
    ASSUME IInv, AInv, NEW e \in End, NEW S \in SUBSET Conn, IsFiniteSet(S),
           \A c \in Conn \ S : ~Has(pv[e], c)
    PROVE  Len(pv[e]) <= 3 + Cardinality(S)
<1> DEFINE F == Fixed(e)
           n == Len(pv[e])
           D == F + 1 .. n
           f == [j \in D |-> pv[e][j].conn]
<1>1. F \in 2 .. 3 /\ n \in Nat /\ F <= n /\ Distinct(pv[e]) /\ NoConn \notin Conn
  BY Ends, TableAssumption DEF AInv, Shape, IInv, TypeOK
<1>2. ASSUME NEW j \in D PROVE j \in 1 .. n /\ pv[e][j].conn \in S
  <2>1. j \in 1 .. n /\ ~(j <= F)
    BY <1>1
  <2>2. Fits(e, pv[e][j], j)
    BY <2>1 DEF AInv, Shape
  <2>3. pv[e][j].conn \in Conn
    BY <2>1, <2>2 DEF Fits, Regular
  <2> QED
    BY <2>1, <2>3 DEF Has
<1>3. f \in Injection(D, S)
  <2>1. f \in [D -> S]
    BY <1>2
  <2>2. \A i, j \in D : f[i] = f[j] => i = j
    <3>1. \A i \in D : f[i] = pv[e][i].conn /\ f[i] # NoConn /\ i \in 1 .. n
      BY <1>1, <1>2
    <3> QED
      BY <1>1, <3>1 DEF Distinct
  <2>3. DOMAIN f = D
    OBVIOUS
  <2> HIDE DEF f, D
  <2> QED
    BY <2>1, <2>2, <2>3 DEF Injection, IsInjective
<1>4. Cardinality(D) <= Cardinality(S)
  BY <1>3, FS_Injection
<1>5. Cardinality(D) = IF F + 1 > n THEN 0 ELSE n - (F + 1) + 1
  <2>1. F + 1 \in Int /\ n \in Int
    BY <1>1
  <2> HIDE DEF F, n
  <2> QED
    BY <2>1, FS_Interval
<1>6. Cardinality(S) \in Nat
  BY FS_CardinalityType
<1> HIDE DEF F, n, D
<1> QED
  BY <1>1, <1>4, <1>5, <1>6 DEF n

\* A table grows only by an agent of a connection that had none there.
LEMMA Grows ==
    ASSUME UDP = {}, IInv, AInv, NEW e \in End, [Next]_vars, Len(pv'[e]) > Len(pv[e])
    PROVE  Len(pv'[e]) = Len(pv[e]) + 1 /\ \E c \in Conn : ~Has(pv[e], c)
<1>0. pv \in [End -> Seq(Agent)] /\ Len(pv[e]) \in Nat
  BY DEF IInv, TypeOK
<1>1. ASSUME NEW x \in End, NEW s \in Seq(Agent), Len(s) = Len(pv[x]), NEW aid, NEW y, NEW st,
             NEW u \in BOOLEAN, NEW c, MakeAgent(x, s, aid, y, st, u, c), NEW d \in Conn,
             ~Has(pv[x], d)
      PROVE  Len(pv'[e]) = Len(pv[e]) + 1 /\ \E z \in Conn : ~Has(pv[e], z)
  <2>1. Sweep(s) \in Seq(Agent) /\ Len(Sweep(s)) = Len(pv[x])
    BY <1>1, SweepFacts
  <2>2. \/ pv' = [pv EXCEPT ![x] = Sweep(s)]
        \/ pv' = [pv EXCEPT ![x] = Append(Sweep(s), NewAgent(aid, y, st, u, c))]
    BY <1>1 DEF MakeAgent
  <2>3. Len(Append(Sweep(s), NewAgent(aid, y, st, u, c))) = Len(pv[x]) + 1
    BY <1>0, <2>1
  <2>4. x = e
    BY <1>0, <2>2
  <2> QED
    BY <1>0, <1>1, <2>1, <2>2, <2>3, <2>4
<1>2. ASSUME NEW x \in End, NEW j, NEW b, SetAgent(x, j, b) PROVE FALSE
  <2>1. pv'[e] = pv[e] \/ (x = e /\ pv'[e] = [pv[e] EXCEPT ![j] = b])
    BY <1>0, <1>2 DEF SetAgent
  <2> QED
    BY <1>0, <2>1
<1>3. pv' # pv
  BY <1>0
<1>4. ASSUME NEW x \in End, Fdset(x) PROVE FALSE
  <2>1. PICK k \in 1 .. Len(pv[x]) : pv' = [pv EXCEPT ![x] = RemoveAt(@, k)]
    BY <1>3, <1>4 DEF Fdset, FdsetDone, FdsetFree, table
  <2>2. Len(RemoveAt(pv[x], k)) = Len(pv[x]) - 1
    BY <1>0, RemoveFacts
  <2> QED
    BY <1>0, <2>1, <2>2
<1>5. ASSUME NEW x \in End, Comm(x)
      PROVE  Len(pv'[e]) = Len(pv[e]) + 1 /\ \E z \in Conn : ~Has(pv[e], z)
  <2>1. CASE RecvConnect(x)
    <3> DEFINE m == Head(chan[x])
               v == View(pv[x], m.conn)
               u == FALSE
    <3>1. Recv(x, "CONNECT") /\ HeardBy(x) = pv[x] /\ u \in BOOLEAN
      BY <2>1, ForNobody DEF RecvConnect
    <3>2. PICK aid \in Ids : MakeAgent(x, HeardBy(x), aid, m.said, "OPEN", u, m.conn)
      BY <2>1 DEF RecvConnect
    <3>3. /\ m.conn \in Conn /\ m \in Post(chan[x], m.conn) /\ m.type = "CONNECT"
          /\ Both(v, View(pv[Peer(x)], m.conn), Post(chan[x], m.conn),
                  Post(chan[Peer(x)], m.conn))
      BY <3>1, Handles
    <3>4. v.st = "NONE"
      <4> HIDE DEF m, v
      <4> QED
        BY <3>3 DEF Both, Half
    <3>5. ~Has(pv[x], m.conn)
      BY <3>3, <3>4, NotThere
    <3> HIDE DEF m, u
    <3> QED
      BY <1>0, <1>1, <3>1, <3>2, <3>3, <3>5
  <2>2. CASE RecvConnectFail(x)
    <3>1. pv' = [pv EXCEPT ![x] = HeardBy(x)] /\ HeardBy(x) = pv[x]
      BY <2>2, ForNobody DEF RecvConnectFail
    <3> QED
      BY <1>0, <1>3, <3>1
  <2>3. CASE \E t \in {"CONNECT", "CONNECTED", "SEND", "SENT", "CLOSED"} : RecvIgnored(x, t)
    BY <1>2, <1>3, <2>3 DEF RecvIgnored
  <2>4. CASE RecvConnected(x)
    BY <1>2, <2>4 DEF RecvConnected
  <2>5. CASE RecvSend(x)
    BY <1>2, <2>5 DEF RecvSend
  <2>6. CASE RecvSent(x)
    BY <1>2, <2>6 DEF RecvSent
  <2>7. CASE RecvClose(x)
    BY <1>2, <1>3, <2>7 DEF RecvClose
  <2>8. CASE RecvClosed(x)
    BY <1>2, <2>8 DEF RecvClosed
  <2> QED
    BY <1>5, <2>1, <2>2, <2>3, <2>4, <2>5, <2>6, <2>7, <2>8 DEF Comm
<1>6. ASSUME NEW x \in End, Local(x)
      PROVE  Len(pv'[e]) = Len(pv[e]) + 1 /\ \E z \in Conn : ~Has(pv[e], z)
  <2>1. PICK k \in 1 .. Len(pv[x]) :
          \/ Flush(x, k) \/ RelayIgnored(x, k) \/ Relay(x, k) \/ RelayEof(x, k)
          \/ Age(x, k) \/ \E c \in Conn : Accept(x, k, c)
    BY <1>6 DEF Local
  <2>2. ASSUME NEW c \in Conn, Accept(x, k, c)
        PROVE  Len(pv'[e]) = Len(pv[e]) + 1 /\ \E z \in Conn : ~Has(pv[e], z)
    <3> DEFINE u == c \in UDP
    <3>1. u \in BOOLEAN /\ pv[x] \in Seq(Agent)
      BY <1>0
    <3>2. PICK aid \in Ids : MakeAgent(x, pv[x], aid, NOAID, "CONNECT", u, c)
      BY <2>2 DEF Accept
    <3>3. ~Has(pv[x], c)
      BY <2>2 DEF Accept, Seen, Has
    <3> HIDE DEF u
    <3> QED
      BY <1>1, <3>1, <3>2, <3>3
  <2>3. CASE Flush(x, k)
    BY <1>2, <2>3 DEF Flush
  <2>4. CASE RelayIgnored(x, k)
    BY <1>3, <2>4 DEF RelayIgnored, table
  <2>5. CASE Relay(x, k)
    BY <1>2, <2>5 DEF Relay
  <2>6. CASE RelayEof(x, k)
    BY <1>2, <2>6 DEF RelayEof
  <2>7. CASE Age(x, k)
    BY <1>2, <2>7 DEF Age
  <2> QED
    BY <2>1, <2>2, <2>3, <2>4, <2>5, <2>6, <2>7
<1> QED
  BY <1>3, <1>4, <1>5, <1>6 DEF Next, vars

\* The clients that there can be fit into the tables.
Few == IsFiniteSet(Conn) /\ Cardinality(Conn) + 4 <= NSOCK

\* They find room.
LEMMA NextRoom == ASSUME UDP = {}, Few, IInv, AInv, HasRoom, [Next]_vars PROVE HasRoom'
<1> SUFFICES ASSUME NEW e \in End PROVE Len(pv'[e]) < NSOCK
  BY DEF HasRoom
<1>0. /\ NSOCK \in 4 .. 255 /\ Cardinality(Conn) \in Nat /\ Cardinality(Conn) + 4 <= NSOCK
      /\ Len(pv[e]) \in Nat /\ Len(pv'[e]) \in Nat /\ Len(pv[e]) < NSOCK
  <2>1. IInv'
    BY NextInv
  <2> QED
    <3>1. Cardinality(Conn) \in Nat /\ Cardinality(Conn) + 4 <= NSOCK
      BY FS_CardinalityType DEF Few
    <3>2. Len(pv[e]) \in Nat /\ Len(pv'[e]) \in Nat
      BY <2>1 DEF IInv, TypeOK
    <3> QED
      BY <3>1, <3>2, TableAssumption DEF HasRoom
<1>1. CASE Len(pv'[e]) <= Len(pv[e])
  BY <1>0, <1>1
<1>2. CASE Len(pv'[e]) > Len(pv[e])
  <2>1. PICK c \in Conn : Len(pv'[e]) = Len(pv[e]) + 1 /\ ~Has(pv[e], c)
    BY <1>2, Grows
  <2> DEFINE S == Conn \ {c}
  <2>2. IsFiniteSet(S) /\ Cardinality(S) = Cardinality(Conn) - 1
    BY FS_RemoveElement DEF Few
  <2>3. S \in SUBSET Conn /\ \A d \in Conn \ S : ~Has(pv[e], d)
    BY <2>1
  <2> HIDE DEF S
  <2>4. Len(pv[e]) <= 3 + Cardinality(S)
    BY <2>2, <2>3, RoomLeft
  <2> QED
    BY <1>0, <2>1, <2>2, <2>4
<1> QED
  BY <1>0, <1>1, <1>2

\* sox_setupX leaves room.
LEMMA InitRoom == ASSUME Few PROVE Init => HasRoom
<1>1. NSOCK \in 4 .. 255
  BY TableAssumption
<1> QED
  BY <1>1, InitTables, Ends DEF HasRoom

\* With NSOCK - 4 clients at a time, or fewer, no table is ever full: what is
\* said of tables with room holds of every behaviour.
THEOREM FewFindRoom == UDP = {} /\ Few /\ Spec => [](HasRoom /\ Addressed /\ TunnelIntact)
<1>1. ASSUME UDP = {}, Few PROVE Spec => [](HasRoom /\ Addressed /\ TunnelIntact)
  <2>1. IInv /\ AInv /\ HasRoom /\ [Next]_vars => HasRoom' /\ AInv'
    BY <1>1, NextRoom, NextAddr
  <2>2. Init => HasRoom /\ AInv
    BY <1>1, InitRoom, InitAddr
  <2>3. IInv /\ AInv => Addressed /\ TunnelIntact
    BY AddressedHere, IntactHere
  <2> QED
    BY <2>1, <2>2, <2>3, TablesInductive, PTL DEF Spec
<1> QED
  BY <1>1
=============================================================================

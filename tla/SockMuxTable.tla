---------------------------- MODULE SockMuxTable ----------------------------
(***************************************************************************)
(* The agent tables at the two ends of a SockMux tunnel                    *)
(* (src/delegate/src/sox.cpp): how agents are made and given back, how     *)
(* their ids are chosen and reused, and how packets of many connections    *)
(* find their agent.  What happens inside one connection, its window and   *)
(* the order of its bytes, is the subject of SockMuxFlow; here data is     *)
(* counted in units of one SEND, MaxSend units do not fill the window, and *)
(* OPEN stands for every status between CONNECTED and CLOSE except         *)
(* SENDING, which an agent then enters only when its a_rpend has wrapped.  *)
(*                                                                         *)
(* A turn of sox_clock1 first runs sox_fdset, when Qfdset is clear, and    *)
(* then goes once through the agents that it chose to poll.                *)
(***************************************************************************)
EXTENDS Integers, Sequences, SequencesExt

CONSTANTS
    NSOCK,     \* NSOCK: agents in a table
    Listen,    \* the ends with a PORT: they accept clients
    Conn,      \* bound: the clients that may come, once each
    UDP,       \* those among them that come by UDP
    NoConn,    \* what the permanent agents have for a connection
    MaxSend    \* bound: [End -> Nat], units an agent sends in its life

End == {"near", "far"}
Peer(e) == IF e = "near" THEN "far" ELSE "near"

ASSUME TableAssumption ==
    /\ NSOCK \in 4 .. 255
    /\ Listen \subseteq End /\ UDP \subseteq Conn /\ NoConn \notin Conn
    /\ MaxSend \in [End -> Nat]

VARIABLES
    pv,         \* Agentpv[0 .. Agents-1]
    aidactive,  \* s_aidactive, as the set of ids in use
    nlaid,      \* s_nlaid, where the search for an id begins
    qfdset,     \* Qfdset
    qin, qout,  \* places in pv that sox_fdset polls for input, for output
    scan,       \* the place sox_fdset goes on with, 0 outside it
    pos,        \* when Qfdset is clear, how far the turn has come; 2k - 1 and
                \* 2k stand for the output and the input of the k-th agent
    chan        \* packets on their way to an end

table == <<pv, aidactive, nlaid>>
turn == <<qfdset, qin, qout, scan, pos>>
vars == <<pv, aidactive, nlaid, qfdset, qin, qout, scan, pos, chan>>

NOAID == 255    \* (Aid)-1, no id

Permanent == {"COMMOUT", "COMMIN", "LISTEN"}
Closing == {"CLOSE", "CLOSED"}
Status == Permanent \cup Closing \cup {"CONNECT", "OPEN", "SENDING"}
Aid == 0 .. 255
Ids == 0 .. NSOCK - 2 \cup {NOAID}    \* the ids that agents get

(***************************************************************************)
(* An agent.  time is a_stats.s_time as sweepAgents sees it: "new" is 0,   *)
(* as newAgent leaves it, "old" is SOXMUX_UDP_TIMEOUT ago.  Only UDP       *)
(* agents use it.  conn and sent are history: the connection the agent was *)
(* made for, and the units it has sent, for the bound only.                *)
(* rpend is unsigned in the code: below zero here is a wrapped value.      *)
(***************************************************************************)
Agent == [laid : Aid, xaid : Aid, stat : Status, rem : Nat, rpend : Int,
          sent : Nat, ludp : BOOLEAN, time : {"new", "recent", "old"},
          conn : Conn \cup {NoConn}]
NewAgent(l, x, s, u, c) ==
    [laid |-> l, xaid |-> x, stat |-> s, rem |-> 0, rpend |-> 0,
     sent |-> 0, ludp |-> u, time |-> "new", conn |-> c]

Packet == [type : {"CONNECT", "CONNECTED", "SEND", "SENT", "CLOSE", "CLOSED"},
           raid : Aid, said : Aid, conn : Conn \cup {NoConn}, len : Nat]
Pack(t, r, s, c, n) ==
    [type |-> t, raid |-> r, said |-> s, conn |-> c, len |-> n]

\* sox_setupX: COMMOUT, COMMIN and, with a PORT, LISTEN; Qfdset is clear.
Init ==
    /\ pv = [e \in End |->
         <<NewAgent(0, NOAID, "COMMOUT", FALSE, NoConn),
           NewAgent(1, NOAID, "COMMIN", FALSE, NoConn)>>
         \o IF e \in Listen
              THEN <<NewAgent(2, NOAID, "LISTEN", FALSE, NoConn)>> ELSE <<>>]
    /\ nlaid = [e \in End |-> IF e \in Listen THEN 3 ELSE 2]
    /\ aidactive = [e \in End |-> 0 .. nlaid[e] - 1]
    /\ qfdset = [e \in End |-> FALSE]
    /\ qin = [e \in End |-> {}] /\ qout = [e \in End |-> {}]
    /\ scan = [e \in End |-> 0]
    /\ pos = [e \in End |-> 0]
    /\ chan = [e \in End |-> <<>>]

\* What follows when a packet of a connection has overwritten the status of a
\* comm agent is not modelled: that end takes no more steps.
Sound(e) == pv[e][1].stat = "COMMOUT" /\ pv[e][2].stat = "COMMIN"

-----------------------------------------------------------------------------
(***************************************************************************)
(* sox_fdset, which sox_clock1 calls when Qfdset is clear, at the          *)
(* beginning of a turn.                                                    *)
(***************************************************************************)
\* As if an agent were given back without waiting for CLOSED.
MayFreeAtOnce(a) == a.stat \in Closing

\* A CLOSED agent with output left lingers, until the linger time is over or
\* when its client has closed.
MayFree(a) == a.stat = "CLOSED"
MustFree(a) == a.stat = "CLOSED" /\ a.rem = 0

\* As if delAgent counted the agents from 0 where sox_fdset counts from 1.
FdsetFreePrevious(e, k) ==
    /\ Sound(e) /\ ~qfdset[e]
    /\ k >= scan[e]
    /\ \A i \in 1 .. k - 1 : i >= scan[e] => ~MustFree(pv[e][i])
    /\ MayFree(pv[e][k])
    /\ pv' = [pv EXCEPT ![e] = RemoveAt(@, k - 1)]
    /\ aidactive' = [aidactive EXCEPT ![e] = @ \ {pv[e][k].laid}]
    /\ scan' = [scan EXCEPT ![e] = k + 1]
    /\ UNCHANGED <<nlaid, qfdset, qin, qout, pos, chan>>

\* As if delAgent forgot to clear s_aidactive.
FdsetFreeKeepsId(e, k) ==
    /\ Sound(e) /\ ~qfdset[e]
    /\ k >= scan[e]
    /\ \A i \in 1 .. k - 1 : i >= scan[e] => ~MustFree(pv[e][i])
    /\ MayFree(pv[e][k])
    /\ pv' = [pv EXCEPT ![e] = RemoveAt(@, k)]
    /\ scan' = [scan EXCEPT ![e] = k + 1]
    /\ UNCHANGED <<aidactive, nlaid, qfdset, qin, qout, pos, chan>>

\* The scan of sox_fdset comes to agent k and releases it.  delAgent moves the
\* agents after k down by one, and the scan goes on with k + 1: it passes over
\* the agent that was next.
FdsetFree(e, k) ==
    /\ Sound(e) /\ ~qfdset[e]
    /\ k >= scan[e]
    /\ \A i \in 1 .. k - 1 : i >= scan[e] => ~MustFree(pv[e][i])
    /\ MayFree(pv[e][k])
    /\ pv' = [pv EXCEPT ![e] = RemoveAt(@, k)]
    /\ aidactive' = [aidactive EXCEPT ![e] = @ \ {pv[e][k].laid}]
    /\ scan' = [scan EXCEPT ![e] = k + 1]
    /\ UNCHANGED <<nlaid, qfdset, qin, qout, pos, chan>>

\* The end of the scan, and what is polled from now on.
FdsetDone(e) ==
    /\ Sound(e) /\ ~qfdset[e]
    /\ \A i \in 1 .. Len(pv[e]) : i >= scan[e] => ~MustFree(pv[e][i])
    /\ qin' = [qin EXCEPT ![e] =
         {i \in 1 .. Len(pv[e]) :
            pv[e][i].stat \notin {"COMMOUT", "CONNECT", "CLOSE", "SENDING"}}]
    /\ qout' = [qout EXCEPT ![e] = {i \in 1 .. Len(pv[e]) : pv[e][i].rem > 0}]
    /\ qfdset' = [qfdset EXCEPT ![e] = TRUE]
    /\ scan' = [scan EXCEPT ![e] = 0]
    /\ pos' = [pos EXCEPT ![e] = 0]
    /\ UNCHANGED <<table, chan>>

(***************************************************************************)
(* The turn of sox_clock1 comes to place n.  As long as Qfdset is set the  *)
(* next turn, with the same agents, may have begun: only when it is clear  *)
(* are the places that the turn has passed out of reach.                   *)
(***************************************************************************)
Turn(e, n) == Sound(e) /\ scan[e] = 0 /\ (qfdset[e] \/ pos[e] < n)
TurnOut(e, k) == k \in qout[e] /\ Turn(e, 2 * k - 1)
TurnIn(e, k) == k \in qin[e] /\ Turn(e, 2 * k)

\* Place n is done with; Qfdset is cleared or left as it is.
Done(e, n, clear) ==
    /\ qfdset' = [qfdset EXCEPT ![e] = @ /\ ~clear]
    /\ pos' = [pos EXCEPT ![e] = IF qfdset'[e] THEN 0 ELSE n]
    /\ UNCHANGED <<qin, qout, scan>>

Send(e, pk) == chan' = [chan EXCEPT ![Peer(e)] = Append(@, pk)]
Take(e) == chan' = [chan EXCEPT ![e] = Tail(@)]
TakeSend(e, pk) ==
    chan' = [chan EXCEPT ![e] = Tail(@), ![Peer(e)] = Append(@, pk)]

-----------------------------------------------------------------------------
(***************************************************************************)
(* Making agents.                                                          *)
(***************************************************************************)
\* newlaid gives id: the first one not in use from n on, then from 0 on.
Newlaid(active, n, id) ==
    \/ id \in n .. NSOCK - 2 /\ id \notin active /\ n .. id - 1 \subseteq active
    \/ /\ n .. NSOCK - 2 \subseteq active
       /\ \/ id \in 0 .. n - 1 /\ id \notin active /\ 0 .. id - 1 \subseteq active
          \/ id = -1 /\ 0 .. n - 1 \subseteq active

\* sweepAgents closes the UDP agents that have been idle too long.  Its other
\* part never acts: SOXMUX_UDP_MAX is as large as NSOCK.
Sweep(s) ==
    [i \in 1 .. Len(s) |->
       IF s[i].ludp /\ s[i].time # "recent"
         THEN [s[i] EXCEPT !.stat = "CLOSED"] ELSE s[i]]

\* As if newAgent took the table to have room for one agent more.
MakeAgentOneMore(e, s, aid, x, st, u, c) ==
    \E id \in -1 .. NSOCK - 2 :
        /\ Len(s) <= NSOCK
        /\ Newlaid(aidactive[e], nlaid[e], id)
        /\ aid = IF id = -1 THEN NOAID ELSE id
        /\ aidactive' = [aidactive EXCEPT ![e] = IF id = -1 THEN @ ELSE @ \cup {id}]
        /\ nlaid' = [nlaid EXCEPT ![e] = IF id = -1 THEN @ ELSE id + 1]
        /\ pv' = [pv EXCEPT ![e] = Append(Sweep(s), NewAgent(aid, x, st, u, c))]

\* newAgent, when end e's table is s, returns an agent with id aid.  In a full
\* table that is the static dummy, whose id is 0 and which no one finds.
MakeAgent(e, s, aid, x, st, u, c) ==
    \/ /\ Len(s) = NSOCK
       /\ aid = 0
       /\ pv' = [pv EXCEPT ![e] = Sweep(s)]
       /\ UNCHANGED <<aidactive, nlaid>>
    \/ /\ Len(s) < NSOCK
       /\ \E id \in -1 .. NSOCK - 2 :
            /\ Newlaid(aidactive[e], nlaid[e], id)
            /\ aid = IF id = -1 THEN NOAID ELSE id
            /\ aidactive' = [aidactive EXCEPT ![e] =
                               IF id = -1 THEN @ ELSE @ \cup {id}]
            /\ nlaid' = [nlaid EXCEPT ![e] = IF id = -1 THEN @ ELSE id + 1]
       /\ pv' = [pv EXCEPT ![e] =
                   Append(Sweep(s), NewAgent(aid, x, st, u, c))]

\* Connection c still has an agent or a packet somewhere.
Seen(c) == \E e \in End :
    \/ \E i \in 1 .. Len(pv[e]) : pv[e][i].conn = c
    \/ \E i \in 1 .. Len(chan[e]) : chan[e][i].conn = c

\* sox_accept1: a client at a PORT.
Accept(e, k, c) ==
    /\ TurnIn(e, k)
    /\ pv[e][k].stat = "LISTEN"
    /\ ~Seen(c)
    /\ \E aid \in Ids :
         /\ MakeAgent(e, pv[e], aid, NOAID, "CONNECT", c \in UDP, c)
         /\ Send(e, Pack("CONNECT", NOAID, aid, c, 0))
    /\ Done(e, 2 * k, TRUE)

-----------------------------------------------------------------------------
(***************************************************************************)
(* PS_OUT, and sox_relay1: from the local socket to the comm connection.   *)
(***************************************************************************)
\* The agent at k of end e is replaced by a.
SetAgent(e, k, a) == pv' = [pv EXCEPT ![e][k] = a]

\* Some of the buffered output is written and reported with SENT.
Flush(e, k) ==
    /\ TurnOut(e, k)
    /\ LET a == pv[e][k] IN
       \E w \in 1 .. a.rem :
         /\ SetAgent(e, k, [a EXCEPT
              !.rem = @ - w, !.stat = IF @ = "CLOSED" THEN @ ELSE "OPEN"])
         /\ Send(e, Pack("SENT", a.xaid, a.laid, a.conn, w))
    /\ Done(e, 2 * k - 1, TRUE)
    /\ UNCHANGED <<aidactive, nlaid>>

RelayIgnored(e, k) ==
    /\ TurnIn(e, k)
    /\ pv[e][k].stat \in Closing
    /\ Done(e, 2 * k, TRUE)
    /\ UNCHANGED <<table, chan>>

\* A wrapped a_rpend is above the window, and stops the input.
Relay(e, k) ==
    /\ TurnIn(e, k)
    /\ pv[e][k].stat \notin Permanent \cup Closing
    /\ pv[e][k].sent < MaxSend[e]
    /\ LET a == pv[e][k] IN
         /\ SetAgent(e, k, [a EXCEPT
              !.sent = @ + 1, !.rpend = @ + 1,
              !.stat = IF a.rpend + 1 < 0 THEN "SENDING" ELSE "OPEN"])
         /\ Send(e, Pack("SEND", a.xaid, a.laid, a.conn, 1))
    /\ Done(e, 2 * k, TRUE)
    /\ UNCHANGED <<aidactive, nlaid>>

RelayEof(e, k) ==
    /\ TurnIn(e, k)
    /\ pv[e][k].stat \notin Permanent \cup Closing
    /\ LET a == pv[e][k] IN
         /\ SetAgent(e, k, [a EXCEPT !.stat = "CLOSE", !.rem = 0])
         /\ Send(e, Pack("CLOSE", a.xaid, a.laid, a.conn, 0))
    /\ Done(e, 2 * k, TRUE)
    /\ UNCHANGED <<aidactive, nlaid>>

-----------------------------------------------------------------------------
(***************************************************************************)
(* sox_COMMIN: a packet from the comm connection.                          *)
(***************************************************************************)
\* The turn has come to COMMIN (CommInAp), and the packet is of type t.
Recv(e, t) ==
    /\ TurnIn(e, 2)
    /\ chan[e] # <<>>
    /\ Head(chan[e]).type = t
DoneIn(e, clear) == Done(e, 4, clear)

\* The agent at j is the one (ApR) that the packet finds, or there is none.
Finds(e, j) ==
    /\ pv[e][j].laid = Head(chan[e]).raid
    /\ \A i \in 1 .. j - 1 : pv[e][i].laid # Head(chan[e]).raid
FindsNone(e) == \A j \in 1 .. Len(pv[e]) : pv[e][j].laid # Head(chan[e]).raid

\* ApR has been heard of now.
Heard(a) == [a EXCEPT !.time = IF a.ludp THEN "recent" ELSE @]

\* An agent that is closing drops all packets but CLOSE and CLOSED, and a
\* packet for an agent that is gone finds nobody, but for CLOSE.
RecvIgnored(e, t) ==
    /\ Recv(e, t)
    /\ \/ /\ t \notin Closing
          /\ \E j \in 1 .. Len(pv[e]) :
               /\ Finds(e, j) /\ pv[e][j].stat \in Closing
               /\ SetAgent(e, j, Heard(pv[e][j]))
       \/ t \notin {"CONNECT", "CLOSE"} /\ FindsNone(e) /\ UNCHANGED pv
    /\ Take(e)
    /\ DoneIn(e, FALSE)
    /\ UNCHANGED <<aidactive, nlaid>>

\* The table as newAgent finds it when CONNECT, which is for no agent, happens
\* to carry the id of one.
HeardBy(e) ==
    [j \in 1 .. Len(pv[e]) |->
       IF Finds(e, j) THEN Heard(pv[e][j]) ELSE pv[e][j]]
DropsNot(e) == \A j \in 1 .. Len(pv[e]) : Finds(e, j) => pv[e][j].stat \notin Closing

\* SOX_CONNECT: connected to the server.
RecvConnect(e) ==
    /\ Recv(e, "CONNECT")
    /\ DropsNot(e)
    /\ LET m == Head(chan[e]) IN
       \E aid \in Ids :
         /\ MakeAgent(e, HeardBy(e), aid, m.said, "OPEN", FALSE, m.conn)
         /\ TakeSend(e, Pack("CONNECTED", m.said, aid, m.conn, 0))
    /\ DoneIn(e, TRUE)

\* As if the peer were not told of the failure.
RecvConnectFailSilent(e) ==
    /\ Recv(e, "CONNECT")
    /\ DropsNot(e)
    /\ Take(e)
    /\ pv' = [pv EXCEPT ![e] = HeardBy(e)]
    /\ DoneIn(e, FALSE)
    /\ UNCHANGED <<aidactive, nlaid>>

\* SOX_CONNECT: no server could be reached.
RecvConnectFail(e) ==
    /\ Recv(e, "CONNECT")
    /\ DropsNot(e)
    /\ LET m == Head(chan[e]) IN
         TakeSend(e, Pack("CLOSE", m.said, NOAID, m.conn, 0))
    /\ pv' = [pv EXCEPT ![e] = HeardBy(e)]
    /\ DoneIn(e, FALSE)
    /\ UNCHANGED <<aidactive, nlaid>>

RecvConnected(e) ==
    /\ Recv(e, "CONNECTED")
    /\ \E j \in 1 .. Len(pv[e]) :
         /\ Finds(e, j) /\ pv[e][j].stat \notin Closing
         /\ SetAgent(e, j, [Heard(pv[e][j]) EXCEPT
              !.xaid = Head(chan[e]).said, !.stat = "OPEN"])
    /\ Take(e)
    /\ DoneIn(e, TRUE)
    /\ UNCHANGED <<aidactive, nlaid>>

\* writeb writes w units, the buffered ones first.
RecvSend(e) ==
    /\ Recv(e, "SEND")
    /\ \E j \in 1 .. Len(pv[e]) :
         /\ Finds(e, j) /\ pv[e][j].stat \notin Closing
         /\ LET m == Head(chan[e])
                r == pv[e][j].rem IN
            \E w \in 0 .. r + m.len :
              /\ SetAgent(e, j, [Heard(pv[e][j]) EXCEPT !.rem = r + m.len - w])
              /\ IF w = 0 THEN Take(e)
                   ELSE TakeSend(e, Pack("SENT", m.said, m.raid, m.conn, w))
              /\ DoneIn(e, IF r > 0 THEN w >= r ELSE w < m.len)
    /\ UNCHANGED <<aidactive, nlaid>>

\* a_rpend wraps when it is below what SENT reports; it is then above the
\* window, and the status stays.
RecvSent(e) ==
    /\ Recv(e, "SENT")
    /\ \E j \in 1 .. Len(pv[e]) :
         /\ Finds(e, j) /\ pv[e][j].stat \notin Closing
         /\ LET r == pv[e][j].rpend - Head(chan[e]).len IN
              /\ SetAgent(e, j, [Heard(pv[e][j]) EXCEPT
                   !.rpend = r, !.stat = IF r < 0 THEN @ ELSE "OPEN"])
              /\ DoneIn(e, r >= 0)
    /\ Take(e)
    /\ UNCHANGED <<aidactive, nlaid>>

\* CLOSE is answered by CLOSED, also when the agent is gone, but not by an
\* agent that has sent CLOSE itself.
RecvClose(e) ==
    /\ Recv(e, "CLOSE")
    /\ LET m == Head(chan[e])
           closed == Pack("CLOSED", m.said, m.raid, m.conn, 0) IN
         \/ /\ FindsNone(e)
            /\ TakeSend(e, closed)
            /\ DoneIn(e, FALSE)
            /\ UNCHANGED pv
         \/ \E j \in 1 .. Len(pv[e]) :
              /\ Finds(e, j)
              /\ SetAgent(e, j, [Heard(pv[e][j]) EXCEPT !.stat = "CLOSED"])
              /\ IF pv[e][j].stat = "CLOSE" THEN Take(e) ELSE TakeSend(e, closed)
              /\ DoneIn(e, TRUE)
    /\ UNCHANGED <<aidactive, nlaid>>

RecvClosed(e) ==
    /\ Recv(e, "CLOSED")
    /\ \E j \in 1 .. Len(pv[e]) :
         /\ Finds(e, j)
         /\ SetAgent(e, j, [Heard(pv[e][j]) EXCEPT !.stat = "CLOSED"])
    /\ Take(e)
    /\ DoneIn(e, TRUE)
    /\ UNCHANGED <<aidactive, nlaid>>

-----------------------------------------------------------------------------
\* SOXMUX_UDP_TIMEOUT passes without a packet for the UDP agent at k.
Age(e, k) ==
    /\ pv[e][k].ludp /\ pv[e][k].time = "recent"
    /\ SetAgent(e, k, [pv[e][k] EXCEPT !.time = "old"])
    /\ UNCHANGED <<aidactive, nlaid, turn, chan>>

Comm(e) ==
    \/ \E t \in {"CONNECT", "CONNECTED", "SEND", "SENT", "CLOSED"} : RecvIgnored(e, t)
    \/ RecvConnect(e) \/ RecvConnectFail(e) \/ RecvConnected(e)
    \/ RecvSend(e) \/ RecvSent(e) \/ RecvClose(e) \/ RecvClosed(e)

Fdset(e) == FdsetDone(e) \/ \E k \in 1 .. Len(pv[e]) : FdsetFree(e, k)

Local(e) ==
    \E k \in 1 .. Len(pv[e]) :
        \/ Flush(e, k) \/ RelayIgnored(e, k) \/ Relay(e, k) \/ RelayEof(e, k)
        \/ Age(e, k) \/ \E c \in Conn : Accept(e, k, c)

Next == \E e \in End : Fdset(e) \/ Comm(e) \/ Local(e)

Spec == Init /\ [][Next]_vars

\* Both processes stay in the loop of sox_mainX, and a packet that waits is
\* handled in the next turn, before anything else; clients and servers, which
\* Local stands for, owe nothing.
FairSpec == Spec /\ \A e \in End : WF_vars(Fdset(e)) /\ SF_vars(Comm(e))

-----------------------------------------------------------------------------
(***************************************************************************)
(* Properties.                                                             *)
(***************************************************************************)
\* The state is what the code's types allow, with not more than NSOCK agents.
TypeOK ==
    /\ pv \in [End -> Seq(Agent)]
    /\ \A e \in End : Len(pv[e]) <= NSOCK
    /\ aidactive \in [End -> SUBSET (0 .. NSOCK - 2)]
    /\ nlaid \in [End -> 0 .. NSOCK - 1]
    /\ qfdset \in [End -> BOOLEAN]
    /\ qin \in [End -> SUBSET (1 .. NSOCK)] /\ qout \in [End -> SUBSET (1 .. NSOCK)]
    /\ scan \in [End -> 0 .. NSOCK + 1]
    /\ pos \in [End -> 0 .. 2 * NSOCK]
    /\ chan \in [End -> Seq(Packet)]

\* No two agents of a table have the same id, and s_aidactive marks exactly
\* the ids that agents have: none is lost, none is given out twice, also when
\* newlaid has none left.
IdsMatch ==
    \A e \in End :
        /\ \A i, j \in 1 .. Len(pv[e]) : pv[e][i].laid = pv[e][j].laid => i = j
        /\ aidactive[e] = {pv[e][i].laid : i \in 1 .. Len(pv[e])} \ {NOAID}

\* A packet other than SENT that finds an agent finds one of its connection:
\* ids are reused only when nothing is under way to their former owner.  It is
\* for tables with ids left: an agent that got NOAID is found by every packet
\* that is for nobody.
Addressed ==
    \A e \in End : \A i \in 1 .. Len(chan[e]) : \A j \in 1 .. Len(pv[e]) :
        chan[e][i].type # "SENT" /\ pv[e][j].laid = chan[e][i].raid
            => pv[e][j].conn = chan[e][i].conn

\* The agents of the comm connection and of the PORTs stay what they are.
TunnelIntact ==
    \A e \in End :
        /\ pv[e][1].stat = "COMMOUT" /\ pv[e][2].stat = "COMMIN"
        /\ e \in Listen => pv[e][3].stat = "LISTEN"

\* An accepted client is answered: its agent leaves CONNECT.
Answered ==
    \A e \in End, c \in Conn :
        (\E j \in 1 .. Len(pv[e]) : pv[e][j].conn = c /\ pv[e][j].stat = "CONNECT")
        ~> ~(\E j \in 1 .. Len(pv[e]) : pv[e][j].conn = c /\ pv[e][j].stat = "CONNECT")
=============================================================================

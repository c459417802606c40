-------------------------- MODULE SockMuxSession --------------------------
(***************************************************************************)
(* The session of two SockMux ends (sox.cpp): how the comm connection is   *)
(* made (sox_setupX), the exchange of HELLO, the options sent after it,    *)
(* how its loss is found out (end of file, or commInactive after PINGs     *)
(* without an answer) and how both ends come back to a new session.  The   *)
(* end "con" connects to the port of the end "acc" (SERVER=sockmux://...   *)
(* and -Pport); one client of "con" stands for all that are relayed.       *)
(* Either process may be restarted, the connection may be reset, and it    *)
(* may be cut silently so that nothing arrives and nobody is told.         *)
(***************************************************************************)
EXTENDS Naturals, Sequences

CONSTANTS
  Sizes,      \* values of SOXCONF=packsize an end may be started with
  PWSIZE,     \* the largest size of a packet
  DefSize,    \* PackSize before the peer has told its size
  MinSize,    \* 128 in set_PACKSIZE
  Window,     \* packets of a client that may be without an answer
  MaxFaults   \* bound: restarts, resets and cuts in one behaviour

ASSUME SizesAssumption ==
  /\ MinSize \in Nat /\ PWSIZE \in Nat /\ DefSize \in Nat
  /\ MinSize < DefSize /\ DefSize <= PWSIZE
  /\ Sizes \subseteq MinSize..PWSIZE
  /\ Window \in Nat /\ MaxFaults \in Nat

End == {"con", "acc"}
Peer(e) == IF e = "con" THEN "acc" ELSE "con"

VARIABLES
  stat,       \* down: in RETRY; hello: waits for HELLOOK; up: in sox_clock1
  conn,       \* what the comm socket of an end is
  pend,       \* "con" is connected, and "acc" has not accepted it yet
  stale,      \* before it in the queue: a connection that "con" gave up
  chan,       \* packets on their way to an end
  agent,      \* the client at "con", the server connection at "acc"
  out,        \* SENDs of the client that are not answered
  buf,        \* SENDs held at "acc" because the server reads nothing
  PackSize, Size,
  since,      \* age of s_rtime of COMMIN (of s_time, in the setup)
  lag,        \* wtime - rtime, what commInactive computes
  idle,       \* time since the turn of sox_clock1, or the setup, began to wait
  faults

link == <<conn, pend, stale, chan>>
relay == <<agent, out, buf>>
size == <<PackSize, Size>>
clock == <<since, lag, idle>>
vars == <<stat, link, relay, size, clock, faults>>

-----------------------------------------------------------------------------
(* Time passes in steps of 15 seconds. *)

HelloTime == 1    \* fPollIn(Comminfp,15*1000) in sox_setupX
IdleTime == 2     \* the polls of 10 and 20 seconds in sox_clock1
LostTime == 4     \* 60 <= commInactive()
Unread == LostTime + IdleTime + 1  \* bound: no longer time is told apart
NoTime == Unread + 1               \* rtime == 0: nothing was read yet

Plain == {"HELLO", "HELLOOK", "ECHO", "ECHOOK", "CONNECT", "CONNECTED", "SEND", "SENT"}
Packet == {<<t>> : t \in Plain} \cup ({"SETOPT"} \X Sizes)

Init ==
  /\ stat = [e \in End |-> "down"] /\ conn = [e \in End |-> "none"]
  /\ pend = FALSE /\ stale = FALSE /\ chan = [e \in End |-> <<>>]
  /\ agent = [e \in End |-> "none"] /\ out = 0 /\ buf = 0
  /\ PackSize = [e \in End |-> DefSize] /\ Size \in [End -> Sizes]
  /\ since = [e \in End |-> NoTime] /\ lag = [e \in End |-> 0]
  /\ idle = [e \in End |-> 0] /\ faults = 0

\* What e writes arrives, unless the connection is cut or closed by the peer.
Write(e, ps, c) ==
  chan' = IF conn[e] = "open" THEN [c EXCEPT ![Peer(e)] = @ \o ps] ELSE c

\* sendpackX stamps the write with sox->s_time, the begin of this turn; nothing
\* counts before anything was read.
Wrote(e) ==
  lag' = [lag EXCEPT ![e] = IF since[e] = NoTime THEN 0 ELSE since[e] - idle[e]]

-----------------------------------------------------------------------------
(* sox_setupX *)

\* mutant: the client of a lost session stays.
ShutdownKeepsClients(e) ==
  /\ stat' = [stat EXCEPT ![e] = "down"]
  /\ conn' = [conn EXCEPT ![e] = "none",
                          ![Peer(e)] = IF conn[e] = "open" /\ @ = "open" THEN "eof" ELSE @]
  /\ pend' = (pend /\ e = "acc")
  /\ stale' = (stale \/ (pend /\ e = "con"))
  /\ chan' = [chan EXCEPT ![e] = <<>>]
  /\ lag' = [lag EXCEPT ![e] = 0] /\ idle' = [idle EXCEPT ![e] = 0]
  /\ UNCHANGED relay

\* shutdownAgents closes the clients, RETRY closes the comm connection: the
\* peer reads end of file, unless the connection is cut; "acc" will find one
\* that it has not accepted yet.  sox->s_time stays what it was.
Shutdown(e) ==
  /\ stat' = [stat EXCEPT ![e] = "down"]
  /\ conn' = [conn EXCEPT ![e] = "none",
                          ![Peer(e)] = IF conn[e] = "open" /\ @ = "open" THEN "eof" ELSE @]
  /\ pend' = (pend /\ e = "acc")
  /\ stale' = (stale \/ (pend /\ e = "con"))
  /\ chan' = [chan EXCEPT ![e] = <<>>]
  /\ agent' = [agent EXCEPT ![e] = "none"]
  /\ IF e = "con" THEN out' = 0 /\ UNCHANGED buf
                  ELSE buf' = 0 /\ UNCHANGED out
  /\ lag' = [lag EXCEPT ![e] = 0] /\ idle' = [idle EXCEPT ![e] = 0]

\* The age of s_time when e leaves sox_clock1.
Left(e) == [since EXCEPT ![e] = IF stat[e] = "up" THEN idle[e] ELSE @]

\* The port of "acc" takes the connection although "acc" may not accept it yet.
\* HELLO is sent at once.
Connect ==
  /\ stat["con"] = "down"
  /\ stat' = [stat EXCEPT !["con"] = "hello"]
  /\ conn' = [conn EXCEPT !["con"] = "open"]
  /\ pend' = TRUE
  /\ idle' = [idle EXCEPT !["con"] = 0]
  /\ UNCHANGED <<stale, chan, relay, size, since, lag, faults>>

\* A connection that was given up is accepted too; its HELLO is still there.
AcceptStale ==
  /\ stat["acc"] = "down" /\ stale
  /\ stat' = [stat EXCEPT !["acc"] = "hello"]
  /\ conn' = [conn EXCEPT !["acc"] = "eof"]
  /\ stale' = FALSE
  /\ chan' = [chan EXCEPT !["acc"] = << <<"HELLO">> >>]
  /\ idle' = [idle EXCEPT !["acc"] = 0]
  /\ UNCHANGED <<pend, relay, size, since, lag, faults>>

\* mutant: "acc" answers the HELLO it finds before it sends its own.
AcceptAnswersFirst ==
  /\ stat["acc"] = "down" /\ pend /\ ~stale
  /\ stat' = [stat EXCEPT !["acc"] = "hello"]
  /\ conn' = [conn EXCEPT !["acc"] = "open"]
  /\ pend' = FALSE
  /\ chan' = [chan EXCEPT !["con"] = << <<"HELLOOK">>, <<"HELLO">> >>]
  /\ idle' = [idle EXCEPT !["acc"] = 0]
  /\ UNCHANGED <<stale, relay, size, since, lag, faults>>

\* "acc" finds the HELLO of "con" and sends its own.
Accept ==
  /\ stat["acc"] = "down" /\ pend /\ ~stale
  /\ stat' = [stat EXCEPT !["acc"] = "hello"]
  /\ conn' = [conn EXCEPT !["acc"] = "open"]
  /\ pend' = FALSE
  /\ chan' = [e \in End |-> << <<"HELLO">> >>]
  /\ idle' = [idle EXCEPT !["acc"] = 0]
  /\ UNCHANGED <<stale, relay, size, since, lag, faults>>

\* Reading from the connection: there is something, and it is not cut.
Head1(e) == chan[e][1][1]
Readable(e) == conn[e] \in {"open", "eof"} /\ chan[e] # <<>>
Quiet(e) == conn[e] # "eof" /\ ~Readable(e)
Rest(e) == [chan EXCEPT ![e] = Tail(@)]

\* The loop that waits for HELLOOK.  sox->s_time does not go on in it.
SetupHello(e) ==
  /\ stat[e] = "hello" /\ Readable(e) /\ Head1(e) = "HELLO"
  /\ Write(e, << <<"HELLOOK">> >>, Rest(e))
  /\ idle' = [idle EXCEPT ![e] = 0]
  /\ UNCHANGED <<stat, conn, pend, stale, relay, size, since, lag, faults>>

\* The options follow, and a PING "for test".
SetupDone(e) ==
  /\ stat[e] = "hello" /\ Readable(e) /\ Head1(e) = "HELLOOK"
  /\ Write(e, << <<"HELLOOK">>, <<"SETOPT", Size[e]>>, <<"ECHO">> >>, Rest(e))
  /\ stat' = [stat EXCEPT ![e] = "up"]
  /\ idle' = [idle EXCEPT ![e] = 0]
  /\ UNCHANGED <<conn, pend, stale, relay, size, since, lag, faults>>

SetupTimeout(e) ==
  /\ stat[e] = "hello" /\ idle[e] = HelloTime /\ Quiet(e)
  /\ Shutdown(e) /\ since' = Left(e)
  /\ UNCHANGED <<size, faults>>

-----------------------------------------------------------------------------
(* sox_clock1: the comm connection *)

Min2(m, n) == IF m < n THEN m ELSE n

\* mutant: a size once made smaller never grows again.
set_PACKSIZESmaller(e, n) ==
  LET pwsize == Min2(Size[e], n) IN
  IF pwsize < PackSize[e] /\ MinSize < pwsize THEN pwsize ELSE PackSize[e]

\* An end that is told to use packets of at most n.
set_PACKSIZE(e, n) ==
  LET pwsize == Min2(Size[e], n) IN
  IF pwsize < PackSize[e]
  THEN IF MinSize < pwsize THEN pwsize ELSE PackSize[e]
  ELSE Min2(pwsize, PWSIZE)

\* recvpack stamps the read with sox->s_time, the begin of this turn.
Heard(e) ==
  /\ since' = [since EXCEPT ![e] = idle[e]] /\ lag' = [lag EXCEPT ![e] = 0]
  /\ idle' = [idle EXCEPT ![e] = 0]

RecvOption(e) ==
  /\ stat[e] = "up" /\ Readable(e) /\ Head1(e) = "SETOPT"
  /\ PackSize' = [PackSize EXCEPT ![e] = set_PACKSIZE(e, chan[e][1][2])]
  /\ chan' = Rest(e) /\ Heard(e)
  /\ UNCHANGED <<stat, conn, pend, stale, relay, Size, faults>>

\* mutant: a PING is not answered.
RecvEchoSilent(e) ==
  /\ stat[e] = "up" /\ Readable(e) /\ Head1(e) = "ECHO"
  /\ chan' = Rest(e) /\ Heard(e)
  /\ UNCHANGED <<stat, conn, pend, stale, relay, size, faults>>

RecvEcho(e) ==
  /\ stat[e] = "up" /\ Readable(e) /\ Head1(e) = "ECHO"
  /\ Write(e, << <<"ECHOOK">> >>, Rest(e)) /\ Heard(e)
  /\ UNCHANGED <<stat, conn, pend, stale, relay, size, faults>>

\* got_HELLO of a second HELLOOK, and ECHOOK: only the time counts.
RecvNothing(e) ==
  /\ stat[e] = "up" /\ Readable(e) /\ Head1(e) \in {"HELLOOK", "ECHOOK"}
  /\ chan' = Rest(e) /\ Heard(e)
  /\ UNCHANGED <<stat, conn, pend, stale, relay, size, faults>>

\* End of file, or POLL_HUP, which may come before all was read.
Eof(e) ==
  /\ conn[e] = "eof"
  /\ Shutdown(e) /\ since' = Left(e)
  /\ UNCHANGED <<size, faults>>

\* Nothing happened for 30 seconds.  The PING is stamped with the time of now.
Alarm(e) == stat[e] = "up" /\ idle[e] = IdleTime /\ Quiet(e) /\ lag[e] >= LostTime

Inactive(e) ==
  /\ Alarm(e)
  /\ Shutdown(e) /\ since' = Left(e)
  /\ UNCHANGED <<size, faults>>

\* mutant: a PING does not count as a write.
PingUnstamped(e) ==
  /\ stat[e] = "up" /\ idle[e] = IdleTime /\ Quiet(e) /\ lag[e] < LostTime
  /\ Write(e, << <<"ECHO">> >>, chan)
  /\ idle' = [idle EXCEPT ![e] = 0]
  /\ UNCHANGED <<stat, conn, pend, stale, relay, size, since, lag, faults>>

Ping(e) ==
  /\ stat[e] = "up" /\ idle[e] = IdleTime /\ Quiet(e) /\ lag[e] < LostTime
  /\ Write(e, << <<"ECHO">> >>, chan)
  /\ lag' = [lag EXCEPT ![e] = IF since[e] = NoTime THEN 0 ELSE since[e]]
  /\ idle' = [idle EXCEPT ![e] = 0]
  /\ UNCHANGED <<stat, conn, pend, stale, relay, size, since, faults>>

-----------------------------------------------------------------------------
(* sox_clock1: a client, its packets and their answers *)

Event(e) == Wrote(e) /\ idle' = [idle EXCEPT ![e] = 0]

Client ==
  /\ stat["con"] = "up" /\ agent["con"] = "none"
  /\ agent' = [agent EXCEPT !["con"] = "asked"]
  /\ Write("con", << <<"CONNECT">> >>, chan) /\ Event("con")
  /\ UNCHANGED <<stat, conn, pend, stale, out, buf, size, since, faults>>

RecvConnect ==
  /\ stat["acc"] = "up" /\ Readable("acc") /\ Head1("acc") = "CONNECT"
  /\ agent' = [agent EXCEPT !["acc"] = "open"]
  /\ Write("acc", << <<"CONNECTED">> >>, Rest("acc")) /\ Heard("acc")
  /\ UNCHANGED <<stat, conn, pend, stale, out, buf, size, faults>>

RecvConnected ==
  /\ stat["con"] = "up" /\ Readable("con") /\ Head1("con") = "CONNECTED"
  /\ agent' = [agent EXCEPT !["con"] = "open"]
  /\ chan' = Rest("con") /\ Heard("con")
  /\ UNCHANGED <<stat, conn, pend, stale, out, buf, size, faults>>

\* mutant: one packet more than the credit.
DataPastWindow ==
  /\ stat["con"] = "up" /\ agent["con"] = "open" /\ out <= Window
  /\ out' = out + 1
  /\ Write("con", << <<"SEND">> >>, chan) /\ Event("con")
  /\ UNCHANGED <<stat, conn, pend, stale, agent, buf, size, since, faults>>

\* The client is read as long as its credit lasts.
Data ==
  /\ stat["con"] = "up" /\ agent["con"] = "open" /\ out < Window
  /\ out' = out + 1
  /\ Write("con", << <<"SEND">> >>, chan) /\ Event("con")
  /\ UNCHANGED <<stat, conn, pend, stale, agent, buf, size, since, faults>>

\* SENT is the answer, once the server has taken the data.
RecvSend ==
  /\ stat["acc"] = "up" /\ Readable("acc") /\ Head1("acc") = "SEND"
  /\ agent["acc"] = "open"
  /\ \/ buf = 0 /\ Write("acc", << <<"SENT">> >>, Rest("acc")) /\ UNCHANGED buf
     \/ buf' = buf + 1 /\ chan' = Rest("acc")
  /\ Heard("acc")
  /\ UNCHANGED <<stat, conn, pend, stale, agent, out, size, faults>>

\* The server reads again: what is held is written, one SENT answers it.
Flush ==
  /\ stat["acc"] = "up" /\ buf > 0
  /\ Write("acc", [i \in 1..buf |-> <<"SENT">>], chan) /\ buf' = 0 /\ Event("acc")
  /\ UNCHANGED <<stat, conn, pend, stale, agent, out, size, since, faults>>

RecvSent ==
  /\ stat["con"] = "up" /\ Readable("con") /\ Head1("con") = "SENT"
  /\ agent["con"] = "open"
  /\ out' = out - 1 /\ chan' = Rest("con") /\ Heard("con")
  /\ UNCHANGED <<stat, conn, pend, stale, agent, buf, size, faults>>

-----------------------------------------------------------------------------
(* Time and faults *)

\* Whatever can be read, accepted or connected is, before 15 seconds are over.
Busy(e) ==
  \/ Readable(e) \/ conn[e] = "eof"
  \/ stat[e] = "down" /\ (e = "con" \/ pend \/ stale)
  \/ stat[e] = "hello" /\ idle[e] = HelloTime
  \/ stat[e] = "up" /\ idle[e] = IdleTime

Older(t) == IF t >= Unread THEN t ELSE t + 1

Tick ==
  /\ \A e \in End : ~Busy(e)
  /\ since' = [e \in End |-> Older(since[e])]
  /\ idle' = [e \in End |-> IF stat[e] = "down" THEN 0 ELSE idle[e] + 1]
  /\ UNCHANGED <<stat, link, relay, size, lag, faults>>

Fault == faults < MaxFaults /\ faults' = faults + 1

\* The process of e ends and is started again, with another SOXCONF perhaps.
\* What waits at the port of "acc" is lost with it.
Restart(e) ==
  /\ Fault
  /\ stat' = [stat EXCEPT ![e] = "down"]
  /\ conn' = [conn EXCEPT ![e] = "none",
        ![Peer(e)] = IF @ = "open" /\ (conn[e] = "open" \/ pend) THEN "eof" ELSE @]
  /\ pend' = FALSE /\ stale' = (e = "con" /\ (stale \/ pend))
  /\ chan' = [chan EXCEPT ![e] = <<>>]
  /\ agent' = [agent EXCEPT ![e] = "none"]
  /\ IF e = "con" THEN out' = 0 /\ UNCHANGED buf ELSE buf' = 0 /\ UNCHANGED out
  /\ PackSize' = [PackSize EXCEPT ![e] = DefSize]
  /\ \E n \in Sizes : Size' = [Size EXCEPT ![e] = n]
  /\ since' = [since EXCEPT ![e] = NoTime]
  /\ lag' = [lag EXCEPT ![e] = 0] /\ idle' = [idle EXCEPT ![e] = 0]

\* RST: both ends are told.
Reset ==
  /\ Fault /\ \A e \in End : conn[e] = "open"
  /\ conn' = [e \in End |-> "eof"]
  /\ UNCHANGED <<stat, pend, stale, chan, relay, size, clock>>

\* Nothing arrives any more, and nobody is told.
Cut ==
  /\ Fault /\ \A e \in End : conn[e] = "open"
  /\ conn' = [e \in End |-> "cut"] /\ chan' = [e \in End |-> <<>>]
  /\ UNCHANGED <<stat, pend, stale, relay, size, clock>>

Step(e) ==
  \/ SetupHello(e) \/ SetupDone(e) \/ SetupTimeout(e)
  \/ RecvOption(e) \/ RecvEcho(e) \/ RecvNothing(e)
  \/ Eof(e) \/ Inactive(e) \/ Ping(e)

StepCon == Connect \/ RecvConnected \/ RecvSent \/ Step("con")
StepAcc == Accept \/ AcceptStale \/ RecvConnect \/ RecvSend \/ Step("acc")

Next ==
  \/ StepCon \/ StepAcc \/ Client \/ Data \/ Flush \/ Tick
  \/ Reset \/ Cut \/ \E e \in End : Restart(e)

Spec == Init /\ [][Next]_vars

\* Each process goes on, and so does time.  Nobody need connect, send or read.
LiveSpec == Spec /\ WF_vars(StepCon) /\ WF_vars(StepAcc) /\ WF_vars(Tick)

-----------------------------------------------------------------------------
(* Properties *)

\* Every variable keeps its type: no more packets of a client are unanswered
\* than its credit allows, and the clocks stay within what is told apart.
TypeOK ==
  /\ stat \in [End -> {"down", "hello", "up"}]
  /\ conn \in [End -> {"none", "open", "eof", "cut"}]
  /\ pend \in BOOLEAN /\ stale \in BOOLEAN
  /\ chan \in [End -> Seq(Packet)]
  /\ agent \in [End -> {"none", "asked", "open"}] /\ agent["acc"] # "asked"
  /\ out \in 0..Window /\ buf \in 0..Window
  /\ PackSize \in [End -> Sizes \cup {DefSize}] /\ Size \in [End -> Sizes]
  /\ since \in [End -> 0..NoTime] /\ lag \in [End -> 0..Unread]
  /\ idle \in [End -> 0..IdleTime] /\ faults \in 0..MaxFaults

\* Both ends are in one session.
Established == \A e \in End : stat[e] = "up" /\ conn[e] = "open"

\* The HELLOs bring both ends into step.  The loop of sox_setupX that waits for
\* HELLOOK throws every other packet away, and HELLO shuts a running session
\* down (case SOX_HELLO of sox_COMMIN): neither meets the packets of a session
\* over TCP, whatever was restarted, reset, cut or left in the queue before.
HelloFirst ==
  \A e \in End : Readable(e) =>
    /\ stat[e] = "hello" => Head1(e) \in {"HELLO", "HELLOOK"}
    /\ stat[e] = "up" => Head1(e) # "HELLO"

\* PackSize outlives a session.  Once the options have arrived both ends still
\* use the smaller one of the sizes they were started with now, if
\* set_PACKSIZE takes it at all.
SizesAgree ==
  LET n == Min2(Size["con"], Size["acc"]) IN
  ( /\ Established /\ n > MinSize
    /\ \A e \in End : \A i \in 1..Len(chan[e]) : chan[e][i][1] # "SETOPT" )
  => \A e \in End : PackSize[e] = n

\* A packet that names a client finds it: the clients of a lost session are
\* gone at both ends before the next one starts (shutdownAgents), and no
\* packet of the lost one comes late.
Paired ==
  \A e \in End : Readable(e) /\ stat[e] = "up" =>
    /\ Head1(e) \in {"SEND", "SENT"} => agent[e] = "open"
    /\ Head1(e) = "CONNECT" => agent[e] = "none"
    /\ Head1(e) = "CONNECTED" => agent[e] = "asked"

\* commInactive gives a session up only when its connection is dead, or when
\* SENDs wait at a server that does not read: those are not answered, and while
\* the client sends more of them no PING is sent that would be.
NoFalseAlarm ==
  \A e \in End : Alarm(e) => conn[e] = "cut" \/ (e = "con" /\ buf > 0)

\* commInactive never speaks for an end whose s_rtime is 0: one that was
\* started, finished its first setup, and had its connection cut before it read
\* a packet in sox_clock1.  It goes on with PINGs until TCP gives up.
Deaf(e) == stat[e] = "up" /\ conn[e] = "cut" /\ since[e] = NoTime

\* Whatever is restarted, reset or cut, the two ends find each other again,
\* unless one of them is deaf.
Recovered == []<>(Established \/ \E e \in End : Deaf(e))

\* The client of a session that is lost without a sign is closed at last, at
\* either end that is not deaf.
Released ==
  \A e \in End : agent[e] # "none" /\ conn[e] = "cut" ~> agent[e] = "none" \/ Deaf(e)
=============================================================================

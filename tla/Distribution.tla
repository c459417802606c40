---------------------------- MODULE Distribution ----------------------------
(***************************************************************************)
(* The distribution of a response that is being downloaded into the cache  *)
(* (src/delegate/src/distrib.cpp).  The process that downloads listens on  *)
(* a Unix socket beside the cache file; processes with a request for the   *)
(* same document connect to it and get the response from its beginning     *)
(* while it still comes in.  When the first one is accepted the downloader *)
(* forks: the child goes on serving the client of its own, now as one of   *)
(* the receptors, and the parent only distributes.                         *)
(*                                                                         *)
(* The response is a sequence of units, named by their positions in the    *)
(* cache file, where a header line stands as relay_response has changed    *)
(* it; a receptor's socket, in non-blocking mode, holds Room of them.      *)
(* What recvDistribution makes of its outcome is in HttpCache.             *)
(***************************************************************************)
EXTENDS Integers, Sequences

CONSTANTS
    Rcpt,       \* the processes that may connect
    Client,     \* the downloader's own client, in the end served by its child
    Slow,       \* those that may stop reading and stay connected
    Room,       \* units that fit into a socket
    MaxUnits,   \* bound: units of the response
    MaxLeng,    \* bound: units that come from the server at once
    MaxChanged  \* bound: header lines whose length is changed

ASSUME DistAssumption ==
    /\ Client \notin Rcpt /\ Slow \subseteq Rcpt \cup {Client}
    /\ Room \in Nat \ {0} /\ MaxUnits \in Nat \ {0} /\ MaxLeng \in Nat \ {0}
    /\ MaxChanged \in Nat

VARIABLES
    pc,         \* the downloader, see below
    resp,       \* units that came; as long as it is not cut, the file's length
    cut,        \* the cache file was truncated (and RX_cachefp set to NULL)
    curoff,     \* ca_curoff, the sum of the lengths given to sendDistribution
    backlog,    \* the connections to ca_distsock not accepted yet
    conn,       \* for each receiver both sides of its connection
    changed,    \* history: header lines written with another length
    failed      \* history: the receivers that the downloader left behind

vars == <<pc, resp, cut, curoff, backlog, conn, changed, failed>>

Who == Rcpt \cup {Client}

(***************************************************************************)
(* The downloader reads the header ("head"), the body ("load"), the rest   *)
(* for its own client only, with the socket still open ("alone") or not    *)
(* ("closed"), is in stopDistribution ("stop") or has ended ("end").       *)
(*                                                                         *)
(* Its side of a connection: putoff is the entry in ca_putoff, GONE stands *)
(* for a negative one and NONE says that there is no entry; open is FALSE  *)
(* for -1 in ca_receptors.  The receptors do not depend on each other, so  *)
(* their order is left out.                                                *)
(*                                                                         *)
(* The side of the receiver: in are the units in the socket, got the units *)
(* read, 0 one that is none of the response.  "direct" is the client       *)
(* before the fork, "left" a receiver that has closed, "closing" one whose *)
(* distributor has closed, "eof" one that has read up to there, "refused"  *)
(* one that got no status line (updated).                                  *)
(***************************************************************************)
GONE == -1
NONE == -2
Pc == {"head", "load", "alone", "closed", "stop", "end"}
Stat == {"idle", "direct", "wait", "recv", "closing", "eof", "refused", "left"}
Unit == 0 .. MaxUnits
Side == [st : Stat, in : Seq(Unit), got : Seq(Unit),
         putoff : NONE .. MaxUnits, open : BOOLEAN]

Units(from, to) == [n \in 1 .. to - from |-> from + n]    \* from+1 .. to
File == IF cut THEN 0 ELSE resp                           \* its length
Receptors == {w \in Who : conn[w].putoff # NONE}          \* ca_receptorN of them

Init ==
    /\ pc = "head" /\ resp = 0 /\ cut = FALSE /\ curoff = 0 /\ backlog = <<>>
    /\ conn = [w \in Who |-> [st |-> IF w = Client THEN "direct" ELSE "idle",
                              in |-> <<>>, got |-> <<>>,
                              putoff |-> NONE, open |-> FALSE]]
    /\ changed = 0 /\ failed = {}

-----------------------------------------------------------------------------
(* The receiving processes. *)

\* recvDistribution, connect_un
Connect(w) ==
    /\ conn[w].st = "idle" /\ pc \notin {"closed", "end"}
    /\ conn' = [conn EXCEPT ![w].st = "wait"]
    /\ backlog' = Append(backlog, w)
    /\ UNCHANGED <<pc, resp, cut, curoff, changed, failed>>

\* no status line in time, or the client of a receiver has gone
Leave(w) ==
    /\ conn[w].st \in {"wait", "recv", "closing"}
    /\ conn' = [conn EXCEPT ![w].st = "left", ![w].in = <<>>]
    /\ UNCHANGED <<pc, resp, cut, curoff, backlog, changed, failed>>

\* relay_response of a receiver: it reads what there is, and then the end
Read(w) ==
    /\ conn[w].st \in {"recv", "closing"}
    /\ \/ /\ conn[w].in # <<>>
          /\ conn' = [conn EXCEPT ![w].in = <<>>, ![w].got = @ \o conn[w].in]
       \/ /\ conn[w].in = <<>> /\ conn[w].st = "closing"
          /\ conn' = [conn EXCEPT ![w].st = "eof"]
    /\ UNCHANGED <<pc, resp, cut, curoff, backlog, changed, failed>>

-----------------------------------------------------------------------------
(* The downloader.  Each of these operators is what happens to one         *)
(* connection c.                                                           *)

\* mutant: a short count of write() is taken for all
PutAll(c, data) ==
    [c EXCEPT !.putoff = @ + Len(data), !.in = @ \o data]

\* a write to the socket of c: as much as it takes
Put(c, data) ==
    LET room == Room - Len(c.in)
        wcc == IF c.st # "recv" THEN 0
               ELSE IF Len(data) > room THEN room ELSE Len(data)
    IN  [c EXCEPT !.putoff = @ + wcc, !.in = @ \o SubSeq(data, 1, wcc)]

\* copy1: the file, file units long, from where the receptor is
Copy(c, file) ==
    IF file <= c.putoff THEN c ELSE Put(c, Units(c.putoff, file))

\* distrib: the new data to the receptors that are taken for synchronized
DistribTo(c, buff) == IF c.putoff = curoff THEN Put(c, buff) ELSE c

\* mutant: a receptor is given the rest only when all of it fits
FlushToWhole(c, off, file) ==
    IF c.putoff < 0 \/ c.putoff = off THEN c
    ELSE IF c.st # "recv" THEN [c EXCEPT !.putoff = GONE]
    ELSE IF file - c.putoff > Room - Len(c.in) THEN c ELSE Copy(c, file)

(***************************************************************************)
(* The loop of flushDistribution, with off in ca_curoff: a receptor that   *)
(* is not there is given more from the file, and one that takes nothing    *)
(* and is not connected any more is marked.                                *)
(***************************************************************************)
FlushTo(c, off, file) ==
    IF c.putoff < 0 \/ c.putoff = off THEN c
    ELSE IF c.st # "recv" THEN [c EXCEPT !.putoff = GONE] ELSE Copy(c, file)

\* accept1: status line, and the file from its beginning; it may have left
AcceptTo(c, file) ==
    Copy([c EXCEPT !.putoff = 0, !.open = TRUE,
                   !.st = IF @ = "wait" THEN "recv" ELSE @], file)

\* mutant: the child, too, is sent the file from its beginning
ForkFromStart(c, file) ==
    IF c.st # "direct" THEN c
    ELSE [c EXCEPT !.st = "recv", !.putoff = 0, !.open = TRUE]

\* the fork before the first receptor: the child becomes receptor 0, from
\* ftell(cachefp) on
ForkTo(c, file) ==
    IF c.st # "direct" THEN c
    ELSE [c EXCEPT !.st = "recv", !.putoff = file, !.open = TRUE]

\* as long as the client is served directly it gets the m units that come
DirectTo(c, m) ==
    IF c.st # "direct" THEN c ELSE [c EXCEPT !.got = @ \o Units(resp, resp + m)]

(***************************************************************************)
(* sendDistribution is given n units of a buffer that holds the next m of  *)
(* the response, and the file is file units long.  It returns early at the *)
(* beginning and while more is ready to be read, and before 5 seconds have *)
(* passed it accepts nobody.  The client gets its m units after it, from   *)
(* the child if that was just forked.                                      *)
(***************************************************************************)
sendDistribution(n, m, file) ==
    LET buff == [k \in 1 .. n |-> IF k <= m THEN resp + k ELSE 0]
        off == curoff + n
        Sent(w) == DirectTo(DistribTo(conn[w], buff), m)
        Flushed(w) == FlushTo(Sent(w), off, file)
        Accepted(w) == IF w = Head(backlog) THEN AcceptTo(Flushed(w), file)
                       ELSE ForkTo(Flushed(w), file)
    IN  /\ off <= MaxUnits /\ resp + m <= MaxUnits
        /\ curoff' = off /\ resp' = resp + m
        /\ \/ conn' = [w \in Who |-> Sent(w)] /\ UNCHANGED backlog
           \/ /\ curoff # 0
              /\ conn' = [w \in Who |-> Flushed(w)] /\ UNCHANGED backlog
           \/ /\ curoff # 0 /\ backlog # <<>>
              /\ conn' = [w \in Who |-> Accepted(w)]
              /\ backlog' = Tail(backlog)

(***************************************************************************)
(* n units come from the server and are written to the cache file.  In the *)
(* header a blank is put in behind a field name, or some are removed, so   *)
(* that the line has m units; the length that is passed on, lastRcc, was   *)
(* taken before.                                                           *)
(***************************************************************************)
Load(n, m) ==
    /\ pc \in {"head", "load"}
    /\ m # n => pc = "head" /\ changed < MaxChanged
    /\ sendDistribution(n, m, resp + m)
    /\ changed' = IF m # n THEN changed + 1 ELSE changed
    /\ pc' \in {pc, "load"}
    /\ UNCHANGED <<cut, failed>>

(***************************************************************************)
(* The cache file is given up: it is truncated and RX_cachefp is set to    *)
(* NULL.  A downloader that serves its client itself goes on with it; one  *)
(* that has forked has no recipient and no cache any more, and stops with  *)
(* the receptors it has.                                                   *)
(***************************************************************************)
Truncate ==
    /\ cut' = TRUE
    /\ pc' = IF Receptors' = {} THEN "alone" ELSE "stop"
    /\ failed' = failed \cup {w \in Who : conn'[w].open}
    /\ UNCHANGED changed

\* it is too large for its Content-Length, or without one; or has a cookie
Discard ==
    /\ pc \in {"head", "load"}
    /\ UNCHANGED <<resp, curoff, backlog, conn>>
    /\ Truncate

\* the disk is full: n units came, and none of them was written
DiskFull(n) ==
    /\ pc = "load"
    /\ sendDistribution(n, n, resp)
    /\ Truncate

\* n units come that are for the client only
LoadAlone(n) ==
    /\ pc \in {"alone", "closed"} /\ resp + n <= MaxUnits
    /\ resp' = resp + n
    /\ conn' = [w \in Who |-> DirectTo(conn[w], n)]
    /\ UNCHANGED <<pc, cut, curoff, backlog, changed, failed>>

\* the process, or the socket of the distribution, is gone
Ended(c) ==
    [c EXCEPT !.open = FALSE,
              !.st = CASE @ = "wait" -> "refused" [] @ = "recv" -> "closing"
                       [] @ = "direct" -> "eof" [] OTHER -> @]

(***************************************************************************)
(* STOP sendDistribution: the body is being decoded by a thread, which the *)
(* fork rules out (L_NOTHREAD).  The socket is closed and left in its      *)
(* directory, to be swept by stopDistribution.                             *)
(***************************************************************************)
StopThread ==
    /\ pc = "load" /\ Receptors = {}
    /\ pc' = "closed" /\ backlog' = <<>>
    /\ conn' = [w \in Who |-> IF conn[w].st = "wait" THEN Ended(conn[w]) ELSE conn[w]]
    /\ UNCHANGED <<resp, cut, curoff, changed, failed>>

Sweep ==
    /\ pc = "closed"
    /\ pc' = "end" /\ backlog' = <<>>
    /\ conn' = [w \in Who |-> Ended(conn[w])]
    /\ UNCHANGED <<resp, cut, curoff, changed, failed>>

\* the response has ended or broken off, or nobody waits for it any more
Stop ==
    /\ pc \in {"head", "load", "alone"}
    /\ pc' = "stop"
    /\ UNCHANGED <<resp, cut, curoff, backlog, conn, changed, failed>>

\* mutant: all are closed after the first round
ClosesAll(c) == c.open

\* receptors with all, and those marked, are closed
Closes(c) == c.open /\ c.putoff \in {curoff, GONE}
Close(c) == [c EXCEPT !.open = FALSE, !.st = IF @ = "recv" THEN "closing" ELSE @]

(***************************************************************************)
(* One round of flushDistribution in stopDistribution.  After the last one *)
(* the pending connections are discarded and the socket is removed.        *)
(***************************************************************************)
StopRound ==
    LET flushed == [w \in Who |-> FlushTo(conn[w], curoff, File)]
        round == [w \in Who |-> IF Closes(flushed[w]) THEN Close(flushed[w])
                                ELSE flushed[w]]
        over == \A w \in Who : ~round[w].open
    IN  /\ pc = "stop"
        /\ over \/ round # conn
        /\ \/ /\ over /\ pc' = "end" /\ backlog' = <<>>
              /\ conn' = [w \in Who |-> Ended(round[w])]
           \/ /\ ~over /\ conn' = round
              /\ UNCHANGED <<pc, backlog>>
        /\ UNCHANGED <<resp, cut, curoff, changed, failed>>

\* mutant: a receptor for which there is nothing is waited for without limit
StopTimeoutReading ==
    /\ pc = "stop"
    /\ \E w \in Who : conn[w].open
    /\ \A w \in Who : conn[w].open =>
         /\ conn[w].st = "recv" /\ conn[w].putoff # curoff
         /\ w \in Slow /\ Len(conn[w].in) = Room
    /\ pc' = "end" /\ backlog' = <<>>
    /\ conn' = [w \in Who |-> Ended(conn[w])]
    /\ failed' = failed \cup {w \in Who : conn[w].open}
    /\ UNCHANGED <<resp, cut, curoff, changed>>

(***************************************************************************)
(* For 120 seconds nobody has taken anything: those left have stopped      *)
(* reading, or the file holds nothing more for them although they are not  *)
(* at ca_curoff.  Their sockets are closed when the process ends.          *)
(***************************************************************************)
StopTimeout ==
    /\ pc = "stop"
    /\ \E w \in Who : conn[w].open
    /\ \A w \in Who : conn[w].open =>
         /\ conn[w].st = "recv" /\ conn[w].putoff # curoff
         /\ \/ w \in Slow /\ Len(conn[w].in) = Room
            \/ conn[w].putoff >= File
    /\ pc' = "end" /\ backlog' = <<>>
    /\ conn' = [w \in Who |-> Ended(conn[w])]
    /\ failed' = failed \cup {w \in Who : conn[w].open}
    /\ UNCHANGED <<resp, cut, curoff, changed>>

\* the downloader is killed
Crash ==
    /\ pc # "end"
    /\ pc' = "end" /\ backlog' = <<>>
    /\ conn' = [w \in Who |-> Ended(conn[w])]
    /\ failed' = failed \cup {w \in Who : conn[w].st \in {"direct", "recv"}}
    /\ UNCHANGED <<resp, cut, curoff, changed>>

Downloader == Stop \/ StopRound \/ StopTimeout \/ Sweep
Next ==
    \/ \E n, m \in 1 .. MaxLeng : Load(n, m)
    \/ \E n \in 1 .. MaxLeng : DiskFull(n) \/ LoadAlone(n)
    \/ Discard \/ StopThread \/ Downloader \/ Crash
    \/ \E w \in Who : Connect(w) \/ Leave(w) \/ Read(w)

Spec == Init /\ [][Next]_vars
LiveSpec ==
    /\ Spec
    /\ WF_vars(Downloader)
    /\ \A w \in Who \ Slow : WF_vars(Read(w))

-----------------------------------------------------------------------------
(* What is claimed. *)

Received(w) == conn[w].got \o conn[w].in

\* w is a receptor of a response with a header line of a changed length
Skewed(w) == changed > 0 /\ w \in Receptors

\* Every variable keeps its type, and no socket holds more than its room.
TypeOK ==
    /\ pc \in Pc /\ resp \in 0 .. MaxUnits /\ curoff \in 0 .. MaxUnits
    /\ cut \in BOOLEAN /\ changed \in 0 .. MaxChanged /\ failed \subseteq Who
    /\ backlog \in Seq(Rcpt)
    /\ conn \in [Who -> Side] /\ \A w \in Who : Len(conn[w].in) <= Room

(***************************************************************************)
(* What a receiver gets is the response from its beginning, without a gap  *)
(* and with nothing twice, whenever it came, whether it was sent as new    *)
(* data (distrib) or from the file (copy1), however short the writes were, *)
(* also when the file is discarded; and the client of the downloader does  *)
(* not notice the fork.  Receptors are excepted when the length of a       *)
(* header line was changed.  The comment in distrib, "send to syncronized  *)
(* receivers only", is not true then: a receptor may be at ca_curoff and   *)
(* not at the end of the file, and misses what lies between.               *)
(***************************************************************************)
InSequence ==
    \A w \in Who : Skewed(w) \/ Received(w) = Units(0, Len(Received(w)))

(***************************************************************************)
(* A receiver that sees the end of the stream has been given all that came *)
(* from the server, unless the downloader was killed, gave up on it or     *)
(* discarded the file while it was a receptor (failed), or its offsets are *)
(* skewed.  If the response itself broke off, it broke off for all.        *)
(***************************************************************************)
Complete ==
    \A w \in Who : conn[w].st \in {"closing", "eof"} =>
        w \in failed \/ Skewed(w) \/ Len(Received(w)) = resp

(***************************************************************************)
(* A receiver that goes on reading gets all that came from the server,     *)
(* however slow the others are, with the exceptions of Complete: of those  *)
(* that are given up in the end it is one only for these reasons.          *)
(***************************************************************************)
GetsAll ==
    \A w \in Who \ Slow : conn[w].st = "recv" ~>
        \/ w \in failed \/ Skewed(w) \/ conn[w].st = "left"
        \/ conn[w].st = "eof" /\ Len(conn[w].got) = resp

(***************************************************************************)
(* stopDistribution ends, also when receivers stop reading and do not      *)
(* leave, and when the file holds nothing more for those that are waited   *)
(* for (discarded, or shorter than ca_curoff).                             *)
(***************************************************************************)
Stops == (pc = "stop") ~> (pc = "end")
=============================================================================

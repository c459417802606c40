------------------------ MODULE DistributionProofs ------------------------
(***************************************************************************)
(* For any number of receivers, any length of the response and any room in *)
(* the sockets: every receiver gets the response from its beginning and    *)
(* without a gap, and one that sees the end of the stream has been given   *)
(* all that came.  Excepted are receptors of a response with a header line *)
(* of a changed length and, for the end, those that the downloader left    *)
(* behind when it was killed, gave up or discarded the cache file.         *)
(***************************************************************************)
EXTENDS Distribution, SequenceTheorems, TLAPS

Data(c) == c.got \o c.in
InSeq(c) == Data(c) = Units(0, Len(Data(c)))

\* What is known of the connection c when to units have come.  Who has not
\* been accepted has nothing; the client has all as long as it is served
\* directly.  If q, no header line was changed and what was given is in
\* sequence; if e, the entry in ca_putoff counts what its receptor was given.
Sound(c, to, q, e) ==
  /\ c \in Side /\ Len(c.in) <= Room
  /\ q \/ c.putoff = NONE => InSeq(c)
  /\ c.st \in {"idle", "wait", "refused"} =>
       c.in = <<>> /\ c.got = <<>> /\ c.putoff = NONE /\ ~c.open
  /\ c.st = "direct" => c.in = <<>> /\ Len(c.got) = to /\ c.putoff = NONE /\ ~c.open
  /\ c.st = "recv" => c.open /\ c.putoff >= 0
  /\ e /\ c.st = "recv" => c.putoff = Len(Data(c)) /\ c.putoff <= to
  /\ c.st \in {"closing", "eof"} => ~c.open
  /\ c.st = "left" => c.in = <<>>
  /\ c.open => c.putoff # NONE

\* Who is in the backlog is there once, and waits or has left.
Queued ==
  /\ \A i, j \in 1 .. Len(backlog) : backlog[i] = backlog[j] => i = j
  /\ \A i \in 1 .. Len(backlog) : conn[backlog[i]].st \in {"wait", "left"}

\* The client of the downloader never connects.
Own == conn[Client].st # "idle"

\* A file that was cut is not distributed any more, and without a changed line
\* ca_curoff is the length of the file as long as it matters.
Level ==
  /\ cut => pc \in {"alone", "stop", "end"}
  /\ pc = "alone" => cut
  /\ changed = 0 /\ ~cut /\ pc \in {"head", "load", "stop"} => curoff = resp

\* A connection is closed at the end only, so nothing comes any more; a cut
\* file leaves its receptors behind; and a closed socket had none.
Late ==
  \A w \in Who :
    /\ conn[w].st \in {"closing", "eof"} => pc \in {"stop", "end"}
    /\ cut /\ conn[w].open => w \in failed
    /\ pc = "closed" => ~conn[w].open

IInv ==
  /\ TypeOK /\ Complete /\ Queued /\ Own /\ Level /\ Late
  /\ \A w \in Who : Sound(conn[w], resp, changed = 0, changed = 0 /\ ~cut)

-----------------------------------------------------------------------------
(* Units and sequences of them. *)

\* Units(a, b) is a sequence of b - a positions.
LEMMA UnitsSeq ==
  ASSUME NEW a \in 0 .. MaxUnits, NEW b \in a .. MaxUnits
  PROVE  Units(a, b) \in Seq(Unit) /\ Len(Units(a, b)) = b - a
<1>1. MaxUnits \in Nat  BY DistAssumption
<1>2. \A n \in 1 .. b - a : a + n \in Unit  BY <1>1 DEF Unit
<1>3. Units(a, b) \in [1 .. b - a -> Unit]  BY <1>2 DEF Units
<1> QED  BY <1>3, b - a \in Nat

\* The first a units, followed by those up to b, are the first b.
LEMMA Join ==
  ASSUME NEW s \in Seq(Unit), s = Units(0, Len(s)),
         Len(s) <= MaxUnits, NEW b \in Len(s) .. MaxUnits
  PROVE  s \o Units(Len(s), b) = Units(0, b)
<1> DEFINE a == Len(s)
           t == Units(a, b)
<1>1. MaxUnits \in Nat /\ a \in 0 .. MaxUnits /\ b \in a .. MaxUnits  BY DistAssumption
<1>2. t \in Seq(Unit) /\ Len(t) = b - a  BY <1>1, UnitsSeq
<1>3. Units(0, b) \in Seq(Unit) /\ Len(Units(0, b)) = b  BY <1>1, UnitsSeq
<1>4. s \o t \in Seq(Unit) /\ Len(s \o t) = b  BY <1>1, <1>2
<1>5. ASSUME NEW i \in 1 .. b PROVE (s \o t)[i] = Units(0, b)[i]
  <2>1. Units(0, b)[i] = i  BY <1>1 DEF Units
  <2>2. CASE i <= a
    <3>1. (s \o t)[i] = s[i]  BY <1>1, <1>2, <2>2
    <3>2. s[i] = Units(0, a)[i]  OBVIOUS
    <3>3. Units(0, a)[i] = i  BY <1>1, <2>2 DEF Units
    <3> QED  BY <2>1, <3>1, <3>2, <3>3
  <2>3. CASE i > a
    <3>1. (s \o t)[i] = t[i - a]  BY <1>1, <1>2, <2>3
    <3>2. t[i - a] = a + (i - a)  BY <1>1, <2>3 DEF Units
    <3> QED  BY <1>1, <2>1, <3>1, <3>2
  <2>4. i <= a \/ i > a  BY <1>1
  <2> QED  BY <2>2, <2>3, <2>4
<1>6. s \o t = Units(0, b)  BY <1>3, <1>4, <1>5, SeqEqual
<1> QED  BY <1>6

\* The first k of the units that follow a are the units up to a + k.
LEMMA Part ==
  ASSUME NEW a \in 0 .. MaxUnits, NEW b \in a .. MaxUnits, NEW k \in 0 .. b - a
  PROVE  SubSeq(Units(a, b), 1, k) = Units(a, a + k)
<1>1. MaxUnits \in Nat /\ a + k \in a .. MaxUnits  BY DistAssumption
<1>2. Units(a, b) \in Seq(Unit) /\ Len(Units(a, b)) = b - a  BY UnitsSeq
<1>3. SubSeq(Units(a, b), 1, k) = [i \in 1 .. k |-> Units(a, b)[i]]  BY <1>1, <1>2
<1>4. \A i \in 1 .. k : Units(a, b)[i] = a + i  BY <1>1 DEF Units
<1>5. Units(a, a + k) = [i \in 1 .. k |-> a + i]  BY <1>1 DEF Units
<1> QED  BY <1>3, <1>4, <1>5

\* What was received is a sequence of units.
LEMMA DataSeq ==
  ASSUME NEW c \in Side
  PROVE  /\ c.in \in Seq(Unit) /\ c.got \in Seq(Unit) /\ Data(c) \in Seq(Unit)
         /\ Len(Data(c)) = Len(c.got) + Len(c.in) /\ Len(c.got) \in Nat /\ Len(c.in) \in Nat
         /\ Len(Data(c)) \in Nat /\ c.putoff \in Int
  BY DEF Side, Data, NONE

\* The empty sequence is Units(0, 0).
LEMMA Nothing == << >> = Units(0, 0) /\ << >> \in Seq(Unit) /\ Len(<< >>) = 0
  BY DEF Units

-----------------------------------------------------------------------------
(* What the downloader does to one connection. *)

\* A write to one that does not receive changes nothing.
LEMMA PutElse ==
  ASSUME NEW c \in Side, c.st # "recv", NEW data \in Seq(Unit)
  PROVE  Put(c, data) = c
<1>1. c.in \in Seq(Unit) /\ c.putoff \in Int  BY DEF Side, NONE
<1>2. SubSeq(data, 1, 0) = << >>  OBVIOUS
<1>3. c.in \o << >> = c.in  BY <1>1
<1> DEFINE more == SubSeq(data, 1, 0)
<1>4. Put(c, data) = [c EXCEPT !.putoff = c.putoff + 0, !.in = c.in \o more]  BY DEF Put
<1>5. c.in \o more = c.in /\ c.putoff + 0 = c.putoff  BY <1>1, <1>2, <1>3
<1> QED  BY <1>4, <1>5 DEF Side

\* How many of leng units a write takes when room of them fit.
LEMMA Taken ==
  ASSUME NEW leng \in Nat, NEW room \in Nat, NEW off \in Nat, NEW max \in Nat,
         off + leng <= max
  PROVE  LET k == IF leng > room THEN room ELSE leng
         IN  k \in 0 .. leng /\ k \in Nat /\ k <= room /\ off + k \in 0 .. max
  OBVIOUS

\* A write gives a receptor the first of the data, as many as fit; if they are
\* the units that follow the ones it was given, it stays in sequence.
LEMMA PutSound ==
  ASSUME NEW c, NEW old \in 0 .. MaxUnits, NEW to \in old .. MaxUnits, NEW q \in BOOLEAN,
         Sound(c, old, q, q), c.st = "recv",
         NEW data \in Seq(Unit), c.putoff + Len(data) <= MaxUnits,
         q => /\ data = Units(c.putoff, c.putoff + Len(data))
              /\ c.putoff + Len(data) <= to
  PROVE  Sound(Put(c, data), to, q, q) /\ Put(c, data).st = "recv"
<1> DEFINE room == Room - Len(c.in)
           k == IF Len(data) > room THEN room ELSE Len(data)
           more == SubSeq(data, 1, k)
           in == c.in \o more
           d == [c EXCEPT !.putoff = c.putoff + k, !.in = in]
<1>1. Put(c, data) = d  BY DEF Put
<1>2. /\ c \in Side /\ Len(c.in) <= Room /\ (q => InSeq(c))
      /\ c.open /\ c.putoff >= 0 /\ (q => c.putoff = Len(Data(c)))
  BY DEF Sound
<1>3. /\ c.in \in Seq(Unit) /\ c.got \in Seq(Unit) /\ Data(c) \in Seq(Unit)
      /\ Len(Data(c)) = Len(c.got) + Len(c.in) /\ Len(c.got) \in Nat /\ Len(c.in) \in Nat
      /\ Len(Data(c)) \in Nat /\ c.putoff \in Int
  BY <1>2, DataSeq
<1>4. MaxUnits \in Nat /\ Room \in Nat  BY DistAssumption
<1>5. /\ room \in Nat /\ k \in 0 .. Len(data) /\ k \in Nat /\ k <= room
      /\ c.putoff + k \in 0 .. MaxUnits
  <2>1. Len(data) \in Nat /\ room \in Nat /\ c.putoff \in Nat  BY <1>2, <1>3, <1>4
  <2> HIDE DEF room
  <2> QED  BY <1>4, <2>1, Taken
<1> HIDE DEF k
<1>6. more \in Seq(Unit) /\ Len(more) = k  BY <1>5
<1>7. q => more = Units(c.putoff, c.putoff + k)
  <2>1. Len(data) \in Nat /\ c.putoff \in 0 .. MaxUnits
    BY <1>2, <1>3, <1>4
  <2>2. c.putoff + Len(data) \in c.putoff .. MaxUnits
    BY <1>2, <1>3, <1>4, <2>1
  <2>3. k \in 0 .. (c.putoff + Len(data)) - c.putoff  BY <1>3, <1>5, <2>1
  <2>4. SubSeq(Units(c.putoff, c.putoff + Len(data)), 1, k) = Units(c.putoff, c.putoff + k)
    BY <2>1, <2>2, <2>3, Part
  <2> QED  BY <2>4
<1> HIDE DEF more
<1>8. in \in Seq(Unit) /\ Len(in) <= Room
  BY <1>2, <1>3, <1>4, <1>5, <1>6 DEF room
<1>9. c.putoff + k \in NONE .. MaxUnits  BY <1>5 DEF NONE
<1> HIDE DEF in
<1>10. /\ d \in Side /\ d.in = in /\ d.got = c.got /\ d.putoff = c.putoff + k
       /\ d.open = c.open /\ d.st = c.st
  BY <1>2, <1>8, <1>9 DEF Side
<1> HIDE DEF d
<1>11. ASSUME q PROVE Data(d) = Units(0, c.putoff + k) /\ Len(Data(d)) = c.putoff + k
  <2>1. \A a, b, m \in Seq(Unit) : (a \o b) \o m = a \o (b \o m)
    BY ConcatAssociative
  <2>2. c.got \in Seq(Unit) /\ c.in \in Seq(Unit) /\ more \in Seq(Unit)
    BY <1>3, <1>6
  <2>3. (c.got \o c.in) \o more = c.got \o (c.in \o more)
    BY ONLY <2>1, <2>2
  <2>4. Data(d) = Data(c) \o more  BY <1>10, <2>3 DEF Data, in
  <2> DEFINE p == c.putoff + k
  <2>5. Data(c) = Units(0, Len(Data(c))) /\ c.putoff = Len(Data(c))
    BY <1>2, <1>11 DEF InSeq
  <2>6. /\ Len(Data(c)) \in Nat /\ p \in 0 .. MaxUnits /\ 0 \in 0 .. MaxUnits
        /\ Len(Data(c)) <= p
    <3>1. Len(Data(c)) \in Nat  BY <1>3
    <3>2. k \in Nat  BY <1>5
    <3>3. Len(Data(c)) <= p  BY <2>5, <3>1, <3>2
    <3> QED  BY <1>4, <1>5, <3>1, <3>3
  <2> HIDE DEF p
  <2>7. Len(Data(c)) <= MaxUnits /\ p \in Len(Data(c)) .. MaxUnits  BY <1>4, <2>6
  <2>8. Data(c) \o Units(Len(Data(c)), p) = Units(0, p)  BY <1>3, <2>5, <2>7, Join
  <2>9. Len(Units(0, p)) = p  BY <2>6, UnitsSeq
  <2>10. more = Units(Len(Data(c)), p)  BY <1>7, <1>11, <2>5 DEF p
  <2>11. Data(d) = Units(0, p) /\ Len(Data(d)) = p  BY <2>4, <2>8, <2>9, <2>10
  <2> QED  BY <2>11 DEF p
<1>12. q => InSeq(d)  BY <1>11 DEF InSeq
<1>13. q => d.putoff = Len(Data(d)) /\ d.putoff <= to
  <2>1. q => c.putoff + k <= to
    <3>1. Len(data) \in Nat /\ to \in Int  OBVIOUS
    <3> QED  BY <1>3, <1>5, <3>1
  <2> QED  BY <1>10, <1>11, <2>1
<1>14. d.putoff # NONE /\ d.putoff >= 0  BY <1>5, <1>10 DEF NONE
<1> QED  BY <1>1, <1>2, <1>8, <1>10, <1>12, <1>13, <1>14 DEF Sound

\* Of one that is not served directly more units may come, and less be known.
LEMMA Grow ==
  ASSUME NEW c, NEW old \in 0 .. MaxUnits, NEW to \in old .. MaxUnits,
         NEW q \in BOOLEAN, NEW e \in BOOLEAN, NEW q2 \in BOOLEAN, NEW e2 \in BOOLEAN,
         q2 => q, e2 => e, Sound(c, old, q, e), c.st # "direct" \/ old = to
  PROVE  Sound(c, to, q2, e2)
<1>1. MaxUnits \in Nat  BY DistAssumption
<1>2. e2 /\ c.st = "recv" => c.putoff <= to
  <2>1. ASSUME e2, c.st = "recv" PROVE c.putoff <= to
    <3>1. c \in Side /\ c.putoff <= old  BY <2>1 DEF Sound
    <3>2. c.putoff \in Int  BY <3>1, DataSeq
    <3> QED  BY <1>1, <3>1, <3>2
  <2> QED  BY <2>1
<1> QED  BY <1>2 DEF Sound

\* copy1 keeps a receptor sound.
LEMMA CopySound ==
  ASSUME NEW c, NEW old \in 0 .. MaxUnits, NEW to \in old .. MaxUnits, NEW q \in BOOLEAN,
         Sound(c, old, q, q), c.st = "recv", NEW file \in 0 .. to
  PROVE  Sound(Copy(c, file), to, q, q) /\ Copy(c, file).st = "recv"
<1>1. c \in Side /\ c.putoff >= 0 /\ c.putoff \in Int  BY DataSeq DEF Sound
<1>2. MaxUnits \in Nat /\ file \in 0 .. MaxUnits  BY DistAssumption
<1>3. CASE file <= c.putoff
  <2>1. Copy(c, file) = c  BY <1>3 DEF Copy
  <2> QED  BY <2>1, Grow
<1>4. CASE ~(file <= c.putoff)
  <2> DEFINE data == Units(c.putoff, file)
  <2>1. Copy(c, file) = Put(c, data)  BY <1>4 DEF Copy
  <2>2. c.putoff \in 0 .. MaxUnits /\ file \in c.putoff .. MaxUnits  BY <1>1, <1>2, <1>4
  <2>3. data \in Seq(Unit) /\ Len(data) = file - c.putoff  BY <2>2, UnitsSeq
  <2>4. c.putoff + Len(data) = file  BY <1>1, <1>2, <2>3
  <2>5. c.putoff + Len(data) <= MaxUnits /\ c.putoff + Len(data) <= to  BY <1>2, <2>4
  <2>6. data = Units(c.putoff, c.putoff + Len(data))  BY <2>4
  <2> HIDE DEF data
  <2> QED  BY <2>1, <2>3, <2>5, <2>6, PutSound
<1> QED  BY <1>3, <1>4

\* The buffer that sendDistribution is given, n units of it.
Buff(n, m) == [k \in 1 .. n |-> IF k <= m THEN resp + k ELSE 0]

\* distrib keeps a connection sound, and does not touch who is served directly.
LEMMA DistribSound ==
  ASSUME NEW c, resp \in 0 .. MaxUnits, curoff \in 0 .. MaxUnits,
         NEW n \in Nat, NEW m \in Nat, curoff + n <= MaxUnits, resp + m <= MaxUnits,
         NEW q \in BOOLEAN, q => m = n /\ curoff = resp, Sound(c, resp, q, q)
  PROVE  /\ DistribTo(c, Buff(n, m)).st = c.st
         /\ c.st # "direct" => Sound(DistribTo(c, Buff(n, m)), resp + m, q, q)
         /\ c.st = "direct" => DistribTo(c, Buff(n, m)) = c
<1> DEFINE buff == Buff(n, m)
<1>1. c \in Side  BY DEF Sound
<1>2. MaxUnits \in Nat /\ resp + m \in resp .. MaxUnits  BY DistAssumption
<1>3. buff \in Seq(Unit) /\ Len(buff) = n
  <2>1. \A k \in 1 .. n : (IF k <= m THEN resp + k ELSE 0) \in Unit  BY <1>2 DEF Unit
  <2>2. buff \in [1 .. n -> Unit]  BY <2>1 DEF Buff
  <2> HIDE DEF buff
  <2> QED  BY <2>2
<1> HIDE DEF buff
<1>4. CASE c.st = "recv" /\ c.putoff = curoff
  <2>1. DistribTo(c, buff) = Put(c, buff)  BY <1>4 DEF DistribTo
  <2>2. c.putoff + Len(buff) <= MaxUnits  BY <1>3, <1>4
  <2>3. ASSUME q
        PROVE  /\ buff = Units(c.putoff, c.putoff + Len(buff))
               /\ c.putoff + Len(buff) <= resp + m
    <3>1. buff = [k \in 1 .. n |-> resp + k]  BY <2>3 DEF Buff, buff
    <3>2. Units(c.putoff, c.putoff + Len(buff)) = [k \in 1 .. n |-> resp + k]
      BY <1>3, <1>4, <2>3 DEF Units
    <3> QED  BY <1>3, <1>4, <2>3, <3>1, <3>2
  <2> DEFINE to == resp + m
  <2>4. to \in resp .. MaxUnits /\ (q => c.putoff + Len(buff) <= to)  BY <1>2, <2>3
  <2> HIDE DEF to
  <2>5. Sound(Put(c, buff), to, q, q) /\ Put(c, buff).st = "recv"
    BY <1>3, <1>4, <2>2, <2>3, <2>4, PutSound
  <2> QED  BY <1>4, <2>1, <2>5 DEF to, buff
<1>5. CASE ~(c.st = "recv" /\ c.putoff = curoff)
  <2>1. DistribTo(c, buff) = c  BY <1>1, <1>3, <1>5, PutElse DEF DistribTo
  <2> QED  BY <1>2, <2>1, Grow DEF buff
<1> QED  BY <1>4, <1>5 DEF buff

\* One that is served directly gets all that comes.
LEMMA DirectSound ==
  ASSUME NEW c, resp \in 0 .. MaxUnits, NEW m \in Nat, resp + m <= MaxUnits,
         NEW q \in BOOLEAN, NEW e \in BOOLEAN, Sound(c, resp, q, e), c.st = "direct"
  PROVE  Sound(DirectTo(c, m), resp + m, q, e) /\ DirectTo(c, m).st = "direct"
<1> DEFINE to == resp + m
           more == Units(resp, to)
           got == c.got \o more
           d == [c EXCEPT !.got = got]
<1>1. /\ c \in Side /\ Len(c.in) <= Room /\ Data(c) = Units(0, Len(Data(c)))
      /\ c.in = << >> /\ Len(c.got) = resp /\ c.putoff = NONE /\ ~c.open
  BY DEF Sound, InSeq
<1>2. c.in \in Seq(Unit) /\ c.got \in Seq(Unit)  BY <1>1, DataSeq
<1>3. Data(c) = c.got  BY <1>1, <1>2 DEF Data
<1>4. MaxUnits \in Nat /\ resp <= MaxUnits /\ to \in resp .. MaxUnits /\ to \in 0 .. MaxUnits
  BY DistAssumption
<1> HIDE DEF to
<1>5. more \in Seq(Unit)  BY <1>4, UnitsSeq
<1>6. got = Units(0, to)
  <2>1. c.got = Units(0, Len(c.got))  BY <1>1, <1>3
  <2> QED  BY <1>1, <1>2, <1>4, <2>1, Join
<1>7. Len(Units(0, to)) = to
  <2>1. 0 \in 0 .. MaxUnits  BY <1>4
  <2> QED  BY <1>4, <2>1, UnitsSeq
<1> HIDE DEF more
<1>8. got \in Seq(Unit)  BY <1>2, <1>5
<1>9. DirectTo(c, m) = d  BY DEF DirectTo, more, to
<1> HIDE DEF got
<1>10. /\ d \in Side /\ d.in = c.in /\ d.got = got /\ d.putoff = c.putoff
       /\ d.open = c.open /\ d.st = c.st
  BY <1>1, <1>8 DEF Side
<1> HIDE DEF d
<1>11. Data(d) = d.got
  <2>1. d.got \in Seq(Unit) /\ d.in = << >>  BY <1>1, <1>8, <1>10
  <2> QED  BY ONLY <2>1 DEF Data
<1>12. Sound(d, to, q, e)  BY <1>1, <1>6, <1>7, <1>10, <1>11 DEF Sound, InSeq
<1> QED  BY <1>9, <1>10, <1>12 DEF to

\* So does the loop of flushDistribution, also when the file was cut.
LEMMA FlushSound ==
  ASSUME NEW c, NEW to \in 0 .. MaxUnits, NEW q \in BOOLEAN, NEW e \in BOOLEAN,
         Sound(c, to, q, e), NEW off \in Nat, NEW file \in 0 .. to, e = q \/ file = 0
  PROVE  /\ Sound(FlushTo(c, off, file), to, q, e) /\ FlushTo(c, off, file).st = c.st
         /\ c.st # "recv" => Data(FlushTo(c, off, file)) = Data(c)
         /\ FlushTo(c, off, file).open = c.open
         /\ (FlushTo(c, off, file).putoff = NONE) = (c.putoff = NONE)
<1>1. c \in Side /\ c.putoff \in Int  BY DataSeq DEF Sound
<1>2. MaxUnits \in Nat /\ to \in to .. MaxUnits  BY DistAssumption
<1>3. CASE c.putoff < 0 \/ c.putoff = off  BY <1>3 DEF FlushTo
<1>4. CASE ~(c.putoff < 0 \/ c.putoff = off) /\ c.st # "recv"
  <2> DEFINE d == [c EXCEPT !.putoff = GONE]
  <2>1. FlushTo(c, off, file) = d  BY <1>4 DEF FlushTo
  <2>2. GONE \in NONE .. MaxUnits /\ GONE # NONE  BY <1>2 DEF GONE, NONE
  <2>3. c.putoff # NONE  BY <1>1, <1>4 DEF NONE
  <2> HIDE DEF GONE
  <2>4. /\ d \in Side /\ d.in = c.in /\ d.got = c.got /\ d.open = c.open /\ d.st = c.st
        /\ d.putoff = GONE
    BY <1>1, <2>2 DEF Side
  <2>5. c.st \notin {"idle", "wait", "refused", "direct"}  BY <2>3 DEF Sound
  <2> HIDE DEF d
  <2>6. Data(d) = Data(c)  BY <2>4 DEF Data
  <2> QED  BY <1>4, <2>1, <2>2, <2>3, <2>4, <2>5, <2>6 DEF Sound, InSeq
<1>5. CASE ~(c.putoff < 0 \/ c.putoff = off) /\ c.st = "recv"
  <2>1. FlushTo(c, off, file) = Copy(c, file)  BY <1>5 DEF FlushTo
  <2>2. CASE e = q
    <3>1. Sound(Copy(c, file), to, q, q) /\ Copy(c, file).st = "recv"
      BY <1>2, <1>5, <2>2, CopySound
    <3>2. Copy(c, file).open /\ Copy(c, file).putoff # NONE /\ c.open /\ c.putoff # NONE
      BY <1>5, <3>1 DEF Sound
    <3>3. Copy(c, file).open \in BOOLEAN /\ c.open \in BOOLEAN  BY <1>1, <3>1 DEF Sound, Side
    <3> QED  BY <1>5, <2>1, <2>2, <3>1, <3>2, <3>3
  <2>3. CASE file = 0
    <3>1. Copy(c, file) = c  BY <1>1, <1>5, <2>3 DEF Copy
    <3> QED  BY <2>1, <3>1
  <2> QED  BY <2>2, <2>3
<1> QED  BY <1>3, <1>4, <1>5

\* A connection that is accepted starts with nothing, at the beginning.
LEMMA AcceptSound ==
  ASSUME NEW c, NEW to \in 0 .. MaxUnits, NEW q \in BOOLEAN, Sound(c, to, q, q),
         c.st \in {"wait", "left"}, NEW file \in 0 .. to
  PROVE  Sound(AcceptTo(c, file), to, q, q) /\ AcceptTo(c, file).st \in {"recv", "left"}
<1> DEFINE s == IF c.st = "wait" THEN "recv" ELSE c.st
           d == [c EXCEPT !.putoff = 0, !.open = TRUE, !.st = s]
<1>1. AcceptTo(c, file) = Copy(d, file)  BY DEF AcceptTo
<1>2. MaxUnits \in Nat /\ to \in to .. MaxUnits /\ 0 \in NONE .. MaxUnits /\ 0 # NONE
  BY DistAssumption DEF NONE
<1>3. c \in Side /\ Len(c.in) <= Room /\ (q => InSeq(c)) /\ c.in = << >>
  BY DEF Sound
<1>4. s \in Stat /\ s \in {"recv", "left"} /\ (s = "recv" => c.st = "wait")  BY DEF Stat
<1> HIDE DEF s
<1>5. /\ d \in Side /\ d.in = c.in /\ d.got = c.got /\ d.putoff = 0
      /\ d.open = TRUE /\ d.st = s
  BY <1>2, <1>3, <1>4 DEF Side
<1> HIDE DEF d
<1>6. Data(d) = Data(c)  BY <1>5 DEF Data
<1>7. s = "recv" => Len(Data(d)) = 0
  <2>1. ASSUME s = "recv" PROVE Data(c) = << >>  BY <1>4, <2>1 DEF Sound, Data
  <2> QED  BY <1>6, <2>1
<1>8. 0 <= to /\ 0 >= 0  OBVIOUS
<1>9. Sound(d, to, q, q)  BY <1>2, <1>3, <1>4, <1>5, <1>6, <1>7, <1>8 DEF Sound, InSeq
<1>10. CASE s = "recv"  BY <1>1, <1>2, <1>5, <1>9, <1>10, CopySound
<1>11. CASE s # "recv"
  <2>1. Copy(d, file) = d
    <3>1. CASE file <= d.putoff  BY <3>1 DEF Copy
    <3>2. CASE ~(file <= d.putoff)
      <4>1. d.putoff \in 0 .. MaxUnits /\ file \in d.putoff .. MaxUnits  BY <1>2, <1>5
      <4>2. Units(d.putoff, file) \in Seq(Unit)  BY <4>1, UnitsSeq
      <4> QED  BY <1>5, <1>11, <3>2, <4>2, PutElse DEF Copy
    <3> QED  BY <3>1, <3>2
  <2> QED  BY <1>1, <1>4, <1>5, <1>9, <2>1
<1> QED  BY <1>10, <1>11

\* The child takes over where the file ends.
LEMMA ForkSound ==
  ASSUME NEW c, NEW to \in 0 .. MaxUnits, NEW q \in BOOLEAN, Sound(c, to, q, q),
         NEW file \in 0 .. to
  PROVE  /\ Sound(ForkTo(c, file), to, q, q /\ file = to)
         /\ ForkTo(c, file).st = IF c.st = "direct" THEN "recv" ELSE c.st
<1>0. MaxUnits \in Nat /\ to \in to .. MaxUnits  BY DistAssumption
<1>1. CASE c.st # "direct"
  <2>1. ForkTo(c, file) = c  BY <1>1 DEF ForkTo
  <2>2. Sound(c, to, q, q /\ file = to)  BY <1>0, Grow
  <2> QED  BY <1>1, <2>1, <2>2
<1>2. CASE c.st = "direct"
  <2> DEFINE d == [c EXCEPT !.st = "recv", !.putoff = file, !.open = TRUE]
  <2>1. ForkTo(c, file) = d  BY <1>2 DEF ForkTo
  <2>2. file \in NONE .. MaxUnits /\ to <= to /\ file >= 0 /\ file # NONE
    BY DistAssumption DEF NONE
  <2>3. /\ c \in Side /\ Len(c.in) <= Room /\ InSeq(c)
        /\ c.in = << >> /\ Len(c.got) = to
    BY <1>2 DEF Sound
  <2>4. "recv" \in Stat  BY DEF Stat
  <2>5. /\ d \in Side /\ d.in = c.in /\ d.got = c.got /\ d.putoff = file
        /\ d.open = TRUE /\ d.st = "recv"
    BY <2>2, <2>3, <2>4 DEF Side
  <2> HIDE DEF d
  <2>6. Data(d) = Data(c) /\ Data(c) = c.got  BY <2>3, <2>5 DEF Data, Side
  <2>7. Sound(d, to, q, q /\ file = to)  BY <2>2, <2>3, <2>5, <2>6 DEF Sound, InSeq
  <2> QED  BY <1>2, <2>1, <2>5, <2>7
<1> QED  BY <1>1, <1>2

\* A connection that is closed keeps its data.
LEMMA CloseSound ==
  ASSUME NEW c, NEW to, NEW q, NEW e, Sound(c, to, q, e)
  PROVE  /\ Sound(Close(c), to, q, e) /\ Data(Close(c)) = Data(c) /\ Close(c).open = FALSE
         /\ Close(c).st = IF c.st = "recv" THEN "closing" ELSE c.st
         /\ Close(c).putoff = c.putoff
<1> DEFINE s == IF c.st = "recv" THEN "closing" ELSE c.st
           d == [c EXCEPT !.open = FALSE, !.st = s]
<1>1. Close(c) = d  BY DEF Close
<1>2. c \in Side  BY DEF Sound
<1>3. s \in Stat  BY <1>2 DEF Stat, Side
<1> HIDE DEF s
<1>4. /\ d \in Side /\ d.in = c.in /\ d.got = c.got /\ d.putoff = c.putoff
      /\ d.open = FALSE /\ d.st = s
  BY <1>2, <1>3 DEF Side
<1> HIDE DEF d
<1>5. Data(d) = Data(c)  BY <1>4 DEF Data
<1>6. Sound(d, to, q, e)  BY <1>4, <1>5 DEF Sound, InSeq, s
<1> QED  BY <1>1, <1>4, <1>5, <1>6 DEF s

\* What the status becomes when the socket is gone.
Over(st) == CASE st = "wait" -> "refused" [] st = "recv" -> "closing"
              [] st = "direct" -> "eof" [] OTHER -> st

\* So does one whose downloader is gone.
LEMMA EndedSound ==
  ASSUME NEW c, NEW to, NEW q, NEW e, Sound(c, to, q, e)
  PROVE  /\ Sound(Ended(c), to, q, e) /\ Data(Ended(c)) = Data(c)
         /\ Ended(c).st = Over(c.st) /\ Ended(c).open = FALSE /\ Ended(c).putoff = c.putoff
<1> DEFINE s == Over(c.st)
           d == [c EXCEPT !.open = FALSE, !.st = s]
<1>1. Ended(c) = d  BY DEF Ended, Over
<1>2. c \in Side  BY DEF Sound
<1>3. s \in Stat  BY <1>2 DEF Stat, Side, Over
<1> HIDE DEF s
<1>4. /\ d \in Side /\ d.in = c.in /\ d.got = c.got /\ d.putoff = c.putoff
      /\ d.open = FALSE /\ d.st = s
  BY <1>2, <1>3 DEF Side
<1> HIDE DEF d
<1>5. Data(d) = Data(c)  BY <1>4 DEF Data
<1>6. c.st \in Stat /\ s = Over(c.st)  BY <1>2 DEF Side, s
<1>7. Sound(d, to, q, e)  BY <1>4, <1>5, <1>6 DEF Sound, InSeq, Over, Stat
<1> QED  BY <1>1, <1>4, <1>5, <1>7 DEF s

\* Who is served directly has been given all there is.
LEMMA DirectData ==
  ASSUME NEW c, NEW to, NEW q, NEW e, Sound(c, to, q, e), c.st = "direct"
  PROVE  Len(Data(c)) = to
<1>1. c \in Side /\ c.in = << >> /\ Len(c.got) = to  BY DEF Sound
<1>2. c.got \in Seq(Unit)  BY <1>1, DataSeq
<1>3. Data(c) = c.got  BY ONLY <1>1, <1>2 DEF Data
<1> QED  BY <1>1, <1>3

\* A round of stopDistribution closes a receptor that has all, and no other one.
Round(c) == LET f == FlushTo(c, curoff, File) IN IF Closes(f) THEN Close(f) ELSE f

\* One round for one receptor keeps Sound, and closes it only with all units delivered.
LEMMA RoundSound ==
  ASSUME NEW c, resp \in 0 .. MaxUnits, curoff \in 0 .. MaxUnits, cut \in BOOLEAN,
         NEW q \in BOOLEAN, Sound(c, resp, q, q /\ ~cut), q /\ ~cut => curoff = resp
  PROVE  LET r == Round(c)
         IN  /\ Sound(r, resp, q, q /\ ~cut)
             /\ r.st = c.st \/ (c.st = "recv" /\ r.st = "closing")
             /\ c.st # "recv" => Data(r) = Data(c)
             /\ r.open => c.open
             /\ (r.putoff = NONE) = (c.putoff = NONE)
             /\ c.st = "recv" /\ r.st = "closing" /\ q /\ ~cut => Len(Data(r)) = resp
<1> DEFINE f == FlushTo(c, curoff, File)
           r == Round(c)
           e == q /\ ~cut
<1>0. MaxUnits \in Nat /\ File \in 0 .. resp /\ (e = q \/ File = 0) /\ curoff \in Nat
      /\ e \in BOOLEAN
  BY DistAssumption DEF File
<1>1. /\ Sound(f, resp, q, e) /\ f.st = c.st /\ (c.st # "recv" => Data(f) = Data(c))
      /\ f.open = c.open /\ (f.putoff = NONE) = (c.putoff = NONE)
  <2> HIDE DEF e
  <2>1. Sound(c, resp, q, e)  BY DEF e
  <2> QED  BY <1>0, <2>1, FlushSound
<1>2. r = IF Closes(f) THEN Close(f) ELSE f  BY DEF Round
<1> HIDE DEF f, r
<1>3. CASE ~Closes(f)
  <2>1. r = f  BY <1>2, <1>3
  <2> QED  BY <1>1, <2>1 DEF r
<1>4. CASE Closes(f)
  <2>1. r = Close(f)  BY <1>2, <1>4
  <2>2. /\ Sound(r, resp, q, e) /\ Data(r) = Data(f) /\ r.open = FALSE
        /\ r.st = IF f.st = "recv" THEN "closing" ELSE f.st
        /\ r.putoff = f.putoff
    BY <1>1, <2>1, CloseSound
  <2>3. ASSUME f.st = "recv", q, ~cut PROVE Len(Data(f)) = resp
    <3>1. f \in Side /\ f.putoff = Len(Data(f))  BY <1>1, <2>3 DEF Sound
    <3>2. Data(f) \in Seq(Unit)  BY <3>1, DataSeq
    <3>3. Len(Data(f)) \in Nat  BY <3>2
    <3>4. f.putoff = curoff \/ f.putoff = -1  BY <1>4 DEF Closes, GONE
    <3> QED  BY <2>3, <3>1, <3>3, <3>4
  <2> QED  BY <1>1, <2>2, <2>3 DEF r
<1> QED  BY <1>3, <1>4

-----------------------------------------------------------------------------
(* The invariant. *)

\* The types of what is not a connection.
TypeRest ==
  /\ pc \in Pc /\ resp \in 0 .. MaxUnits /\ curoff \in 0 .. MaxUnits
  /\ cut \in BOOLEAN /\ changed \in 0 .. MaxChanged /\ failed \subseteq Who
  /\ backlog \in Seq(Rcpt)

\* When a receiver may see the end.
MayEnd(w, c) ==
  c.st \in {"closing", "eof"} =>
    /\ pc \in {"stop", "end"}
    /\ w \in failed \/ (changed > 0 /\ c.putoff # NONE) \/ Len(Data(c)) = resp

\* What holds of the connection c of w.
Fine(w, c) ==
  /\ Sound(c, resp, changed = 0, changed = 0 /\ ~cut)
  /\ MayEnd(w, c)
  /\ cut /\ c.open => w \in failed
  /\ pc = "closed" => ~c.open
Each(w) == Fine(w, conn[w])

Whole ==
  /\ TypeRest /\ conn = [w \in Who |-> conn[w]] /\ Queued /\ Own /\ Level
  /\ \A w \in Who : Each(w)

\* The invariant, connection by connection.
LEMMA Parts == IInv <=> Whole
<1>1. ASSUME IInv PROVE Whole
  <2>1. TypeRest /\ conn = [w \in Who |-> conn[w]] /\ Queued /\ Own /\ Level
    BY <1>1 DEF IInv, TypeOK, TypeRest
  <2>2. ASSUME NEW w \in Who PROVE Each(w)
    BY <1>1 DEF IInv, Each, Fine, MayEnd, Complete, Late, Received, Data, Skewed, Receptors
  <2> QED  BY <2>1, <2>2 DEF Whole
<1>2. ASSUME Whole PROVE IInv
  <2>1. \A w \in Who : conn[w] \in Side /\ Len(conn[w].in) <= Room
    BY <1>2 DEF Whole, Each, Fine, Sound
  <2>2. conn \in [Who -> Side]  BY <1>2, <2>1 DEF Whole
  <2>3. TypeOK  BY <1>2, <2>1, <2>2 DEF Whole, TypeOK, TypeRest
  <2>4. Complete
    BY <1>2 DEF Whole, Each, Fine, MayEnd, Complete, Received, Data, Skewed, Receptors
  <2>5. Late  BY <1>2 DEF Whole, Each, Fine, MayEnd, Late
  <2> QED  BY <1>2, <2>3, <2>4, <2>5 DEF Whole, IInv, Each, Fine
<1> QED  BY <1>1, <1>2

\* It holds in the beginning.
LEMMA InitInv == Init => IInv
<1> SUFFICES ASSUME Init PROVE IInv  OBVIOUS
<1>1. TypeRest
  <2>1. 0 \in 0 .. MaxUnits /\ 0 \in 0 .. MaxChanged  BY DistAssumption
  <2>2. backlog \in Seq(Rcpt) /\ failed \subseteq Who /\ pc \in Pc  BY DEF Init, Pc
  <2> QED  BY <2>1, <2>2 DEF Init, TypeRest
<1>2. conn = [w \in Who |-> conn[w]]  BY DEF Init
<1>3. Queued  BY DEF Init, Queued
<1>4. Own  BY DEF Init, Own, Who
<1>5. ASSUME NEW w \in Who PROVE Each(w)
  <2> DEFINE c == conn[w]
  <2>1. /\ c.st \in {"direct", "idle"} /\ c.in = << >> /\ c.got = << >> /\ c.putoff = NONE
        /\ c.open = FALSE /\ resp = 0 /\ pc = "head" /\ cut = FALSE
    BY DEF Init
  <2>2. NONE \in NONE .. MaxUnits  BY DistAssumption DEF NONE
  <2>3. c \in Side
    <3>1. c = [st |-> IF w = Client THEN "direct" ELSE "idle",
               in |-> <<>>, got |-> <<>>, putoff |-> NONE, open |-> FALSE]
      BY DEF Init
    <3>2. (IF w = Client THEN "direct" ELSE "idle") \in Stat  BY DEF Stat
    <3> HIDE DEF c, NONE
    <3> QED  BY <2>2, <3>1, <3>2, Nothing DEF Side
  <2> HIDE DEF c
  <2>4. Data(c) = << >>  BY <2>1 DEF Data
  <2>5. InSeq(c)  BY <2>4, Nothing DEF InSeq
  <2>6. Sound(c, resp, changed = 0, changed = 0 /\ ~cut)
    BY <2>1, <2>3, <2>5, Nothing, DistAssumption DEF Sound
  <2> QED  BY <2>1, <2>6 DEF Each, Fine, MayEnd, c
<1>6. Level  BY DEF Init, Level
<1> QED  BY <1>1, <1>2, <1>3, <1>4, <1>5, <1>6, Parts DEF Whole

\* The invariant after a step.
LEMMA PartsNext ==
  ASSUME TypeRest', conn' = [w \in Who |-> conn'[w]], Queued', Own', Level',
         \A w \in Who : Each(w)'
  PROVE  IInv'
<1>1. Whole'  BY DEF Whole
<1>2. (IInv <=> Whole)'  BY Parts, PTL
<1> QED  BY <1>1, <1>2

\* A step of a receiver, which changes its own connection to d.
LEMMA StepOfOne ==
  ASSUME IInv, NEW w \in Who, NEW d, conn' = [conn EXCEPT ![w] = d],
         UNCHANGED <<pc, resp, cut, curoff, changed, failed>>,
         Fine(w, d), d.st # "idle", backlog' \in Seq(Rcpt), Queued'
  PROVE  IInv'
<1>1. /\ TypeRest /\ conn = [v \in Who |-> conn[v]] /\ Own /\ Level /\ \A v \in Who : Each(v)
  BY Parts DEF Whole
<1>2. TypeRest'  BY <1>1 DEF TypeRest
<1>3. conn' = [v \in Who |-> conn'[v]]  BY <1>1
<1>4. conn'[w] = d /\ \A v \in Who : v # w => conn'[v] = conn[v]  BY <1>1
<1>5. Own'  BY <1>1, <1>4 DEF Own, Who
<1>6. ASSUME NEW v \in Who PROVE Each(v)'
  <2>1. Fine(v, conn'[v])  BY <1>1, <1>4 DEF Each
  <2>2. Each(v)' <=> Fine(v, conn'[v])  BY DEF Each, Fine, MayEnd, Sound
  <2> QED  BY <2>1, <2>2
<1>7. Level'  BY <1>1 DEF Level
<1> QED  BY <1>2, <1>3, <1>5, <1>6, <1>7, PartsNext

\* Who changes one connection to one that waits or has left, or changes none
\* that does, keeps the backlog in order.
LEMMA QueueKept ==
  ASSUME IInv, NEW w \in Who, NEW d, conn' = [conn EXCEPT ![w] = d],
         conn[w].st \in {"wait", "left"} => d.st \in {"wait", "left"},
         UNCHANGED backlog
  PROVE  Queued'
<1>1. conn = [v \in Who |-> conn[v]] /\ Queued /\ backlog \in Seq(Rcpt)
  BY Parts DEF Whole, TypeRest
<1>2. \A i \in 1 .. Len(backlog) : backlog[i] \in Who  BY <1>1 DEF Who
<1>3. ASSUME NEW i \in 1 .. Len(backlog) PROVE conn'[backlog[i]].st \in {"wait", "left"}
  BY <1>1, <1>2 DEF Queued
<1> QED  BY <1>1, <1>3 DEF Queued

\* A receiver connects: it is none that is in the backlog, and not the client.
LEMMA ConnectInv ==
  ASSUME IInv, NEW w \in Who, Connect(w)
  PROVE  IInv'
<1> DEFINE c == conn[w]
           d == [c EXCEPT !.st = "wait"]
<1>1. TypeRest /\ conn = [v \in Who |-> conn[v]] /\ Queued /\ Own /\ Fine(w, c)
  BY Parts DEF Whole, Each
<1>2. c.st = "idle" /\ conn' = [conn EXCEPT ![w] = d] /\ backlog' = Append(backlog, w)
      /\ UNCHANGED <<pc, resp, cut, curoff, changed, failed>>
  BY DEF Connect
<1>3. w \in Rcpt  BY <1>1, <1>2 DEF Own, Who
<1>4. c \in Side /\ "wait" \in Stat  BY <1>1 DEF Fine, Sound, Stat
<1>5. /\ d \in Side /\ d.in = c.in /\ d.got = c.got /\ d.putoff = c.putoff /\ d.open = c.open
      /\ d.st = "wait"
  BY <1>4 DEF Side
<1>6. conn'[w] = d /\ \A v \in Who : v # w => conn'[v] = conn[v]  BY <1>1, <1>2
<1> HIDE DEF d
<1>7. Data(d) = Data(c)  BY <1>5 DEF Data
<1>8. Fine(w, d)  BY <1>1, <1>2, <1>5, <1>7 DEF Fine, MayEnd, Sound, InSeq
<1>9. backlog \in Seq(Rcpt) /\ backlog' \in Seq(Rcpt)  BY <1>1, <1>2, <1>3 DEF TypeRest
<1>10. Queued'
  <2>1. /\ Len(backlog') = Len(backlog) + 1 /\ backlog'[Len(backlog) + 1] = w
        /\ \A i \in 1 .. Len(backlog) : backlog'[i] = backlog[i]
    BY <1>2, <1>9
  <2>2. ASSUME NEW i \in 1 .. Len(backlog) PROVE backlog[i] \in Who /\ backlog[i] # w
    <3>1. backlog[i] \in Rcpt  BY <1>9
    <3>2. conn[backlog[i]].st \in {"wait", "left"}  BY <1>1 DEF Queued
    <3> QED  BY <1>2, <3>1, <3>2 DEF Who
  <2>3. ASSUME NEW i \in 1 .. Len(backlog') PROVE i \in 1 .. Len(backlog) \/ i = Len(backlog) + 1
    BY <1>9, <2>1
  <2>4. ASSUME NEW i \in 1 .. Len(backlog') PROVE conn'[backlog'[i]].st \in {"wait", "left"}
    BY <1>1, <1>5, <1>6, <2>1, <2>2, <2>3 DEF Queued
  <2>5. ASSUME NEW i \in 1 .. Len(backlog'), NEW j \in 1 .. Len(backlog'),
               backlog'[i] = backlog'[j]
        PROVE  i = j
    BY <1>1, <2>1, <2>2, <2>3, <2>5 DEF Queued
  <2> QED  BY <2>4, <2>5 DEF Queued
<1> HIDE DEF c
<1> QED  BY <1>2, <1>5, <1>8, <1>9, <1>10, StepOfOne

\* The read part of what is in sequence is in sequence.
LEMMA Prefix ==
  ASSUME NEW c \in Side, InSeq(c)
  PROVE  c.got = Units(0, Len(c.got))
<1> DEFINE n == Len(c.got)
           m == Len(Data(c))
           k == Len(c.in)
<1>1. c.in \in Seq(Unit) /\ c.got \in Seq(Unit) /\ n \in Nat /\ k \in Nat /\ m = n + k
  BY DataSeq
<1> HIDE DEF n, k, m
<1>2. n \in Nat /\ m \in Nat /\ n <= m  BY <1>1
<1> USE DEF n, m
<1>3. \A i \in 1 .. n : c.got[i] = Data(c)[i]
  <2>1. \A s, t \in Seq(Unit) : \A i \in 1 .. Len(s) : s[i] = (s \o t)[i]  OBVIOUS
  <2> QED  BY <1>1, <2>1 DEF Data
<1>4. \A i \in 1 .. n : Data(c)[i] = Units(0, m)[i]  BY DEF InSeq
<1>5. \A i \in 1 .. n : Units(0, m)[i] = i  BY <1>2 DEF Units
<1>6. \A i \in 1 .. n : c.got[i] = i  BY <1>3, <1>4, <1>5
<1>7. Units(0, n) = [i \in 1 .. n |-> i]  BY <1>2 DEF Units
<1>8. c.got = [i \in 1 .. n |-> c.got[i]]  BY <1>1
<1> HIDE DEF n
<1>9. c.got = Units(0, n)  BY <1>6, <1>7, <1>8
<1> QED  BY <1>9 DEF n

\* A receiver leaves: what it has read stays in sequence.
LEMMA LeaveInv ==
  ASSUME IInv, NEW w \in Who, Leave(w)
  PROVE  IInv'
<1> DEFINE c == conn[w]
           d == [c EXCEPT !.st = "left", !.in = << >>]
<1>1. TypeRest /\ conn = [v \in Who |-> conn[v]] /\ Fine(w, c)
  BY Parts DEF Whole, Each
<1>2. conn' = [conn EXCEPT ![w] = d]
      /\ UNCHANGED <<pc, resp, cut, curoff, backlog, changed, failed>>
  BY <1>1 DEF Leave
<1>3. c \in Side /\ "left" \in Stat  BY <1>1 DEF Fine, Sound, Stat
<1>4. /\ d \in Side /\ d.in = << >> /\ d.got = c.got /\ d.putoff = c.putoff /\ d.open = c.open
      /\ d.st = "left"
  BY <1>3, Nothing DEF Side
<1> HIDE DEF d
<1>5. InSeq(c) => InSeq(d)
  <2>1. c.got \in Seq(Unit)  BY <1>3, DataSeq
  <2>2. Data(d) = c.got
    <3>1. c.got \in Seq(Unit) /\ d.in = << >> /\ d.got = c.got  BY <1>4, <2>1
    <3> QED  BY ONLY <3>1 DEF Data
  <2> QED  BY <1>3, <2>2, Prefix DEF InSeq
<1>6. Fine(w, d)  BY <1>1, <1>4, <1>5, Nothing, DistAssumption DEF Fine, MayEnd, Sound
<1>7. Queued'
  <2> HIDE DEF c
  <2> QED  BY <1>2, <1>4, QueueKept
<1>8. backlog' \in Seq(Rcpt)  BY <1>1, <1>2 DEF TypeRest
<1> HIDE DEF c
<1> QED  BY <1>2, <1>4, <1>6, <1>7, <1>8, StepOfOne

\* A receiver reads, or sees the end: what it was given stays the same.
LEMMA ReadInv ==
  ASSUME IInv, NEW w \in Who, Read(w)
  PROVE  IInv'
<1> DEFINE c == conn[w]
<1>1. TypeRest /\ conn = [v \in Who |-> conn[v]] /\ Fine(w, c)
  BY Parts DEF Whole, Each
<1>2. c \in Side /\ c.st \in {"recv", "closing"}
      /\ UNCHANGED <<pc, resp, cut, curoff, backlog, changed, failed>>
  BY <1>1 DEF Fine, Sound, Read
<1>3. c.in \in Seq(Unit) /\ c.got \in Seq(Unit)  BY <1>2, DataSeq
<1>4. backlog' \in Seq(Rcpt)  BY <1>1, <1>2 DEF TypeRest
<1>5. PICK d : /\ conn' = [conn EXCEPT ![w] = d]
               /\ d \in Side /\ Data(d) = Data(c) /\ Len(d.in) <= Len(c.in)
               /\ d.putoff = c.putoff /\ d.open = c.open
               /\ d.st = c.st \/ (c.st = "closing" /\ d.st = "eof")
  <2>1. CASE conn' = [conn EXCEPT ![w].in = <<>>, ![w].got = @ \o conn[w].in]
    <3> DEFINE g == c.got \o c.in
               d == [c EXCEPT !.in = << >>, !.got = g]
    <3>1. conn' = [conn EXCEPT ![w] = d]  BY <1>1, <2>1
    <3>2. g \in Seq(Unit)  BY <1>3
    <3>3. g = Data(c)  BY DEF Data
    <3> HIDE DEF g
    <3>4. /\ d \in Side /\ d.in = << >> /\ d.got = g /\ d.putoff = c.putoff /\ d.open = c.open
          /\ d.st = c.st
      BY <1>2, <3>2, Nothing DEF Side
    <3> HIDE DEF d
    <3>5. Data(d) = g  BY ONLY <3>2, <3>4 DEF Data
    <3>6. Len(d.in) <= Len(c.in)  BY <1>3, <3>4
    <3> QED  BY <3>1, <3>3, <3>4, <3>5, <3>6
  <2>2. CASE c.st = "closing" /\ conn' = [conn EXCEPT ![w].st = "eof"]
    <3> DEFINE d == [c EXCEPT !.st = "eof"]
    <3>1. conn' = [conn EXCEPT ![w] = d]  BY <1>1, <2>2
    <3>2. "eof" \in Stat  BY DEF Stat
    <3>3. /\ d \in Side /\ d.in = c.in /\ d.got = c.got /\ d.putoff = c.putoff /\ d.open = c.open
          /\ d.st = "eof"
      BY <1>2, <3>2 DEF Side
    <3> HIDE DEF d
    <3>4. Data(d) = Data(c)  BY <3>3 DEF Data
    <3>5. Len(d.in) <= Len(c.in)  BY <1>3, <3>3
    <3> QED  BY <2>2, <3>1, <3>3, <3>4, <3>5
  <2> QED  BY <2>1, <2>2 DEF Read
<1>6. Len(d.in) <= Room
  <2>1. Len(c.in) <= Room /\ Len(c.in) \in Nat  BY <1>1, <1>3 DEF Fine, Sound
  <2>2. Len(d.in) \in Nat  BY <1>5, DataSeq
  <2> QED  BY <1>5, <2>1, <2>2, DistAssumption
<1>7. Fine(w, d)  BY <1>1, <1>2, <1>5, <1>6 DEF Fine, MayEnd, Sound, InSeq
<1>8. d.st # "idle" /\ d.st \notin {"wait", "left"} /\ c.st \notin {"wait", "left"}
  BY <1>2, <1>5
<1>9. Queued'  BY <1>2, <1>5, <1>8, QueueKept
<1> HIDE DEF c
<1> QED  BY <1>2, <1>4, <1>5, <1>7, <1>8, <1>9, StepOfOne

\* What sendDistribution makes of a connection before anybody is accepted.
SentTo(c, buff, m) == DirectTo(DistribTo(c, buff), m)

\* The next block leaves every receptor sound, in the status it had.
LEMMA SentSound ==
  ASSUME NEW c, resp \in 0 .. MaxUnits, curoff \in 0 .. MaxUnits,
         NEW n \in Nat, NEW m \in Nat, curoff + n <= MaxUnits, resp + m <= MaxUnits,
         NEW q \in BOOLEAN, q => m = n /\ curoff = resp, Sound(c, resp, q, q)
  PROVE  Sound(SentTo(c, Buff(n, m), m), resp + m, q, q) /\ SentTo(c, Buff(n, m), m).st = c.st
<1>1. CASE c.st # "direct"
  <2>1. Sound(DistribTo(c, Buff(n, m)), resp + m, q, q) /\ DistribTo(c, Buff(n, m)).st = c.st
    BY <1>1, DistribSound
  <2>2. SentTo(c, Buff(n, m), m) = DistribTo(c, Buff(n, m))  BY <1>1, <2>1 DEF SentTo, DirectTo
  <2> QED  BY <2>1, <2>2
<1>2. CASE c.st = "direct"
  <2>1. SentTo(c, Buff(n, m), m) = DirectTo(c, m)  BY <1>2, DistribSound DEF SentTo
  <2>2. Sound(DirectTo(c, m), resp + m, q, q) /\ DirectTo(c, m).st = "direct"
    BY <1>2, DirectSound
  <2> QED  BY <1>2, <2>1, <2>2
<1> QED  BY <1>1, <1>2

\* sendDistribution: if no line was changed, all stay sound and ca_curoff stays
\* at what came; the entry of a forked child is right if the file is as long.
LEMMA SendSound ==
  ASSUME IInv, pc \in {"head", "load"}, NEW n \in 1 .. MaxLeng, NEW m \in 1 .. MaxLeng,
         NEW q \in BOOLEAN, q => changed = 0 /\ m = n, NEW file \in 0 .. resp + m,
         sendDistribution(n, m, file)
  PROVE  /\ resp' = resp + m /\ resp' \in 0 .. MaxUnits /\ curoff' \in 0 .. MaxUnits
         /\ q => curoff' = resp'
         /\ conn' = [w \in Who |-> conn'[w]] /\ backlog' \in Seq(Rcpt) /\ Queued' /\ Own'
         /\ \A w \in Who : /\ Sound(conn'[w], resp', q, q /\ file = resp + m)
                           /\ conn'[w].st \notin {"closing", "eof"}
<1> DEFINE off == curoff + n
           to == resp + m
           Sent(w) == SentTo(conn[w], Buff(n, m), m)
           Flushed(w) == FlushTo(Sent(w), off, file)
           Accepted(w) == IF w = Head(backlog) THEN AcceptTo(Flushed(w), file)
                          ELSE ForkTo(Flushed(w), file)
<1>1. TypeRest /\ Queued /\ Own /\ Level /\ \A w \in Who : Each(w)  BY Parts DEF Whole
<1>2. /\ off <= MaxUnits /\ to <= MaxUnits /\ curoff' = off /\ resp' = to
  BY DEF sendDistribution
<1>3. \/ conn' = [w \in Who |-> Sent(w)] /\ UNCHANGED backlog
      \/ conn' = [w \in Who |-> Flushed(w)] /\ UNCHANGED backlog
      \/ /\ backlog # <<>> /\ conn' = [w \in Who |-> Accepted(w)]
         /\ backlog' = Tail(backlog)
  BY DEF sendDistribution, SentTo, Buff
<1>4. /\ MaxUnits \in Nat /\ n \in Nat /\ m \in Nat
      /\ resp \in 0 .. MaxUnits /\ curoff \in 0 .. MaxUnits
      /\ to \in resp .. MaxUnits /\ to \in 0 .. MaxUnits /\ off \in 0 .. MaxUnits /\ off \in Nat
  BY <1>1, <1>2, DistAssumption DEF TypeRest
<1>5. q => m = n /\ curoff = resp /\ off = to
  <2>1. ~cut  BY <1>1 DEF Level
  <2> QED  BY <1>1, <2>1 DEF Level
<1>6. backlog \in Seq(Rcpt)  BY <1>1 DEF TypeRest
<1>7. \A i \in 1 .. Len(backlog) : backlog[i] \in Who  BY <1>6 DEF Who
<1>8. ASSUME NEW w \in Who
      PROVE  Sound(conn[w], resp, q, q) /\ conn[w].st \notin {"closing", "eof"}
  <2>1. ~cut /\ cut \in BOOLEAN  BY <1>1 DEF Level, TypeRest
  <2>2. Fine(w, conn[w])  BY <1>1 DEF Each
  <2>3. Sound(conn[w], resp, changed = 0, changed = 0 /\ ~cut) /\ MayEnd(w, conn[w])
    BY <2>2 DEF Fine
  <2>4. resp \in resp .. MaxUnits  BY <1>4
  <2> DEFINE q0 == changed = 0
             e0 == changed = 0 /\ ~cut
  <2>5. q0 \in BOOLEAN /\ e0 \in BOOLEAN /\ Sound(conn[w], resp, q0, e0)  BY <2>3
  <2>6. (q => q0) /\ (q => e0)  BY <2>1
  <2> HIDE DEF q0, e0
  <2>7. Sound(conn[w], resp, q, q)  BY <1>4, <2>4, <2>5, <2>6, Grow
  <2>8. conn[w].st \notin {"closing", "eof"}  BY <2>3 DEF MayEnd
  <2> QED  BY <2>7, <2>8
<1>9. ASSUME NEW w \in Who PROVE Sound(Sent(w), to, q, q) /\ Sent(w).st = conn[w].st
  BY <1>2, <1>4, <1>5, <1>8, SentSound
<1> HIDE DEF off, to, Sent
<1>10. file \in 0 .. to  BY DEF to
<1>11. ASSUME NEW w \in Who PROVE Sound(Flushed(w), to, q, q) /\ Flushed(w).st = conn[w].st
  BY <1>4, <1>9, <1>10, FlushSound
<1> DEFINE ok == q /\ file = to
<1>12. ok \in BOOLEAN /\ (ok => q) /\ to \in to .. MaxUnits  BY <1>4
<1> HIDE DEF ok
<1>13. ASSUME NEW c, Sound(c, to, q, q) PROVE Sound(c, to, q, ok)
  BY <1>12, <1>13 DEF Sound
<1> DEFINE Goal == /\ conn' = [w \in Who |-> conn'[w]] /\ backlog' \in Seq(Rcpt)
                   /\ Queued' /\ Own'
                   /\ \A w \in Who : /\ Sound(conn'[w], to, q, ok)
                                     /\ conn'[w].st \notin {"closing", "eof"}
<1>14. ASSUME backlog' \in Seq(Rcpt), conn' = [w \in Who |-> conn'[w]], Queued',
              \A w \in Who : /\ Sound(conn'[w], to, q, ok)
                             /\ conn'[w].st = conn[w].st \/ conn'[w].st \in {"recv", "left"}
       PROVE  Goal
  <2>1. Own'  BY <1>1, <1>14 DEF Own, Who
  <2> QED  BY <1>8, <1>14, <2>1
<1> HIDE DEF Goal
<1>15. ASSUME UNCHANGED backlog, \A w \in Who : conn'[w].st = conn[w].st PROVE Queued'
  BY <1>1, <1>7, <1>15 DEF Queued
<1>16. ASSUME conn' = [w \in Who |-> Sent(w)], UNCHANGED backlog PROVE Goal
  <2>1. \A w \in Who : conn'[w] = Sent(w)  BY <1>16
  <2>2. conn' = [w \in Who |-> conn'[w]]  BY <1>16
  <2>3. Queued'  BY <1>9, <1>15, <1>16, <2>1
  <2> QED  BY <1>6, <1>9, <1>13, <1>14, <1>16, <2>1, <2>2, <2>3
<1>17. ASSUME conn' = [w \in Who |-> Flushed(w)], UNCHANGED backlog PROVE Goal
  <2> HIDE DEF Flushed
  <2>1. \A w \in Who : conn'[w] = Flushed(w)  BY <1>17
  <2>2. conn' = [w \in Who |-> conn'[w]]  BY <1>17
  <2>3. Queued'  BY <1>11, <1>15, <1>17, <2>1
  <2> QED  BY <1>6, <1>11, <1>13, <1>14, <1>17, <2>1, <2>2, <2>3
<1>18. ASSUME backlog # <<>>, conn' = [w \in Who |-> Accepted(w)], backlog' = Tail(backlog)
       PROVE  Goal
  <2> DEFINE h == Head(backlog)
  <2> HIDE DEF Flushed
  <2>1. \A w \in Who : conn'[w] = Accepted(w)  BY <1>18
  <2>2. /\ Len(backlog) \in Nat /\ Len(backlog) >= 1 /\ h = backlog[1]
        /\ backlog' \in Seq(Rcpt) /\ Len(backlog') = Len(backlog) - 1
        /\ \A i \in 1 .. Len(backlog') : backlog'[i] = backlog[i + 1]
    BY <1>6, <1>18
  <2>3. h \in Who /\ conn[h].st \in {"wait", "left"}
    <3>1. 1 \in 1 .. Len(backlog)  BY <2>2
    <3> QED  BY <1>1, <1>7, <2>2, <3>1 DEF Queued
  <2>4. /\ Sound(conn'[h], to, q, ok) /\ conn'[h].st \in {"recv", "left"}
    <3>1. Sound(Flushed(h), to, q, q) /\ Flushed(h).st \in {"wait", "left"}  BY <1>11, <2>3
    <3>2. conn'[h] = AcceptTo(Flushed(h), file)  BY <2>1, <2>3
    <3>3. Sound(conn'[h], to, q, q) /\ conn'[h].st \in {"recv", "left"}
      BY <1>4, <1>10, <3>1, <3>2, AcceptSound
    <3> QED  BY <1>13, <3>3
  <2>5. ASSUME NEW w \in Who, w # h
        PROVE  /\ Sound(conn'[w], to, q, ok)
               /\ conn'[w].st = IF conn[w].st = "direct" THEN "recv" ELSE conn[w].st
    <3>1. conn'[w] = ForkTo(Flushed(w), file)  BY <2>1, <2>5
    <3>2. Sound(Flushed(w), to, q, q) /\ Flushed(w).st = conn[w].st  BY <1>11
    <3> QED  BY <1>4, <1>10, <3>1, <3>2, ForkSound DEF ok
  <2>6. ASSUME NEW i \in 1 .. Len(backlog')
        PROVE  /\ i + 1 \in 1 .. Len(backlog) /\ backlog'[i] = backlog[i + 1]
               /\ backlog[i + 1] # h
    <3>1. i + 1 \in 1 .. Len(backlog) /\ 1 \in 1 .. Len(backlog) /\ i + 1 # 1  BY <2>2
    <3> QED  BY <1>1, <2>2, <3>1 DEF Queued
  <2>7. Queued'
    <3>1. ASSUME NEW i \in 1 .. Len(backlog') PROVE conn'[backlog'[i]].st \in {"wait", "left"}
      <4>1. backlog[i + 1] \in Who /\ conn[backlog[i + 1]].st \in {"wait", "left"}
        BY <1>1, <1>7, <2>6 DEF Queued
      <4> QED  BY <2>5, <2>6, <4>1
    <3>2. ASSUME NEW i \in 1 .. Len(backlog'), NEW j \in 1 .. Len(backlog'),
                 backlog'[i] = backlog'[j]
          PROVE  i = j
      <4>1. i + 1 = j + 1  BY <1>1, <2>6, <3>2 DEF Queued
      <4> QED  BY <2>2, <4>1
    <3> QED  BY <3>1, <3>2 DEF Queued
  <2>8. ASSUME NEW w \in Who
        PROVE  /\ Sound(conn'[w], to, q, ok)
               /\ conn'[w].st = conn[w].st \/ conn'[w].st \in {"recv", "left"}
    BY <2>4, <2>5
  <2>9. conn' = [w \in Who |-> conn'[w]]  BY <1>18
  <2> QED  BY <1>14, <2>2, <2>7, <2>8, <2>9
<1>19. Goal  BY <1>3, <1>16, <1>17, <1>18
<1> QED  BY <1>2, <1>4, <1>5, <1>19 DEF Goal, to, off, ok

\* Units come from the server, and are written to the file.
LEMMA LoadInv ==
  ASSUME IInv, NEW n \in 1 .. MaxLeng, NEW m \in 1 .. MaxLeng, Load(n, m)
  PROVE  IInv'
<1> DEFINE q == changed' = 0
<1>1. TypeRest /\ Level  BY Parts DEF Whole
<1>2. /\ pc \in {"head", "load"} /\ (m # n => changed < MaxChanged)
      /\ sendDistribution(n, m, resp + m)
      /\ changed' = (IF m # n THEN changed + 1 ELSE changed)
      /\ pc' \in {"head", "load"} /\ UNCHANGED <<cut, failed>>
  BY DEF Load
<1>3. /\ changed' \in 0 .. MaxChanged /\ q \in BOOLEAN /\ (q => changed = 0 /\ m = n)
      /\ ~cut /\ resp + m \in 0 .. resp + m
  BY <1>1, <1>2, DistAssumption DEF TypeRest, Level
<1>4. /\ resp' = resp + m /\ resp' \in 0 .. MaxUnits /\ curoff' \in 0 .. MaxUnits
      /\ q => curoff' = resp'
      /\ conn' = [w \in Who |-> conn'[w]] /\ backlog' \in Seq(Rcpt) /\ Queued' /\ Own'
      /\ \A w \in Who : /\ Sound(conn'[w], resp', q, q /\ resp + m = resp + m)
                        /\ conn'[w].st \notin {"closing", "eof"}
  <2> HIDE DEF q
  <2> QED  BY <1>2, <1>3, SendSound
<1>5. TypeRest'  BY <1>1, <1>2, <1>3, <1>4 DEF TypeRest, Pc
<1>6. Level'  BY <1>2, <1>3, <1>4 DEF Level
<1>7. ASSUME NEW w \in Who PROVE Each(w)'
  <2>1. (q /\ resp + m = resp + m) = (changed' = 0 /\ ~cut')  BY <1>2, <1>3
  <2>2. Sound(conn'[w], resp', changed' = 0, changed' = 0 /\ ~cut')  BY <1>4, <2>1
  <2> QED  BY <1>2, <1>3, <1>4, <2>2 DEF Each, Fine, MayEnd
<1> QED  BY <1>4, <1>5, <1>6, <1>7, PartsNext

\* The file is cut: who is a receptor then is left behind.
LEMMA TruncateInv ==
  ASSUME IInv, pc \in {"head", "load"}, Truncate,
         resp' \in 0 .. MaxUnits, curoff' \in 0 .. MaxUnits,
         conn' = [w \in Who |-> conn'[w]], backlog' \in Seq(Rcpt), Queued', Own',
         NEW e \in BOOLEAN,
         \A w \in Who : /\ Sound(conn'[w], resp', changed = 0, e)
                        /\ conn'[w].st \notin {"closing", "eof"}
  PROVE  IInv'
<1>1. TypeRest  BY Parts DEF Whole
<1>2. /\ cut' = TRUE /\ pc' \in {"alone", "stop"} /\ changed' = changed
      /\ failed' = failed \cup {w \in Who : conn'[w].open}
  BY DEF Truncate
<1>3. TypeRest'  BY <1>1, <1>2 DEF TypeRest, Pc
<1>4. Level'  BY <1>2 DEF Level
<1>5. ASSUME NEW w \in Who PROVE Each(w)'
  <2>1. resp' \in resp' .. MaxUnits  BY DistAssumption
  <2>2. (changed' = 0 /\ ~cut') => e  BY <1>2
  <2>3. Sound(conn'[w], resp', changed' = 0, changed' = 0 /\ ~cut')
    <3>1. Sound(conn'[w], resp', changed = 0, e)  OBVIOUS
    <3>2. (changed = 0) \in BOOLEAN /\ (changed' = 0) \in BOOLEAN
          /\ (changed' = 0 /\ ~cut') \in BOOLEAN
      OBVIOUS
    <3> QED  BY <1>2, <2>1, <2>2, <3>1, <3>2, Grow
  <2> QED  BY <1>2, <2>3 DEF Each, Fine, MayEnd
<1> QED  BY <1>3, <1>4, <1>5, PartsNext

\* It is cut between two blocks.
LEMMA DiscardInv ==
  ASSUME IInv, Discard
  PROVE  IInv'
<1>1. /\ TypeRest /\ conn = [w \in Who |-> conn[w]] /\ Queued /\ Own /\ Level
      /\ \A w \in Who : Each(w)
  BY Parts DEF Whole
<1>2. pc \in {"head", "load"} /\ Truncate /\ UNCHANGED <<resp, curoff, backlog, conn>>
  BY DEF Discard
<1>3. Queued' /\ Own'  BY <1>1, <1>2 DEF Queued, Own
<1>4. ASSUME NEW w \in Who
      PROVE  /\ Sound(conn'[w], resp', changed = 0, changed = 0 /\ ~cut)
             /\ conn'[w].st \notin {"closing", "eof"}
  BY <1>1, <1>2 DEF Each, Fine, MayEnd
<1>5. (changed = 0 /\ ~cut) \in BOOLEAN  OBVIOUS
<1>6. /\ resp' \in 0 .. MaxUnits /\ curoff' \in 0 .. MaxUnits /\ backlog' \in Seq(Rcpt)
      /\ conn' = [w \in Who |-> conn'[w]]
  BY <1>1, <1>2 DEF TypeRest
<1> QED  BY <1>2, <1>3, <1>4, <1>5, <1>6, TruncateInv

\* It is cut because nothing more could be written.
LEMMA DiskFullInv ==
  ASSUME IInv, NEW n \in 1 .. MaxLeng, DiskFull(n)
  PROVE  IInv'
<1> DEFINE q == changed = 0
           e == q /\ resp = resp + n
<1>1. TypeRest  BY Parts DEF Whole
<1>2. pc \in {"head", "load"} /\ Truncate /\ sendDistribution(n, n, resp)  BY DEF DiskFull
<1>3. resp \in 0 .. resp + n /\ q \in BOOLEAN /\ (q => changed = 0 /\ n = n) /\ e \in BOOLEAN
  BY <1>1, DistAssumption DEF TypeRest
<1>4. /\ resp' \in 0 .. MaxUnits /\ curoff' \in 0 .. MaxUnits
      /\ conn' = [w \in Who |-> conn'[w]] /\ backlog' \in Seq(Rcpt) /\ Queued' /\ Own'
      /\ \A w \in Who : /\ Sound(conn'[w], resp', q, e)
                        /\ conn'[w].st \notin {"closing", "eof"}
  <2> HIDE DEF q
  <2> QED  BY <1>2, <1>3, SendSound
<1> HIDE DEF e
<1> QED  BY <1>2, <1>3, <1>4, TruncateInv

\* Units come that are for the client only.
LEMMA LoadAloneInv ==
  ASSUME IInv, NEW n \in 1 .. MaxLeng, LoadAlone(n)
  PROVE  IInv'
<1> DEFINE q == changed = 0
           e == changed = 0 /\ ~cut
<1>1. TypeRest /\ Queued /\ Own /\ Level /\ \A w \in Who : Each(w)  BY Parts DEF Whole
<1>2. /\ pc \in {"alone", "closed"} /\ resp + n <= MaxUnits /\ resp' = resp + n
      /\ conn' = [w \in Who |-> DirectTo(conn[w], n)]
      /\ UNCHANGED <<pc, cut, curoff, backlog, changed, failed>>
  BY DEF LoadAlone
<1>3. /\ MaxUnits \in Nat /\ n \in Nat /\ resp \in 0 .. MaxUnits
      /\ resp' \in resp .. MaxUnits /\ resp' \in 0 .. MaxUnits
  BY <1>1, <1>2, DistAssumption DEF TypeRest
<1>4. q \in BOOLEAN /\ e \in BOOLEAN  OBVIOUS
<1>5. ASSUME NEW w \in Who
      PROVE  /\ Sound(conn'[w], resp', q, e) /\ conn'[w].st = conn[w].st
             /\ conn[w].st \notin {"closing", "eof"} /\ conn'[w].open = conn[w].open
  <2>1. Fine(w, conn[w])  BY <1>1 DEF Each
  <2>2. Sound(conn[w], resp, q, e) /\ conn[w].st \notin {"closing", "eof"}
    BY <1>2, <2>1 DEF Fine, MayEnd
  <2>3. conn'[w] = DirectTo(conn[w], n)  BY <1>2
  <2> HIDE DEF q, e
  <2>4. CASE conn[w].st = "direct"
    <3>1. Sound(conn'[w], resp', q, e) /\ conn'[w].st = "direct"
      BY <1>2, <1>3, <1>4, <2>2, <2>3, <2>4, DirectSound
    <3>2. conn[w].open \in BOOLEAN /\ conn'[w].open \in BOOLEAN
          /\ ~conn[w].open /\ ~conn'[w].open
      BY <2>2, <2>4, <3>1 DEF Sound, Side
    <3> QED  BY <2>2, <2>4, <3>1, <3>2
  <2>5. CASE conn[w].st # "direct"
    <3>1. conn'[w] = conn[w]  BY <2>3, <2>5 DEF DirectTo
    <3>2. Sound(conn'[w], resp', q, e)  BY <1>3, <1>4, <2>2, <2>5, <3>1, Grow
    <3> QED  BY <2>2, <3>1, <3>2
  <2> QED  BY <2>4, <2>5
<1>6. TypeRest'  BY <1>1, <1>2, <1>3 DEF TypeRest
<1>7. Level'  BY <1>1, <1>2 DEF Level
<1>8. Own'  BY <1>1, <1>5 DEF Own, Who
<1>9. Queued'
  <2>1. \A i \in 1 .. Len(backlog) : backlog[i] \in Who  BY <1>1 DEF TypeRest, Who
  <2> QED  BY <1>1, <1>2, <1>5, <2>1 DEF Queued
<1>10. ASSUME NEW w \in Who PROVE Each(w)'
  <2>1. Fine(w, conn[w])  BY <1>1 DEF Each
  <2>2. Sound(conn'[w], resp', changed' = 0, changed' = 0 /\ ~cut')  BY <1>2, <1>5
  <2> QED  BY <1>2, <1>5, <2>1, <2>2 DEF Each, Fine, MayEnd
<1>11. conn' = [w \in Who |-> conn'[w]]  BY <1>2
<1> QED  BY <1>6, <1>7, <1>8, <1>9, <1>10, <1>11, PartsNext

\* The socket is closed for the sake of a thread, before there is a receptor.
LEMMA StopThreadInv ==
  ASSUME IInv, StopThread
  PROVE  IInv'
<1> DEFINE q == changed = 0
           e == changed = 0 /\ ~cut
<1>1. TypeRest /\ Own /\ Level /\ \A w \in Who : Each(w)  BY Parts DEF Whole
<1>2. /\ pc = "load" /\ pc' = "closed" /\ backlog' = <<>>
      /\ \A w \in Who : conn[w].putoff = NONE
      /\ conn' = [w \in Who |-> IF conn[w].st = "wait" THEN Ended(conn[w]) ELSE conn[w]]
      /\ UNCHANGED <<resp, cut, curoff, changed, failed>>
  BY DEF StopThread, Receptors
<1>3. ASSUME NEW w \in Who
      PROVE  /\ Sound(conn'[w], resp, q, e) /\ ~conn'[w].open
             /\ conn'[w].st \notin {"closing", "eof"}
             /\ conn'[w].st = conn[w].st \/ conn'[w].st = "refused"
  <2>1. Fine(w, conn[w]) /\ conn[w].putoff = NONE  BY <1>1, <1>2 DEF Each
  <2>2. Sound(conn[w], resp, q, e) /\ MayEnd(w, conn[w])  BY <2>1 DEF Fine
  <2> HIDE DEF q, e
  <2>3. conn[w].st \notin {"closing", "eof"}  BY <1>2, <2>2 DEF MayEnd
  <2>4. ~conn[w].open  BY <2>1, <2>2 DEF Sound
  <2>5. CASE conn[w].st # "wait"
    <3>1. conn'[w] = conn[w]  BY <1>2, <2>5
    <3> QED  BY <2>2, <2>3, <2>4, <3>1
  <2>6. CASE conn[w].st = "wait"
    <3>1. conn'[w] = Ended(conn[w])  BY <1>2, <2>6
    <3>2. /\ Sound(conn'[w], resp, q, e) /\ conn'[w].st = Over(conn[w].st)
          /\ conn'[w].open = FALSE
      BY <2>2, <3>1, EndedSound
    <3> QED  BY <2>6, <3>2 DEF Over
  <2> QED  BY <2>5, <2>6
<1>4. TypeRest'
  <2>1. backlog' \in Seq(Rcpt)  BY <1>2
  <2> QED  BY <1>1, <1>2, <2>1 DEF TypeRest, Pc
<1>5. Level'  BY <1>1, <1>2 DEF Level
<1>6. Queued'  BY <1>2 DEF Queued
<1>7. Own'
  <2>1. Client \in Who  BY DEF Who
  <2> QED  BY <1>1, <1>3, <2>1 DEF Own
<1>8. ASSUME NEW w \in Who PROVE Each(w)'
  <2>1. Sound(conn'[w], resp', changed' = 0, changed' = 0 /\ ~cut')  BY <1>2, <1>3
  <2> QED  BY <1>2, <1>3, <2>1 DEF Each, Fine, MayEnd
<1>9. conn' = [w \in Who |-> conn'[w]]  BY <1>2
<1> QED  BY <1>4, <1>5, <1>6, <1>7, <1>8, <1>9, PartsNext

\* The connections end with the downloader; who still receives is left behind.
LEMMA GiveUpInv ==
  ASSUME IInv, pc' = "end", backlog' = <<>>, UNCHANGED <<resp, cut, curoff, changed>>,
         conn' = [w \in Who |-> Ended(conn[w])],
         failed \subseteq failed', failed' \subseteq Who,
         \A w \in Who : conn[w].st = "recv" => w \in failed'
  PROVE  IInv'
<1> DEFINE q == changed = 0
           e == changed = 0 /\ ~cut
<1>1. TypeRest /\ Own /\ \A w \in Who : Each(w)  BY Parts DEF Whole
<1>2. \A w \in Who : conn'[w] = Ended(conn[w])  OBVIOUS
<1>3. ASSUME NEW w \in Who
      PROVE  /\ Sound(conn[w], resp, q, e) /\ Sound(conn'[w], resp, q, e)
             /\ conn'[w].st = Over(conn[w].st) /\ Data(conn'[w]) = Data(conn[w])
             /\ conn'[w].open = FALSE /\ conn'[w].putoff = conn[w].putoff
  <2>1. Sound(conn[w], resp, q, e)  BY <1>1 DEF Each, Fine
  <2> HIDE DEF q, e
  <2> QED  BY <1>2, <2>1, EndedSound
<1>4. TypeRest'
  <2>1. backlog' \in Seq(Rcpt)  OBVIOUS
  <2> QED  BY <1>1, <2>1 DEF TypeRest, Pc
<1>5. Queued'  BY DEF Queued
<1>6. Own'
  <2>1. Client \in Who  BY DEF Who
  <2> QED  BY <1>1, <1>3, <2>1 DEF Own, Over
<1>7. Level'  BY DEF Level
<1>8. ASSUME NEW w \in Who PROVE Each(w)'
  <2>1. Sound(conn'[w], resp', changed' = 0, changed' = 0 /\ ~cut')  BY <1>3
  <2>2. MayEnd(w, conn[w])  BY <1>1 DEF Each, Fine
  <2>3. ASSUME conn'[w].st \in {"closing", "eof"}
        PROVE  w \in failed' \/ (changed > 0 /\ conn'[w].putoff # NONE)
               \/ Len(Data(conn'[w])) = resp
    <3>1. CASE conn[w].st = "recv"  BY <3>1
    <3>2. CASE conn[w].st = "direct"
      <4>1. Len(Data(conn[w])) = resp  BY <1>3, <3>2, DirectData
      <4> QED  BY <1>3, <4>1
    <3>3. CASE conn[w].st \notin {"recv", "direct"}
      <4>1. conn[w].st \in {"closing", "eof"}  BY <1>3, <2>3, <3>3 DEF Over
      <4> QED  BY <1>3, <2>2, <4>1 DEF MayEnd
    <3> QED  BY <3>1, <3>2, <3>3
  <2>4. MayEnd(w, conn[w])'  BY <2>3 DEF MayEnd
  <2> QED  BY <1>3, <2>1, <2>4 DEF Each, Fine
<1>9. conn' = [w \in Who |-> conn'[w]]  OBVIOUS
<1> QED  BY <1>4, <1>5, <1>6, <1>7, <1>8, <1>9, PartsNext

\* Who receives has an open connection.
LEMMA RecvOpen ==
  ASSUME IInv, NEW w \in Who
  PROVE  /\ conn[w].st = "recv" => conn[w].open
         /\ pc = "closed" => ~conn[w].open
         /\ failed \subseteq Who
  BY Parts DEF Whole, Each, Fine, Sound, TypeRest

\* A round of stopDistribution, and the end after the last one.
LEMMA StopRoundInv ==
  ASSUME IInv, StopRound
  PROVE  IInv'
<1> DEFINE round == [w \in Who |-> Round(conn[w])]
           q == changed = 0
           e == changed = 0 /\ ~cut
<1>1. TypeRest /\ Queued /\ Own /\ Level /\ \A w \in Who : Each(w)  BY Parts DEF Whole
<1>2. /\ pc = "stop" /\ UNCHANGED <<resp, cut, curoff, changed, failed>>
      /\ \/ /\ \A w \in Who : ~round[w].open
            /\ pc' = "end" /\ backlog' = <<>>
            /\ conn' = [w \in Who |-> Ended(round[w])]
         \/ conn' = round /\ UNCHANGED <<pc, backlog>>
  BY DEF StopRound, Round
<1>3. /\ curoff \in 0 .. MaxUnits /\ resp \in 0 .. MaxUnits /\ cut \in BOOLEAN
      /\ q \in BOOLEAN /\ (q /\ ~cut => curoff = resp)
  BY <1>1, <1>2 DEF TypeRest, Level
<1>4. ASSUME NEW w \in Who
      PROVE  /\ Sound(round[w], resp, q, e) /\ MayEnd(w, round[w])
             /\ round[w].st = conn[w].st \/ (conn[w].st = "recv" /\ round[w].st = "closing")
             /\ cut /\ round[w].open => w \in failed
  <2>1. Fine(w, conn[w]) /\ Sound(conn[w], resp, q, q /\ ~cut)  BY <1>1 DEF Each, Fine
  <2>2. round[w] = Round(conn[w])  OBVIOUS
  <2> HIDE DEF round, q
  <2>3. /\ Sound(round[w], resp, q, q /\ ~cut)
        /\ round[w].st = conn[w].st \/ (conn[w].st = "recv" /\ round[w].st = "closing")
        /\ conn[w].st # "recv" => Data(round[w]) = Data(conn[w])
        /\ round[w].open => conn[w].open
        /\ (round[w].putoff = NONE) = (conn[w].putoff = NONE)
        /\ conn[w].st = "recv" /\ round[w].st = "closing" /\ q /\ ~cut
             => Len(Data(round[w])) = resp
    BY <1>3, <2>1, <2>2, RoundSound
  <2>4. cut /\ conn[w].open => w \in failed  BY <2>1 DEF Fine
  <2>5. MayEnd(w, round[w])
    <3>1. CASE conn[w].st # "recv"  BY <2>1, <2>3, <3>1 DEF Fine, MayEnd
    <3>2. CASE conn[w].st = "recv"
      <4>1. conn[w].open /\ conn[w].putoff # NONE  BY <2>1, <3>2 DEF Sound
      <4>2. changed = 0 \/ changed > 0  BY <1>1, DistAssumption DEF TypeRest
      <4> QED  BY <1>2, <1>3, <2>3, <2>4, <3>2, <4>1, <4>2 DEF MayEnd, q
    <3> QED  BY <3>1, <3>2
  <2> QED  BY <2>3, <2>4, <2>5 DEF q
<1>5. conn' = [w \in Who |-> conn'[w]]  BY <1>2
<1>6. CASE conn' = round /\ UNCHANGED <<pc, backlog>>
  <2> HIDE DEF round
  <2>1. TypeRest'  BY <1>1, <1>2, <1>6 DEF TypeRest
  <2>2. Own'  BY <1>1, <1>4, <1>6 DEF Own, Who
  <2>3. Queued'
    <3>1. \A i \in 1 .. Len(backlog) : backlog[i] \in Who  BY <1>1 DEF TypeRest, Who
    <3>2. ASSUME NEW i \in 1 .. Len(backlog) PROVE conn'[backlog[i]].st \in {"wait", "left"}
      <4>1. conn[backlog[i]].st \in {"wait", "left"}  BY <1>1 DEF Queued
      <4> QED  BY <1>4, <1>6, <3>1, <4>1
    <3> QED  BY <1>1, <1>6, <3>2 DEF Queued
  <2>4. ASSUME NEW w \in Who PROVE Each(w)'
    <3>1. Sound(conn'[w], resp', changed' = 0, changed' = 0 /\ ~cut')  BY <1>2, <1>4, <1>6
    <3>2. MayEnd(w, conn[w])'  BY <1>2, <1>4, <1>6 DEF MayEnd
    <3> QED  BY <1>2, <1>4, <1>6, <3>1, <3>2 DEF Each, Fine
  <2>5. Level'  BY <1>1, <1>2, <1>6 DEF Level
  <2> QED  BY <1>5, <2>1, <2>2, <2>3, <2>4, <2>5, PartsNext
<1>7. CASE /\ \A w \in Who : ~round[w].open
           /\ pc' = "end" /\ backlog' = <<>>
           /\ conn' = [w \in Who |-> Ended(round[w])]
  <2> HIDE DEF round
  <2>1. ASSUME NEW w \in Who
        PROVE  /\ Sound(conn'[w], resp, q, e) /\ Data(conn'[w]) = Data(round[w])
               /\ conn'[w].st = Over(round[w].st) /\ conn'[w].open = FALSE
               /\ conn'[w].putoff = round[w].putoff
    <3> HIDE DEF q, e
    <3> QED  BY <1>4, <1>7, EndedSound
  <2>2. TypeRest'
    <3>1. backlog' \in Seq(Rcpt)  BY <1>7
    <3> QED  BY <1>1, <1>2, <1>7, <3>1 DEF TypeRest, Pc
  <2>3. Queued'  BY <1>7 DEF Queued
  <2>4. Own'
    <3>1. Client \in Who  BY DEF Who
    <3> QED  BY <1>1, <1>4, <2>1, <3>1 DEF Own, Over
  <2>5. ASSUME NEW w \in Who PROVE Each(w)'
    <3>1. ASSUME conn'[w].st \in {"closing", "eof"}
          PROVE  w \in failed \/ (changed > 0 /\ conn'[w].putoff # NONE)
                 \/ Len(Data(conn'[w])) = resp
      <4>1. round[w].st # "recv"  BY <1>4, <1>7 DEF Sound
      <4>2. CASE round[w].st = "direct"
        <5>1. Len(Data(round[w])) = resp  BY <1>4, <4>2, DirectData
        <5> QED  BY <2>1, <5>1
      <4>3. CASE round[w].st # "direct"
        <5>1. round[w].st \in {"closing", "eof"}  BY <2>1, <3>1, <4>1, <4>3 DEF Over
        <5> QED  BY <1>4, <2>1, <5>1 DEF MayEnd
      <4> QED  BY <4>2, <4>3
    <3>2. Sound(conn'[w], resp', changed' = 0, changed' = 0 /\ ~cut')  BY <1>2, <2>1
    <3>3. MayEnd(w, conn[w])'  BY <1>2, <1>7, <3>1 DEF MayEnd
    <3> QED  BY <1>7, <2>1, <3>2, <3>3 DEF Each, Fine
  <2>6. Level'  BY <1>1, <1>2, <1>7 DEF Level
  <2> QED  BY <1>5, <2>2, <2>3, <2>4, <2>5, <2>6, PartsNext
<1> QED  BY <1>2, <1>6, <1>7

\* The response has ended: nothing else changes.
LEMMA StopInv ==
  ASSUME IInv, Stop
  PROVE  IInv'
<1>1. Whole  BY Parts
<1>2. /\ pc \in {"head", "load", "alone"} /\ pc' = "stop"
      /\ UNCHANGED <<resp, cut, curoff, backlog, conn, changed, failed>>
  BY DEF Stop
<1>3. TypeRest'  BY <1>1, <1>2 DEF Whole, TypeRest, Pc
<1>4. Queued' /\ Own'  BY <1>1, <1>2 DEF Whole, Queued, Own
<1>5. ASSUME NEW w \in Who PROVE Each(w)'
  BY <1>1, <1>2 DEF Whole, Each, Fine, MayEnd
<1>6. conn' = [w \in Who |-> conn'[w]]  BY <1>1, <1>2 DEF Whole
<1>7. Level'
  <2>1. ASSUME pc = "alone" PROVE cut
    BY <1>1, <2>1 DEF Whole, Level
  <2> QED  BY <1>1, <1>2, <2>1 DEF Whole, Level
<1> QED  BY <1>3, <1>4, <1>5, <1>6, <1>7, PartsNext

\* No step leaves the invariant.
LEMMA NextInv == IInv /\ [Next]_vars => IInv'
<1> SUFFICES ASSUME IInv, [Next]_vars PROVE IInv'  OBVIOUS
<1>1. ASSUME NEW n \in 1 .. MaxLeng, NEW m \in 1 .. MaxLeng, Load(n, m) PROVE IInv'
  BY <1>1, LoadInv
<1>2. CASE Stop  BY <1>2, StopInv
<1>3. CASE StopRound  BY <1>3, StopRoundInv
<1>4. CASE StopTimeout  BY <1>4, GiveUpInv, RecvOpen DEF StopTimeout
<1>5. CASE Crash
  <2>1. failed \subseteq Who  BY Parts DEF Whole, TypeRest
  <2>2. /\ failed \subseteq failed' /\ failed' \subseteq Who
        /\ \A w \in Who : conn[w].st = "recv" => w \in failed'
    BY <1>5, <2>1 DEF Crash
  <2>3. /\ pc' = "end" /\ backlog' = <<>> /\ UNCHANGED <<resp, cut, curoff, changed>>
        /\ conn' = [w \in Who |-> Ended(conn[w])]
    BY <1>5 DEF Crash
  <2> QED  BY <2>2, <2>3, GiveUpInv
<1>6. ASSUME NEW w \in Who, Connect(w) PROVE IInv'  BY <1>6, ConnectInv
<1>7. ASSUME NEW w \in Who, Leave(w) PROVE IInv'  BY <1>7, LeaveInv
<1>8. ASSUME NEW w \in Who, Read(w) PROVE IInv'  BY <1>8, ReadInv
<1>9. CASE UNCHANGED vars
  <2>1. UNCHANGED <<pc, resp, cut, curoff, backlog, conn, changed, failed>>
    BY <1>9 DEF vars
  <2> QED
    BY <2>1 DEF IInv, TypeOK, Complete, Received, Queued, Own, Level, Late, Skewed, Receptors
<1>10. CASE Sweep
  <2>1. failed' = failed /\ failed \subseteq Who
    BY <1>10, Parts DEF Sweep, Whole, TypeRest
  <2>2. \A w \in Who : conn[w].st # "recv"  BY <1>10, RecvOpen DEF Sweep
  <2>3. /\ pc' = "end" /\ backlog' = <<>> /\ UNCHANGED <<resp, cut, curoff, changed>>
        /\ conn' = [w \in Who |-> Ended(conn[w])]
    BY <1>10 DEF Sweep
  <2> QED  BY <2>1, <2>2, <2>3, GiveUpInv
<1>11. CASE Discard  BY <1>11, DiscardInv
<1>12. CASE StopThread  BY <1>12, StopThreadInv
<1>13. ASSUME NEW n \in 1 .. MaxLeng, DiskFull(n) PROVE IInv'  BY <1>13, DiskFullInv
<1>14. ASSUME NEW n \in 1 .. MaxLeng, LoadAlone(n) PROVE IInv'  BY <1>14, LoadAloneInv
<1> QED
  BY <1>1, <1>2, <1>3, <1>4, <1>5, <1>6, <1>7, <1>8, <1>9, <1>10, <1>11, <1>12, <1>13, <1>14
  DEF Next, Downloader

-----------------------------------------------------------------------------
(* What follows. *)

\* The strengthened invariant holds always: what each connection was given and
\* what the downloader notes of it agree, and the backlog holds who waits.
THEOREM Inductive == Spec => []IInv
<1>1. Init => IInv  BY InitInv
<1>2. IInv /\ [Next]_vars => IInv'  BY NextInv
<1> QED  BY <1>1, <1>2, PTL DEF Spec

\* Every variable keeps its type, and no socket holds more than its room.
THEOREM TypeCorrect == Spec => []TypeOK
<1>1. IInv => TypeOK  BY DEF IInv
<1> QED  BY <1>1, Inductive, PTL

\* Every receiver, and the client across the fork, gets the response from its
\* beginning, without a gap and with nothing twice (distrib, copy1, accept1),
\* also when the cache file is discarded; receptors of a response with a header
\* line of a changed length are excepted.
THEOREM InOrder == Spec => []InSequence
<1>1. ASSUME IInv PROVE InSequence
  <2>1. changed = 0 \/ changed > 0  BY <1>1, DistAssumption DEF IInv, TypeOK
  <2> QED
    BY <1>1, <2>1 DEF IInv, InSequence, Sound, InSeq, Received, Data, Skewed, Receptors
<1> QED  BY <1>1, Inductive, PTL

\* Who sees the end of the stream has been given all that came from the server,
\* unless it was a receptor when the downloader was killed, gave up on it or
\* discarded the cache file, or when a header line was changed.
THEOREM EndIsEnd == Spec => []Complete
<1>1. IInv => Complete  BY DEF IInv
<1> QED  BY <1>1, Inductive, PTL
=============================================================================

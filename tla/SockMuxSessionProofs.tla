----------------------- MODULE SockMuxSessionProofs -----------------------
(***************************************************************************)
(* For any sizes, any credit and any number of faults: the two ends of a   *)
(* session keep in step.  HELLO comes first, a packet that names a client  *)
(* finds it, both ends come to use the same size of packets, and           *)
(* commInactive gives up no session whose connection works, except while   *)
(* SENDs wait at a server that does not read.                              *)
(***************************************************************************)
EXTENDS SockMuxSession, FiniteSetTheorems, SequenceTheorems, TLAPS

\* Both ends have the same connection.
Linked == \A e \in End : conn[e] = "open"

\* The connection: what waits to be accepted is new and empty, nothing arrives
\* over a connection that is cut or closed.
LinkInv ==
  /\ \A e \in End : stat[e] = "down" <=> conn[e] = "none"
  /\ pend => /\ conn["con"] = "open" /\ stat["con"] = "hello"
             /\ conn["acc"] # "open" /\ chan["con"] = <<>>
  /\ conn["con"] = "open" => pend \/ conn["acc"] = "open"
  /\ conn["acc"] = "open" => conn["con"] = "open"
  /\ \A e \in End : conn[e] \in {"none", "cut"} => chan[e] = <<>>

\* HELLO is the first packet or none, HELLOOK the first after it.  An end that
\* is up has sent it.
Opening(s) ==
  /\ \A i \in 1..Len(s) : s[i][1] = "HELLO" => i = 1
  /\ s # <<>> => s[1][1] \in {"HELLO", "HELLOOK"}
  /\ Len(s) > 1 /\ s[1][1] = "HELLO" => s[2][1] = "HELLOOK"
HelloInv ==
  \A e \in End :
    /\ stat[e] = "hello" => Opening(chan[e])
    /\ stat[e] = "up" => \A i \in 1..Len(chan[e]) : chan[e][i][1] # "HELLO"
    /\ Linked /\ stat[e] = "hello" /\ stat[Peer(e)] = "up" =>
         chan[e] # <<>> /\ (chan[e][1][1] = "HELLO" => Len(chan[e]) > 1)

\* The packets of type t on their way to e.
At(s, t) == {i \in 1..Len(s) : s[i][1] = t}
Count(s, t) == Cardinality(At(s, t))
C(e, t) == Count(chan[e], t)

\* The agents of an end are those of its session, and know what arrives.
AgentInv ==
  /\ \A e \in End : stat[e] # "up" => agent[e] = "none"
  /\ agent["con"] # "open" => out = 0
  /\ agent["acc"] # "open" => buf = 0
  /\ C("con", "CONNECT") = 0 /\ C("con", "SEND") = 0
  /\ C("acc", "CONNECTED") = 0 /\ C("acc", "SENT") = 0
  /\ C("acc", "CONNECT") > 0 => agent["acc"] = "none" /\ C("acc", "CONNECT") = 1
  /\ C("acc", "SEND") > 0 => agent["acc"] = "open"
  /\ C("con", "CONNECTED") > 0 => agent["con"] = "asked" /\ C("con", "CONNECTED") = 1
  /\ C("con", "SENT") > 0 => agent["con"] = "open"
  /\ C("con", "SENT") <= out /\ buf + C("acc", "SEND") <= Window

\* Within a session each packet of a client is on its way, held or answered.
CreditInv ==
  Linked =>
    /\ agent["con"] = "none" => agent["acc"] = "none" /\ C("acc", "CONNECT") = 0
    /\ agent["con"] = "asked" =>
         \/ agent["acc"] = "none" /\ C("acc", "CONNECT") = 1 /\ C("con", "CONNECTED") = 0
         \/ agent["acc"] = "open" /\ C("acc", "CONNECT") = 0 /\ C("con", "CONNECTED") = 1
    /\ agent["con"] = "open" => agent["acc"] = "open" /\ C("con", "CONNECTED") = 0
    /\ C("acc", "SEND") + buf + C("con", "SENT") = out

\* An end that is up has told its size: the other one will take it, or did.
Taken(e) ==
  LET n == Min2(Size[e], Size[Peer(e)]) IN n > MinSize => PackSize[e] = n
SizeInv ==
  Linked => \A e \in End :
    /\ \A i \in 1..Len(chan[e]) : chan[e][i][1] = "SETOPT" => chan[e][i][2] = Size[Peer(e)]
    /\ stat[Peer(e)] = "up" => At(chan[e], "SETOPT") # {} \/ Taken(e)

\* An answer is on its way to e, or the packet that asks for it is.
Awaits(e) ==
  \/ chan[e] # <<>>
  \/ \E i \in 1..Len(chan[Peer(e)]) : chan[Peer(e)][i][1] \in {"ECHO", "CONNECT", "SEND"}
  \/ e = "con" /\ buf > 0

\* No time passes before what an end has written is read, so an end that has
\* waited too long still awaits something.
ClockInv ==
  /\ \A e \in End :
       /\ since[e] >= idle[e]
       /\ stat[e] = "hello" => idle[e] <= HelloTime
       /\ stat[e] = "down" => idle[e] = 0
       /\ stat[e] # "up" => lag[e] = 0
  /\ Linked => \A e \in End : stat[e] = "up" =>
       /\ idle[e] > 0 => chan[Peer(e)] = <<>>
       /\ lag[e] >= LostTime => Awaits(e)
  /\ Linked /\ buf > 0 => since["acc"] - idle["acc"] <= IdleTime \/ Awaits("acc")

IInv == TypeOK /\ LinkInv /\ HelloInv /\ AgentInv /\ CreditInv /\ SizeInv /\ ClockInv

-----------------------------------------------------------------------------
(* Packets, and how many of a type are in a sequence. *)

\* Packets and their types.
LEMMA Packets ==
  /\ \A t \in Plain : <<t>> \in Packet /\ <<t>>[1] = t
  /\ \A n \in Sizes : /\ <<"SETOPT", n>> \in Packet
                      /\ <<"SETOPT", n>>[1] = "SETOPT" /\ <<"SETOPT", n>>[2] = n
  /\ \A x \in Packet : x[1] = "SETOPT" => x[2] \in Sizes
<1>1. \A t \in Plain : <<t>> \in Packet /\ <<t>>[1] = t  BY DEF Packet
<1>2. \A n \in Sizes : /\ <<"SETOPT", n>> \in Packet
                       /\ <<"SETOPT", n>>[1] = "SETOPT" /\ <<"SETOPT", n>>[2] = n
  BY DEF Packet
<1>3. ASSUME NEW x \in Packet, x[1] = "SETOPT" PROVE x[2] \in Sizes
  <2>1. CASE x \in {<<t>> : t \in Plain}
    <3>1. PICK t \in Plain : x = <<t>>  BY <2>1
    <3>2. t = "SETOPT"  BY <1>3, <3>1
    <3> QED  BY <3>2 DEF Plain
  <2>2. CASE x \in {"SETOPT"} \X Sizes  BY <2>2
  <2> QED  BY <2>1, <2>2 DEF Packet
<1> QED  BY <1>1, <1>2, <1>3

\* The positions are finitely many.
LEMMA AtFinite ==
  ASSUME NEW s \in Seq(Packet), NEW t
  PROVE  /\ IsFiniteSet(At(s, t)) /\ Count(s, t) \in Nat
         /\ Count(s, t) = 0 <=> At(s, t) = {}
<1>1. Len(s) \in Nat  OBVIOUS
<1>2. IsFiniteSet(1..Len(s))  BY <1>1, FS_Interval
<1>3. At(s, t) \in SUBSET (1..Len(s))  BY DEF At
<1>4. IsFiniteSet(At(s, t))  BY <1>2, <1>3, FS_Subset
<1> QED  BY <1>4, FS_CardinalityType, FS_EmptySet DEF Count

\* A set of numbers that is moved up by n keeps its size.
LEMMA Shift ==
  ASSUME NEW A \in SUBSET Nat, IsFiniteSet(A), NEW n \in Nat
  PROVE  /\ IsFiniteSet({a + n : a \in A})
         /\ Cardinality({a + n : a \in A}) = Cardinality(A)
<1> DEFINE B == {a + n : a \in A}
           f == [a \in A |-> a + n]
<1>1. f \in [A -> B]  OBVIOUS
<1>2. \A a, b \in A : f[a] = f[b] => a = b  OBVIOUS
<1>3. \A b \in B : \E a \in A : f[a] = b  OBVIOUS
<1>4. f \in Bijection(A, B)
  <2>1. DOMAIN f = A  OBVIOUS
  <2> HIDE DEF f, B
  <2> QED  BY <1>1, <1>2, <1>3, <2>1 DEF Bijection, Injection, Surjection, IsInjective
<1> HIDE DEF f, B
<1>5. ExistsBijection(A, B)  BY <1>4 DEF ExistsBijection
<1>6. IsFiniteSet(B) /\ Cardinality(B) = Cardinality(A)  BY <1>5, FS_Bijection
<1> QED  BY <1>6 DEF B

\* What is counted in two sequences is counted in one after the other.
LEMMA CountConcat ==
  ASSUME NEW s \in Seq(Packet), NEW u \in Seq(Packet), NEW t
  PROVE  Count(s \o u, t) = Count(s, t) + Count(u, t)
<1> DEFINE n == Len(s)
           A == At(s, t)
           D == At(u, t)
           B == {i + n : i \in D}
<1>1. n \in Nat /\ Len(u) \in Nat  OBVIOUS
<1>2. D \in SUBSET Nat /\ IsFiniteSet(D) /\ IsFiniteSet(A)
  <2>1. D \in SUBSET Nat  BY <1>1 DEF At
  <2> QED  BY <2>1, AtFinite
<1>3. IsFiniteSet(B) /\ Cardinality(B) = Cardinality(D)  BY <1>1, <1>2, Shift
<1>4. A \cap B = {}  BY <1>1 DEF At
<1>5. At(s \o u, t) = A \cup B
  <2>1. Len(s \o u) = n + Len(u)  OBVIOUS
  <2>2. ASSUME NEW i \in At(s \o u, t) PROVE i \in A \cup B
    <3>1. i \in 1..(n + Len(u)) /\ (s \o u)[i][1] = t  BY <2>1 DEF At
    <3>2. CASE i <= n
      <4>1. i \in 1..Len(s) /\ (s \o u)[i] = s[i]  BY <1>1, <3>1, <3>2
      <4> QED  BY <3>1, <4>1 DEF At
    <3>3. CASE i > n
      <4>1. i - n \in 1..Len(u) /\ (s \o u)[i] = u[i - n] /\ i = (i - n) + n
        BY <1>1, <3>1, <3>3
      <4>2. i - n \in D  BY <3>1, <4>1 DEF At
      <4> QED  BY <4>1, <4>2
    <3>4. i <= n \/ i > n  BY <1>1, <3>1
    <3> QED  BY <3>2, <3>3, <3>4
  <2>3. ASSUME NEW i \in A PROVE i \in At(s \o u, t)
    <3>1. i \in 1..n /\ s[i][1] = t  BY DEF At
    <3>2. i \in 1..Len(s \o u) /\ (s \o u)[i] = s[i]  BY <1>1, <2>1, <3>1
    <3> QED  BY <3>1, <3>2 DEF At
  <2>4. ASSUME NEW i \in D PROVE i + n \in At(s \o u, t)
    <3>1. i \in 1..Len(u) /\ u[i][1] = t  BY DEF At
    <3>2. i + n \in 1..Len(s \o u)  BY <1>1, <2>1, <3>1
    <3>3. (s \o u)[i + n] = u[i]  BY <1>1, <3>1
    <3> QED  BY <3>1, <3>2, <3>3 DEF At
  <2> QED  BY <2>2, <2>3, <2>4
<1> HIDE DEF A, B, D
<1>6. Cardinality(A \cup B) = Cardinality(A) + Cardinality(B)
  <2>1. Cardinality(A) \in Nat /\ Cardinality(B) \in Nat  BY <1>2, <1>3, FS_CardinalityType
  <2>2. Cardinality(A \cup B) = Cardinality(A) + Cardinality(B) - Cardinality(A \cap B)
    BY <1>2, <1>3, FS_Union
  <2>3. Cardinality(A \cap B) = 0  BY <1>4, FS_EmptySet
  <2> QED  BY <2>1, <2>2, <2>3
<1> QED  BY <1>3, <1>5, <1>6 DEF Count, A, D

\* One packet.
LEMMA CountOne ==
  ASSUME NEW x \in Packet, NEW t
  PROVE  Count(<<x>>, t) = IF x[1] = t THEN 1 ELSE 0
<1>1. CASE x[1] = t
  <2>1. At(<<x>>, t) = {1}  BY <1>1 DEF At
  <2> QED  BY <1>1, <2>1, FS_Singleton DEF Count
<1>2. CASE x[1] # t
  <2>1. At(<<x>>, t) = {}  BY <1>2 DEF At
  <2> QED  BY <1>2, <2>1, FS_EmptySet DEF Count
<1> QED  BY <1>1, <1>2

\* The first packet is read.
LEMMA CountTail ==
  ASSUME NEW s \in Seq(Packet), s # <<>>, NEW t
  PROVE  Count(s, t) = Count(Tail(s), t) + IF s[1][1] = t THEN 1 ELSE 0
<1> DEFINE x == s[1]
           u == Tail(s)
<1>1. x \in Packet /\ u \in Seq(Packet) /\ <<x>> \in Seq(Packet) /\ s = <<x>> \o u  OBVIOUS
<1> HIDE DEF x, u
<1>2. Count(s, t) = Count(<<x>>, t) + Count(u, t)  BY <1>1, CountConcat
<1>3. Count(u, t) \in Nat  BY <1>1, AtFinite
<1>4. Count(<<x>>, t) = IF x[1] = t THEN 1 ELSE 0  BY <1>1, CountOne
<1>5. Count(s, t) = Count(u, t) + IF x[1] = t THEN 1 ELSE 0  BY <1>2, <1>3, <1>4
<1> QED  BY <1>5 DEF x, u

\* An empty sequence.
LEMMA CountNone == \A t : Count(<<>>, t) = 0 /\ At(<<>>, t) = {}
<1>1. \A t : At(<<>>, t) = {}  BY DEF At
<1> QED  BY <1>1, FS_EmptySet DEF Count

\* The packets that Flush writes.
LEMMA CountSent ==
  ASSUME NEW n \in Nat, NEW t
  PROVE  LET s == [i \in 1..n |-> <<"SENT">>]
         IN  s \in Seq(Packet) /\ Len(s) = n /\ Count(s, t) = IF t = "SENT" THEN n ELSE 0
<1> DEFINE s == [i \in 1..n |-> <<"SENT">>]
<1>1. s \in [1..n -> Packet]  BY Packets DEF Plain
<1>2. s \in Seq(Packet) /\ Len(s) = n  BY <1>1
<1>3. \A i \in 1..n : s[i][1] = "SENT"  BY Packets DEF Plain
<1> HIDE DEF s
<1>4. CASE t = "SENT"
  <2>1. At(s, t) = 1..n  BY <1>2, <1>3, <1>4 DEF At
  <2>2. Cardinality(1..n) = n  BY FS_Interval
  <2> QED  BY <1>2, <1>4, <2>1, <2>2 DEF s, Count
<1>5. CASE t # "SENT"
  <2>1. At(s, t) = {}  BY <1>2, <1>3, <1>5 DEF At
  <2> QED  BY <1>2, <1>5, <2>1, FS_EmptySet DEF s, Count
<1> QED  BY <1>4, <1>5

-----------------------------------------------------------------------------
(* What a step does to the connection. *)

\* The type invariant in parts.
TypeLink ==
  /\ stat \in [End -> {"down", "hello", "up"}]
  /\ conn \in [End -> {"none", "open", "eof", "cut"}]
  /\ pend \in BOOLEAN /\ stale \in BOOLEAN
  /\ chan \in [End -> Seq(Packet)]
TypeRelay ==
  /\ agent \in [End -> {"none", "asked", "open"}] /\ agent["acc"] # "asked"
  /\ out \in 0..Window /\ buf \in 0..Window
TypeSize ==
  /\ PackSize \in [End -> Sizes \cup {DefSize}] /\ Size \in [End -> Sizes]
TypeClock ==
  /\ since \in [End -> 0..NoTime] /\ lag \in [End -> 0..Unread]
  /\ idle \in [End -> 0..IdleTime]

\* The type invariant is these and the bound of the faults.
LEMMA Types ==
  TypeOK <=> TypeLink /\ TypeRelay /\ TypeSize /\ TypeClock /\ faults \in 0..MaxFaults
  BY DEF TypeOK, TypeLink, TypeRelay, TypeSize, TypeClock

\* There are two ends.
LEMMA Peers ==
  /\ \A e \in End : Peer(e) \in End /\ Peer(e) # e /\ Peer(Peer(e)) = e
  /\ \A e, x \in End : x = e \/ x = Peer(e)
  /\ Peer("con") = "acc" /\ Peer("acc") = "con" /\ "con" \in End /\ "acc" \in End
  BY DEF End, Peer

\* e reads a packet, if rd, and writes ps.
Moved(e, rd, ps) ==
  /\ conn' = conn /\ pend' = pend
  /\ rd => Readable(e)
  /\ chan' \in [End -> Seq(Packet)]
  /\ chan'[e] = IF rd THEN Tail(chan[e]) ELSE chan[e]
  /\ chan'[Peer(e)] = IF conn[e] = "open" THEN chan[Peer(e)] \o ps ELSE chan[Peer(e)]

\* An end that reads and writes.
LEMMA ReadWrite ==
  ASSUME TypeLink, conn' = conn, pend' = pend, NEW e \in End, Readable(e),
         NEW ps \in Seq(Packet), Write(e, ps, Rest(e))
  PROVE  Moved(e, TRUE, ps)
<1> DEFINE p == Peer(e)
<1>1. p \in End /\ p # e  BY Peers
<1>2. chan \in [End -> Seq(Packet)] /\ chan[e] # <<>>  BY DEF TypeLink, Readable
<1>3. Tail(chan[e]) \in Seq(Packet) /\ chan[p] \o ps \in Seq(Packet)  BY <1>1, <1>2
<1> HIDE DEF p
<1>4. /\ Rest(e) \in [End -> Seq(Packet)] /\ Rest(e)[e] = Tail(chan[e])
      /\ Rest(e)[p] = chan[p]
  BY <1>1, <1>2, <1>3 DEF Rest
<1>5. chan' = IF conn[e] = "open" THEN [Rest(e) EXCEPT ![p] = chan[p] \o ps] ELSE Rest(e)
  BY <1>1, <1>4 DEF Write, p
<1>6. CASE conn[e] = "open"
  <2>1. chan' = [Rest(e) EXCEPT ![p] = chan[p] \o ps]  BY <1>5, <1>6
  <2>2. /\ chan' \in [End -> Seq(Packet)] /\ chan'[e] = Tail(chan[e])
        /\ chan'[p] = chan[p] \o ps
    BY <1>1, <1>3, <1>4, <2>1
  <2> QED  BY <1>6, <2>2 DEF Moved, p
<1>7. CASE conn[e] # "open"
  <2>1. chan' = Rest(e)  BY <1>5, <1>7
  <2> QED  BY <1>4, <1>7, <2>1 DEF Moved, p
<1> QED  BY <1>6, <1>7

\* One that only reads.
LEMMA ReadOnly ==
  ASSUME TypeLink, conn' = conn, pend' = pend, NEW e \in End, Readable(e), chan' = Rest(e)
  PROVE  Moved(e, TRUE, <<>>)
<1> DEFINE p == Peer(e)
<1>1. p \in End /\ p # e  BY Peers
<1>2. chan \in [End -> Seq(Packet)] /\ chan[e] # <<>>  BY DEF TypeLink, Readable
<1>3. Tail(chan[e]) \in Seq(Packet) /\ chan[p] \o <<>> = chan[p]  BY <1>1, <1>2
<1> HIDE DEF p
<1>4. /\ chan' \in [End -> Seq(Packet)] /\ chan'[e] = Tail(chan[e])
      /\ chan'[p] = chan[p]
  BY <1>1, <1>2, <1>3 DEF Rest
<1> QED  BY <1>3, <1>4 DEF Moved, p

\* One that only writes.
LEMMA WriteOnly ==
  ASSUME TypeLink, conn' = conn, pend' = pend, NEW e \in End,
         NEW ps \in Seq(Packet), Write(e, ps, chan)
  PROVE  Moved(e, FALSE, ps)
<1> DEFINE p == Peer(e)
<1>1. p \in End /\ p # e  BY Peers
<1>2. chan \in [End -> Seq(Packet)]  BY DEF TypeLink
<1>3. chan[p] \o ps \in Seq(Packet)  BY <1>1, <1>2
<1> HIDE DEF p
<1>5. chan' = IF conn[e] = "open" THEN [chan EXCEPT ![p] = chan[p] \o ps] ELSE chan
  BY <1>1, <1>2 DEF Write, p
<1>6. CASE conn[e] = "open"
  <2>1. chan' = [chan EXCEPT ![p] = chan[p] \o ps]  BY <1>5, <1>6
  <2>2. /\ chan' \in [End -> Seq(Packet)] /\ chan'[e] = chan[e]
        /\ chan'[p] = chan[p] \o ps
    BY <1>1, <1>2, <1>3, <2>1
  <2> QED  BY <1>6, <2>2 DEF Moved, p
<1>7. CASE conn[e] # "open"
  <2>1. chan' = chan  BY <1>5, <1>7
  <2> QED  BY <1>2, <1>7, <2>1 DEF Moved, p
<1> QED  BY <1>6, <1>7

\* Who reads or writes in a session, or in its setup, keeps the connection.
LEMMA LinkMoved ==
  ASSUME TypeLink, LinkInv, NEW e \in End, NEW rd \in BOOLEAN, NEW ps \in Seq(Packet),
         Moved(e, rd, ps), rd \/ stat[e] = "up",
         NEW st \in {"hello", "up"}, stat' = [stat EXCEPT ![e] = st], stale' = stale
  PROVE  LinkInv' /\ TypeLink'
<1>1. stat \in [End -> {"down", "hello", "up"}] /\ chan \in [End -> Seq(Packet)]
  BY DEF TypeLink
<1>2. conn[e] # "none" /\ stat[e] # "down" /\ (rd => chan[e] # <<>> /\ conn[e] # "cut")
  BY DEF Moved, Readable, LinkInv
<1>3. \A x \in End : x # e => stat'[x] = stat[x]  BY <1>1
<1>4. stat'[e] = st /\ conn' = conn /\ pend' = pend  BY <1>1 DEF Moved
<1>5. pend => e = "acc" /\ conn[e] # "open"
  <2>1. ASSUME pend PROVE e # "con"  BY <1>2, <2>1 DEF LinkInv
  <2> QED  BY <2>1 DEF LinkInv, End
<1>6. pend => chan'["con"] = <<>>  BY <1>5, Peers DEF Moved, LinkInv
<1>7. \A x \in End : stat'[x] = "down" <=> conn'[x] = "none"
  BY <1>2, <1>3, <1>4 DEF LinkInv
<1>8. pend' => /\ conn'["con"] = "open" /\ stat'["con"] = "hello"
               /\ conn'["acc"] # "open" /\ chan'["con"] = <<>>
  BY <1>3, <1>4, <1>5, <1>6, Peers DEF LinkInv
<1>9. ASSUME NEW x \in End, conn'[x] \in {"none", "cut"} PROVE chan'[x] = <<>>
  <2>1. chan[x] = <<>>  BY <1>4, <1>9 DEF LinkInv
  <2>2. CASE x = e  BY <1>2, <1>4, <1>9, <2>1, <2>2 DEF Moved
  <2>3. CASE x # e
    <3>1. x = Peer(e)  BY <2>3, Peers
    <3>2. conn[e] # "open"
      <4>1. CASE e = "acc"
        <5>1. x = "con"  BY <3>1, <4>1, Peers
        <5> QED  BY <1>4, <1>9, <4>1, <5>1 DEF LinkInv
      <4>2. CASE e = "con"
        <5>1. x = "acc"  BY <3>1, <4>2, Peers
        <5> QED  BY <1>4, <1>5, <1>9, <4>2, <5>1 DEF LinkInv
      <4> QED  BY <4>1, <4>2 DEF End
    <3> QED  BY <2>1, <3>1, <3>2 DEF Moved
  <2> QED  BY <2>2, <2>3
<1>10. LinkInv'  BY <1>4, <1>7, <1>8, <1>9 DEF LinkInv
<1>11. TypeLink'  BY <1>1, <1>4 DEF TypeLink, Moved
<1> QED  BY <1>10, <1>11

\* Who writes to an open connection writes to the other end.
LEMMA OpenLinked ==
  ASSUME LinkInv, NEW e \in End, conn[e] = "open", stat[e] = "up" \/ Readable(e)
  PROVE  Linked
<1>1. ~pend
  <2> SUFFICES ASSUME pend PROVE FALSE  OBVIOUS
  <2>1. e = "con"  BY DEF LinkInv, End
  <2> QED  BY <2>1 DEF LinkInv, Readable
<1> QED  BY <1>1 DEF LinkInv, Linked, End

-----------------------------------------------------------------------------
(* HELLO. *)

\* The rest of what comes after HELLO.
LEMMA OpeningTail ==
  ASSUME NEW s \in Seq(Packet), s # <<>>, Opening(s), s[1][1] = "HELLO"
  PROVE  Opening(Tail(s)) /\ \A i \in 1..Len(Tail(s)) : Tail(s)[i][1] # "HELLO"
<1> DEFINE u == Tail(s)
<1>1. Len(s) \in Nat /\ Len(u) = Len(s) - 1 /\ \A i \in 1..Len(u) : u[i] = s[i + 1]
  OBVIOUS
<1>2. u = <<>> \/ Len(u) > 0  OBVIOUS
<1> HIDE DEF u
<1>3. ASSUME NEW i \in 1..Len(u) PROVE u[i][1] # "HELLO"
  <2>1. i + 1 \in 1..Len(s) /\ i + 1 # 1  BY <1>1
  <2> QED  BY <1>1, <2>1 DEF Opening
<1>4. u # <<>> => u[1][1] = "HELLOOK"
  <2>1. ASSUME u # <<>> PROVE u[1][1] = "HELLOOK"
    <3>1. Len(s) > 1 /\ 1 \in 1..Len(u)  BY <1>1, <1>2, <2>1
    <3>2. u[1] = s[2]  BY <1>1, <3>1
    <3> QED  BY <3>1, <3>2 DEF Opening
  <2> QED  BY <2>1
<1>5. Opening(u)  BY <1>3, <1>4 DEF Opening
<1> QED  BY <1>3, <1>5 DEF u

\* More packets, after HELLOOK or beginning with it.
LEMMA OpeningConcat ==
  ASSUME NEW s \in Seq(Packet), NEW ps \in Seq(Packet), Opening(s),
         \A i \in 1..Len(ps) : ps[i][1] # "HELLO",
         \/ ps # <<>> => ps[1][1] = "HELLOOK"
         \/ s # <<>> /\ (s[1][1] = "HELLO" => Len(s) > 1)
  PROVE  Opening(s \o ps)
<1> DEFINE u == s \o ps
<1>1. /\ Len(s) \in Nat /\ Len(ps) \in Nat /\ Len(u) = Len(s) + Len(ps)
      /\ \A i \in 1..Len(s) : u[i] = s[i]
      /\ \A i \in 1..Len(u) : i > Len(s) => i - Len(s) \in 1..Len(ps) /\ u[i] = ps[i - Len(s)]
  OBVIOUS
<1>2. (s = <<>> <=> Len(s) = 0) /\ (ps = <<>> <=> Len(ps) = 0) /\ (u = <<>> <=> Len(u) = 0)
  OBVIOUS
<1> HIDE DEF u
<1>3. ASSUME NEW i \in 1..Len(u), u[i][1] = "HELLO" PROVE i = 1
  <2>1. ~(i > Len(s))  BY <1>1, <1>3
  <2>2. i \in 1..Len(s)  BY <1>1, <2>1
  <2> QED  BY <1>1, <1>3, <2>2 DEF Opening
<1>4. ASSUME u # <<>> PROVE u[1][1] \in {"HELLO", "HELLOOK"}
  <2>1. CASE s # <<>>
    <3>1. 1 \in 1..Len(s)  BY <1>1, <1>2, <2>1
    <3> QED  BY <1>1, <2>1, <3>1 DEF Opening
  <2>2. CASE s = <<>>
    <3>1. Len(s) = 0 /\ 1 \in 1..Len(u)  BY <1>1, <1>2, <1>4, <2>2
    <3>2. u[1] = ps[1] /\ ps # <<>>  BY <1>1, <1>2, <3>1
    <3> QED  BY <2>2, <3>2
  <2> QED  BY <2>1, <2>2
<1>5. ASSUME Len(u) > 1, u[1][1] = "HELLO" PROVE u[2][1] = "HELLOOK"
  <2>1. s # <<>>
    <3>1. ASSUME s = <<>> PROVE FALSE
      <4>1. 1 \in 1..Len(u) /\ 1 > Len(s) /\ 1 - Len(s) = 1  BY <1>1, <1>2, <1>5, <3>1
      <4>2. 1 \in 1..Len(ps) /\ u[1] = ps[1]  BY <1>1, <4>1
      <4> QED  BY <1>5, <4>2
    <3> QED  BY <3>1
  <2>2. 1 \in 1..Len(s) /\ s[1][1] = "HELLO"  BY <1>1, <1>2, <1>5, <2>1
  <2>3. CASE Len(s) > 1
    <3>1. 2 \in 1..Len(s)  BY <1>1, <2>3
    <3> QED  BY <1>1, <2>2, <2>3, <3>1 DEF Opening
  <2>4. CASE ~(Len(s) > 1)
    <3>0. Len(s) = 1 /\ Len(u) \in Nat
      <4>1. \A n \in Nat : 1 \in 1..n /\ ~(n > 1) => n = 1  OBVIOUS
      <4>2. Len(s) \in Nat /\ 1 \in 1..Len(s)  BY <2>2
      <4>3. Len(s) = 1  BY <2>4, <4>1, <4>2
      <4>4. Len(u) \in Nat  BY <1>1
      <4> QED  BY <4>3, <4>4
    <3>1. 2 \in 1..Len(u) /\ 2 > Len(s) /\ 2 - Len(s) = 1  BY <1>5, <3>0
    <3>2. 1 \in 1..Len(ps) /\ u[2] = ps[1]  BY <1>1, <3>1
    <3>3. ps # <<>>  BY <1>1, <1>2, <3>2
    <3> QED  BY <2>2, <2>4, <3>2, <3>3
  <2> QED  BY <2>3, <2>4
<1>6. Opening(u)  BY <1>3, <1>4, <1>5 DEF Opening
<1> QED  BY <1>6 DEF u

\* What an end in its session, or in the setup, reads and writes keeps HELLO in
\* front.
LEMMA HelloMoved ==
  ASSUME TypeLink, LinkInv, HelloInv, NEW e \in End, NEW rd \in BOOLEAN, NEW ps \in Seq(Packet),
         Moved(e, rd, ps), rd \/ stat[e] = "up",
         \A i \in 1..Len(ps) : ps[i][1] # "HELLO",
         \/ stat[e] = "up" /\ stat' = stat
         \/ /\ stat[e] = "hello" /\ rd /\ Head1(e) = "HELLO" /\ stat' = stat
            /\ ps # <<>> /\ ps[1][1] = "HELLOOK"
         \/ /\ stat[e] = "hello" /\ rd /\ Head1(e) = "HELLOOK"
            /\ stat' = [stat EXCEPT ![e] = "up"]
            /\ ps # <<>> /\ ps[1][1] = "HELLOOK"
  PROVE  HelloInv'
<1> DEFINE p == Peer(e)
           s == chan[e]
           u == chan[p]
<1>1. p \in End /\ p # e /\ Peer(p) = e  BY Peers
<1>2. stat \in [End -> {"down", "hello", "up"}] /\ s \in Seq(Packet) /\ u \in Seq(Packet)
  BY <1>1 DEF TypeLink
<1>3. /\ stat'[p] = stat[p] /\ (rd => s # <<>>)
      /\ chan'[e] = IF rd THEN Tail(s) ELSE s
      /\ chan'[p] = IF conn[e] = "open" THEN u \o ps ELSE u
      /\ conn' = conn
  BY <1>1, <1>2 DEF Moved, Readable
<1>4. \/ stat[e] = "up" /\ stat'[e] = "up"
      \/ stat[e] = "hello" /\ stat'[e] = "hello" /\ rd /\ s[1][1] = "HELLO"
         /\ ps # <<>> /\ ps[1][1] = "HELLOOK"
      \/ stat[e] = "hello" /\ stat'[e] = "up" /\ rd /\ s[1][1] = "HELLOOK"
         /\ ps # <<>> /\ ps[1][1] = "HELLOOK"
  BY <1>2 DEF Head1
<1>5. /\ stat[e] = "hello" => Opening(s)
      /\ stat[e] = "up" => \A i \in 1..Len(s) : s[i][1] # "HELLO"
      /\ Linked /\ stat[e] = "hello" /\ stat[p] = "up" =>
           s # <<>> /\ (s[1][1] = "HELLO" => Len(s) > 1)
  BY DEF HelloInv
<1>6. /\ stat[p] = "hello" => Opening(u)
      /\ stat[p] = "up" => \A i \in 1..Len(u) : u[i][1] # "HELLO"
      /\ Linked /\ stat[p] = "hello" /\ stat[e] = "up" =>
           u # <<>> /\ (u[1][1] = "HELLO" => Len(u) > 1)
  BY <1>1 DEF HelloInv
<1>7. conn[e] = "open" => Linked  BY OpenLinked DEF Moved
<1> DEFINE s1 == chan'[e]
           u1 == chan'[p]
<1>8. /\ stat'[e] = "hello" => Opening(s1)
      /\ stat'[e] = "up" => \A i \in 1..Len(s1) : s1[i][1] # "HELLO"
  <2>1. CASE stat[e] = "up"
    <3>1. CASE rd
      <4>1. s1 = Tail(s) /\ s # <<>>  BY <1>3, <3>1
      <4>2. \A i \in 1..Len(s1) : i + 1 \in 1..Len(s) /\ s1[i] = s[i + 1]  BY <1>2, <4>1
      <4> QED  BY <1>4, <1>5, <2>1, <4>2
    <3>2. CASE ~rd
      <4>1. s1 = s  BY <1>3, <3>2
      <4> QED  BY <1>4, <1>5, <2>1, <4>1
    <3> QED  BY <3>1, <3>2
  <2>2. CASE stat[e] = "hello" /\ stat'[e] = "hello" /\ rd /\ s[1][1] = "HELLO"
    <3>1. s1 = Tail(s) /\ s # <<>>  BY <1>3, <2>2
    <3> HIDE DEF s, s1
    <3> QED  BY <1>2, <1>5, <2>2, <3>1, OpeningTail
  <2>3. CASE stat[e] = "hello" /\ stat'[e] = "up" /\ rd /\ s[1][1] = "HELLOOK"
    <3>1. s1 = Tail(s) /\ s # <<>>  BY <1>3, <2>3
    <3>2. \A i \in 1..Len(s1) : i + 1 \in 1..Len(s) /\ i + 1 # 1 /\ s1[i] = s[i + 1]
      BY <1>2, <3>1
    <3>3. \A i \in 1..Len(s) : s[i][1] = "HELLO" => i = 1  BY <1>5, <2>3 DEF Opening
    <3> QED  BY <2>3, <3>2, <3>3
  <2> QED  BY <1>4, <2>1, <2>2, <2>3
<1>9. /\ stat'[p] = "hello" => Opening(u1)
      /\ stat'[p] = "up" => \A i \in 1..Len(u1) : u1[i][1] # "HELLO"
  <2>1. CASE conn[e] # "open"
    <3>1. u1 = u  BY <1>3, <2>1
    <3> QED  BY <1>3, <1>6, <3>1
  <2>2. CASE conn[e] = "open" /\ stat[p] = "hello"
    <3>1. u1 = u \o ps  BY <1>3, <2>2
    <3>2. \/ ps # <<>> => ps[1][1] = "HELLOOK"
          \/ u # <<>> /\ (u[1][1] = "HELLO" => Len(u) > 1)
      BY <1>4, <1>6, <1>7, <2>2
    <3>3. Opening(u)  BY <1>6, <2>2
    <3> HIDE DEF u, u1
    <3>4. Opening(u1)  BY <1>2, <3>1, <3>2, <3>3, OpeningConcat
    <3> QED  BY <1>3, <2>2, <3>4
  <2>3. CASE conn[e] = "open" /\ stat[p] = "up"
    <3>1. u1 = u \o ps  BY <1>3, <2>3
    <3>2. \A i \in 1..Len(u) : u[i][1] # "HELLO"  BY <1>6, <2>3
    <3> HIDE DEF u, u1
    <3>3. ASSUME NEW i \in 1..Len(u1) PROVE u1[i][1] # "HELLO"
      <4>1. \/ i \in 1..Len(u) /\ u1[i] = u[i]
            \/ i - Len(u) \in 1..Len(ps) /\ u1[i] = ps[i - Len(u)]
        BY <1>2, <3>1
      <4> QED  BY <3>2, <4>1
    <3> QED  BY <1>3, <2>3, <3>3
  <2>4. CASE conn[e] = "open" /\ stat[p] = "down"  BY <1>3, <2>4
  <2> QED  BY <1>1, <1>2, <2>1, <2>2, <2>3, <2>4
<1>10. Linked' <=> Linked  BY <1>3 DEF Linked
<1>11. ASSUME Linked, stat'[e] = "hello", stat'[p] = "up"
       PROVE  s1 # <<>> /\ (s1[1][1] = "HELLO" => Len(s1) > 1)
  <2>1. stat[e] = "hello" /\ rd /\ s[1][1] = "HELLO" /\ stat[p] = "up"  BY <1>3, <1>4, <1>11
  <2>2. s1 = Tail(s) /\ s # <<>> /\ Len(s) > 1  BY <1>3, <1>5, <1>11, <2>1
  <2>3. Opening(Tail(s)) /\ \A i \in 1..Len(Tail(s)) : Tail(s)[i][1] # "HELLO"
    <3>1. Opening(s)  BY <1>5, <2>1
    <3> HIDE DEF s, s1
    <3> QED  BY <1>2, <2>1, <2>2, <3>1, OpeningTail
  <2>4. Tail(s) # <<>> /\ 1 \in 1..Len(Tail(s))
    <3>1. s \in Seq(Packet) /\ s # <<>> /\ Len(s) > 1  BY <1>2, <2>2
    <3> HIDE DEF s
    <3>2. Len(Tail(s)) = Len(s) - 1 /\ Len(s) \in Nat /\ Tail(s) \in Seq(Packet)  BY <3>1
    <3>3. Len(Tail(s)) >= 1 /\ Len(Tail(s)) \in Nat  BY <3>1, <3>2
    <3>4. Tail(s) # <<>>  BY <3>3
    <3> QED  BY <3>3, <3>4
  <2> QED  BY <2>2, <2>3, <2>4
<1>12. ASSUME Linked, stat'[p] = "hello", stat'[e] = "up"
       PROVE  u1 # <<>> /\ (u1[1][1] = "HELLO" => Len(u1) > 1)
  <2>1. u1 = u \o ps /\ stat[p] = "hello"  BY <1>3, <1>12 DEF Linked
  <2>2. CASE stat[e] = "up"
    <3>1. u # <<>> /\ (u[1][1] = "HELLO" => Len(u) > 1)  BY <1>6, <1>12, <2>1, <2>2
    <3>2. u1 # <<>> /\ u1[1] = u[1] /\ Len(u1) >= Len(u) /\ Len(u1) \in Nat /\ Len(u) \in Nat
      <4> HIDE DEF u, u1
      <4> QED  BY <1>2, <2>1, <3>1
    <3> HIDE DEF u, u1
    <3> QED  BY <3>1, <3>2
  <2>3. CASE stat[e] # "up"
    <3>1. ps # <<>> /\ ps[1][1] = "HELLOOK"  BY <1>4, <1>12, <2>3
    <3> HIDE DEF u, u1
    <3>2. u1 # <<>> /\ (Len(u1) > 1 \/ u1[1] = ps[1])  BY <1>2, <2>1, <3>1
    <3> QED  BY <3>1, <3>2
  <2> QED  BY <2>2, <2>3
<1> HIDE DEF s, u, s1, u1
<1>13. ASSUME NEW x \in End
       PROVE  /\ stat'[x] = "hello" => Opening(chan'[x])
              /\ stat'[x] = "up" => \A i \in 1..Len(chan'[x]) : chan'[x][i][1] # "HELLO"
              /\ Linked' /\ stat'[x] = "hello" /\ stat'[Peer(x)] = "up" =>
                   chan'[x] # <<>> /\ (chan'[x][1][1] = "HELLO" => Len(chan'[x]) > 1)
  <2>1. CASE x = e  BY <1>8, <1>10, <1>11, <2>1 DEF s1
  <2>2. CASE x = p  BY <1>1, <1>9, <1>10, <1>12, <2>2 DEF u1
  <2> QED  BY <2>1, <2>2, Peers
<1> QED  BY <1>13 DEF HelloInv

-----------------------------------------------------------------------------
(* The packets of a client. *)

ClientTypes == {"CONNECT", "CONNECTED", "SEND", "SENT"}

\* What a step adds to and takes from the packets of a type.
LEMMA CountsMoved ==
  ASSUME TypeLink, NEW e \in End, NEW rd \in BOOLEAN, NEW ps \in Seq(Packet),
         Moved(e, rd, ps), NEW t
  PROVE  /\ C(e, t) \in Nat /\ C(Peer(e), t) \in Nat /\ Count(ps, t) \in Nat
         /\ C(e, t)' \in Nat /\ C(Peer(e), t)' \in Nat
         /\ rd /\ Head1(e) = t => C(e, t)' = C(e, t) - 1 /\ C(e, t) > 0
         /\ ~rd \/ Head1(e) # t => C(e, t)' = C(e, t)
         /\ C(Peer(e), t)' = C(Peer(e), t) + IF conn[e] = "open" THEN Count(ps, t) ELSE 0
<1> DEFINE p == Peer(e)
           s == chan[e]
           u == chan[p]
           s1 == chan'[e]
           u1 == chan'[p]
<1>1. p \in End /\ p # e  BY Peers
<1>2. s \in Seq(Packet) /\ u \in Seq(Packet) /\ s1 \in Seq(Packet) /\ u1 \in Seq(Packet)
  BY <1>1 DEF TypeLink, Moved
<1>3. /\ s1 = IF rd THEN Tail(s) ELSE s
      /\ u1 = IF conn[e] = "open" THEN u \o ps ELSE u
      /\ rd => s # <<>>
  BY DEF Moved, Readable
<1>4. /\ C(e, t) = Count(s, t) /\ C(p, t) = Count(u, t)
      /\ C(e, t)' = Count(s1, t) /\ C(p, t)' = Count(u1, t)
      /\ Head1(e) = s[1][1]
  BY DEF C, Count, At, Head1
<1> HIDE DEF s, u, s1, u1
<1>5. /\ Count(s, t) \in Nat /\ Count(u, t) \in Nat /\ Count(ps, t) \in Nat
      /\ Count(s1, t) \in Nat /\ Count(u1, t) \in Nat
  BY <1>2, AtFinite
<1>6. /\ rd /\ s[1][1] = t => Count(s1, t) = Count(s, t) - 1 /\ Count(s, t) > 0
      /\ ~rd \/ s[1][1] # t => Count(s1, t) = Count(s, t)
  <2>1. CASE ~rd  BY <1>3, <2>1
  <2>2. CASE rd
    <3>1. s1 = Tail(s) /\ s # <<>>  BY <1>3, <2>2
    <3>2. Count(s, t) = Count(Tail(s), t) + IF s[1][1] = t THEN 1 ELSE 0
      BY <1>2, <3>1, CountTail
    <3>3. CASE s[1][1] = t
      <4>1. Count(s, t) = Count(s1, t) + 1  BY <3>1, <3>2, <3>3
      <4> QED  BY <1>5, <2>2, <3>3, <4>1
    <3>4. CASE s[1][1] # t
      <4>1. Count(s, t) = Count(s1, t) + 0  BY <3>1, <3>2, <3>4
      <4> QED  BY <1>5, <3>4, <4>1
    <3> QED  BY <3>3, <3>4
  <2> QED  BY <2>1, <2>2
<1>7. Count(u1, t) = Count(u, t) + IF conn[e] = "open" THEN Count(ps, t) ELSE 0
  <2>1. CASE conn[e] = "open"
    <3>1. Count(u \o ps, t) = Count(u, t) + Count(ps, t)  BY <1>2, CountConcat
    <3> QED  BY <1>3, <2>1, <3>1
  <2>2. CASE conn[e] # "open"  BY <1>3, <1>5, <2>2
  <2> QED  BY <2>1, <2>2
<1> QED  BY <1>4, <1>5, <1>6, <1>7

\* The packets of a type after "con" has read or written.
LEMMA CountsCon ==
  ASSUME TypeLink, NEW rd \in BOOLEAN, NEW ps \in Seq(Packet), Moved("con", rd, ps)
  PROVE  \A t : /\ C("con", t) \in Nat /\ C("acc", t) \in Nat
                /\ C("con", t)' = IF rd /\ Head1("con") = t THEN C("con", t) - 1 ELSE C("con", t)
                /\ rd /\ Head1("con") = t => C("con", t) > 0
                /\ C("acc", t)' = C("acc", t) + IF conn["con"] = "open" THEN Count(ps, t) ELSE 0
<1> SUFFICES ASSUME NEW t
             PROVE  /\ C("con", t) \in Nat /\ C("acc", t) \in Nat
                    /\ C("con", t)' = IF rd /\ Head1("con") = t THEN C("con", t) - 1 ELSE C("con", t)
                    /\ rd /\ Head1("con") = t => C("con", t) > 0
                    /\ C("acc", t)' = C("acc", t) + IF conn["con"] = "open" THEN Count(ps, t) ELSE 0
  OBVIOUS
<1>1. PICK e \in End : e = "con"  BY Peers
<1>2. Peer(e) = "acc" /\ Moved(e, rd, ps)  BY <1>1, Peers
<1>3. /\ C(e, t) \in Nat /\ C(Peer(e), t) \in Nat
      /\ rd /\ Head1(e) = t => C(e, t)' = C(e, t) - 1 /\ C(e, t) > 0
      /\ ~rd \/ Head1(e) # t => C(e, t)' = C(e, t)
      /\ C(Peer(e), t)' = C(Peer(e), t) + IF conn[e] = "open" THEN Count(ps, t) ELSE 0
  BY <1>2, CountsMoved
<1>4. /\ C(e, t) = C("con", t) /\ C(e, t)' = C("con", t)' /\ Head1(e) = Head1("con")
      /\ C(Peer(e), t) = C("acc", t) /\ C(Peer(e), t)' = C("acc", t)' /\ conn[e] = conn["con"]
  BY <1>1, <1>2
<1> QED  BY <1>3, <1>4

\* The packets of a type after "acc" has read or written.
LEMMA CountsAcc ==
  ASSUME TypeLink, NEW rd \in BOOLEAN, NEW ps \in Seq(Packet), Moved("acc", rd, ps)
  PROVE  \A t : /\ C("acc", t) \in Nat /\ C("con", t) \in Nat
                /\ C("acc", t)' = IF rd /\ Head1("acc") = t THEN C("acc", t) - 1 ELSE C("acc", t)
                /\ rd /\ Head1("acc") = t => C("acc", t) > 0
                /\ C("con", t)' = C("con", t) + IF conn["acc"] = "open" THEN Count(ps, t) ELSE 0
<1> SUFFICES ASSUME NEW t
             PROVE  /\ C("acc", t) \in Nat /\ C("con", t) \in Nat
                    /\ C("acc", t)' = IF rd /\ Head1("acc") = t THEN C("acc", t) - 1 ELSE C("acc", t)
                    /\ rd /\ Head1("acc") = t => C("acc", t) > 0
                    /\ C("con", t)' = C("con", t) + IF conn["acc"] = "open" THEN Count(ps, t) ELSE 0
  OBVIOUS
<1>1. PICK e \in End : e = "acc"  BY Peers
<1>2. Peer(e) = "con" /\ Moved(e, rd, ps)  BY <1>1, Peers
<1>3. /\ C(e, t) \in Nat /\ C(Peer(e), t) \in Nat
      /\ rd /\ Head1(e) = t => C(e, t)' = C(e, t) - 1 /\ C(e, t) > 0
      /\ ~rd \/ Head1(e) # t => C(e, t)' = C(e, t)
      /\ C(Peer(e), t)' = C(Peer(e), t) + IF conn[e] = "open" THEN Count(ps, t) ELSE 0
  BY <1>2, CountsMoved
<1>4. /\ C(e, t) = C("acc", t) /\ C(e, t)' = C("acc", t)' /\ Head1(e) = Head1("acc")
      /\ C(Peer(e), t) = C("con", t) /\ C(Peer(e), t)' = C("con", t)' /\ conn[e] = conn["acc"]
  BY <1>1, <1>2
<1> QED  BY <1>3, <1>4

\* The counts as they stand.
LEMMA CountsType ==
  ASSUME TypeLink, NEW e \in End, NEW t
  PROVE  C(e, t) \in Nat
<1>1. chan[e] \in Seq(Packet)  BY DEF TypeLink
<1> QED  BY <1>1, AtFinite DEF C

\* A step that reads no packet of a client and writes none.
LEMMA NeutralMoved ==
  ASSUME TypeLink, AgentInv, CreditInv,
         NEW e \in End, NEW rd \in BOOLEAN, NEW ps \in Seq(Packet),
         Moved(e, rd, ps), \A t \in ClientTypes : Count(ps, t) = 0,
         rd => Head1(e) \notin ClientTypes, UNCHANGED <<agent, out, buf>>,
         \A x \in End : stat'[x] = stat[x] \/ stat'[x] = "up"
  PROVE  AgentInv' /\ CreditInv'
<1>1. ASSUME NEW x \in End, NEW t \in ClientTypes PROVE C(x, t)' = C(x, t)
  <2>1. /\ rd /\ Head1(e) = t => C(e, t)' = C(e, t) - 1
        /\ ~rd \/ Head1(e) # t => C(e, t)' = C(e, t)
        /\ C(Peer(e), t) \in Nat
        /\ C(Peer(e), t)' = C(Peer(e), t) + IF conn[e] = "open" THEN Count(ps, t) ELSE 0
    BY CountsMoved
  <2>2. C(e, t)' = C(e, t) /\ C(Peer(e), t)' = C(Peer(e), t)  BY <2>1
  <2>3. CASE x = e  BY <2>2, <2>3
  <2>4. CASE x = Peer(e)  BY <2>2, <2>4
  <2> QED  BY <2>3, <2>4, Peers
<1>2. /\ C("con", "CONNECT")' = C("con", "CONNECT") /\ C("con", "SEND")' = C("con", "SEND")
      /\ C("acc", "CONNECTED")' = C("acc", "CONNECTED") /\ C("acc", "SENT")' = C("acc", "SENT")
      /\ C("acc", "CONNECT")' = C("acc", "CONNECT") /\ C("acc", "SEND")' = C("acc", "SEND")
      /\ C("con", "CONNECTED")' = C("con", "CONNECTED") /\ C("con", "SENT")' = C("con", "SENT")
  BY <1>1, Peers DEF ClientTypes
<1>3. Linked' <=> Linked  BY DEF Linked, Moved
<1>4. AgentInv'
  <2>1. \A x \in End : stat'[x] # "up" => agent'[x] = "none"  BY DEF AgentInv
  <2> QED  BY <1>2, <2>1 DEF AgentInv
<1>5. CreditInv'  BY <1>2, <1>3 DEF CreditInv
<1> QED  BY <1>4, <1>5

-----------------------------------------------------------------------------
(* Sizes and clocks. *)

\* Positions after a packet was read, or others were written.
LEMMA AtConcat ==
  ASSUME NEW s \in Seq(Packet), NEW ps \in Seq(Packet)
  PROVE  /\ \A i \in 1..Len(s \o ps) :
              \/ i \in 1..Len(s) /\ (s \o ps)[i] = s[i]
              \/ i - Len(s) \in 1..Len(ps) /\ (s \o ps)[i] = ps[i - Len(s)]
         /\ \A i \in 1..Len(s) : i \in 1..Len(s \o ps) /\ (s \o ps)[i] = s[i]
         /\ \A i \in 1..Len(ps) : Len(s) + i \in 1..Len(s \o ps) /\ (s \o ps)[Len(s) + i] = ps[i]
  OBVIOUS

\* Positions after the first packet was read.
LEMMA AtTail ==
  ASSUME NEW s \in Seq(Packet), s # <<>>
  PROVE  /\ \A i \in 1..Len(Tail(s)) : i + 1 \in 1..Len(s) /\ Tail(s)[i] = s[i + 1]
         /\ \A i \in 1..Len(s) : i = 1 \/ (i - 1 \in 1..Len(Tail(s)) /\ Tail(s)[i - 1] = s[i])
  OBVIOUS

\* A step that reads no SETOPT.  Who comes up writes one, of its own size.
LEMMA SizeMoved ==
  ASSUME TypeLink, LinkInv, SizeInv, NEW e \in End, NEW rd \in BOOLEAN, NEW ps \in Seq(Packet),
         Moved(e, rd, ps), \A i \in 1..Len(ps) : ps[i][1] = "SETOPT" => ps[i][2] = Size[e],
         rd => Head1(e) # "SETOPT", UNCHANGED <<PackSize, Size>>,
         stat'[Peer(e)] = stat[Peer(e)],
         stat'[e] = stat[e] \/ \E i \in 1..Len(ps) : ps[i][1] = "SETOPT"
  PROVE  SizeInv'
<1> SUFFICES ASSUME Linked', NEW x \in End
             PROVE  /\ \A i \in 1..Len(chan'[x]) :
                         chan'[x][i][1] = "SETOPT" => chan'[x][i][2] = Size[Peer(x)]
                    /\ stat'[Peer(x)] = "up" => At(chan[x], "SETOPT")' # {} \/ Taken(x)
  BY DEF SizeInv, Taken
<1>1. Linked  BY DEF Linked, Moved
<1>2. /\ chan[x] \in Seq(Packet) /\ chan'[x] \in Seq(Packet)
      /\ \A i \in 1..Len(chan[x]) : chan[x][i][1] = "SETOPT" => chan[x][i][2] = Size[Peer(x)]
      /\ stat[Peer(x)] = "up" => At(chan[x], "SETOPT") # {} \/ Taken(x)
  BY <1>1 DEF SizeInv, TypeLink, Moved
<1> DEFINE s == chan[x]
           s1 == chan'[x]
<1>3. At(chan[x], "SETOPT")' = At(s1, "SETOPT") /\ At(chan[x], "SETOPT") = At(s, "SETOPT")
  BY DEF At
<1>4. ASSUME \A j \in 1..Len(s) : s[j][1] = "SETOPT" => \E i \in 1..Len(s1) : s1[i] = s[j]
      PROVE  At(s, "SETOPT") # {} => At(s1, "SETOPT") # {}
  <2> HIDE DEF s, s1
  <2> QED  BY <1>4 DEF At
<1>5. CASE x = e
  <2>1. stat'[Peer(x)] = stat[Peer(x)]  BY <1>5
  <2>2. /\ \A i \in 1..Len(s1) : \E j \in 1..Len(s) : s[j] = s1[i]
        /\ \A j \in 1..Len(s) : s[j][1] = "SETOPT" => \E i \in 1..Len(s1) : s1[i] = s[j]
    <3>1. CASE rd
      <4>1. s1 = Tail(s) /\ s # <<>> /\ s[1][1] # "SETOPT" /\ s \in Seq(Packet)
        BY <1>2, <1>5, <3>1 DEF Moved, Readable, Head1
      <4> HIDE DEF s, s1
      <4>2. /\ \A i \in 1..Len(s1) : i + 1 \in 1..Len(s) /\ s1[i] = s[i + 1]
            /\ \A i \in 1..Len(s) : i = 1 \/ (i - 1 \in 1..Len(s1) /\ s1[i - 1] = s[i])
        BY <4>1, AtTail
      <4>3. ASSUME NEW i \in 1..Len(s1) PROVE \E j \in 1..Len(s) : s[j] = s1[i]  BY <4>2
      <4>4. ASSUME NEW j \in 1..Len(s), s[j][1] = "SETOPT"
            PROVE  \E i \in 1..Len(s1) : s1[i] = s[j]
        BY <4>1, <4>2, <4>4
      <4> QED  BY <4>3, <4>4
    <3>2. CASE ~rd
      <4>1. s1 = s  BY <1>5, <3>2 DEF Moved
      <4> HIDE DEF s, s1
      <4> QED  BY <4>1
    <3> QED  BY <3>1, <3>2
  <2> HIDE DEF s, s1
  <2>3. \A i \in 1..Len(s1) : s1[i][1] = "SETOPT" => s1[i][2] = Size[Peer(x)]
    BY <1>2, <2>2 DEF s
  <2> QED  BY <1>2, <1>3, <1>4, <2>1, <2>2, <2>3 DEF s1
<1>6. CASE x # e
  <2>1. x = Peer(e) /\ Peer(x) = e /\ s1 = s \o ps /\ s \in Seq(Packet)
    BY <1>1, <1>2, <1>6, Peers DEF Moved, Linked
  <2> HIDE DEF s, s1
  <2>2. ASSUME NEW i \in 1..Len(s1), s1[i][1] = "SETOPT" PROVE s1[i][2] = Size[Peer(x)]
    <3>1. \/ i \in 1..Len(s) /\ s1[i] = s[i]
          \/ i - Len(s) \in 1..Len(ps) /\ s1[i] = ps[i - Len(s)]
      BY <2>1, AtConcat
    <3> QED  BY <1>2, <2>1, <2>2, <3>1 DEF s
  <2>3. ASSUME NEW j \in 1..Len(s) PROVE \E i \in 1..Len(s1) : s1[i] = s[j]
    <3>1. j \in 1..Len(s1) /\ s1[j] = s[j]  BY <2>1, AtConcat
    <3> QED  BY <3>1
  <2>4. ASSUME NEW j \in 1..Len(ps), ps[j][1] = "SETOPT" PROVE At(s1, "SETOPT") # {}
    <3>1. Len(s) + j \in 1..Len(s1) /\ s1[Len(s) + j] = ps[j]  BY <2>1, AtConcat
    <3> QED  BY <2>4, <3>1 DEF At
  <2> QED  BY <1>2, <1>3, <1>4, <2>1, <2>2, <2>3, <2>4 DEF s1
<1> QED  BY <1>5, <1>6

Asking == {"ECHO", "CONNECT", "SEND"}

\* Who awaits an answer from e still does when e has read and written.
LEMMA AwaitsMoved ==
  ASSUME TypeLink, Linked, NEW e \in End, NEW rd \in BOOLEAN, NEW ps \in Seq(Packet),
         Moved(e, rd, ps), Awaits(Peer(e)),
         rd /\ Head1(e) \in Asking => ps # <<>> \/ (e = "acc" /\ buf' > 0),
         e = "acc" /\ buf > 0 => buf' > 0 \/ ps # <<>>,
         e = "con" => buf' = buf
  PROVE  Awaits(Peer(e))'
<1> DEFINE p == Peer(e)
           s == chan[e]
           u == chan[p]
           s1 == chan'[e]
           u1 == chan'[p]
<1>1. p \in End /\ p # e /\ Peer(p) = e /\ (p = "con" <=> e = "acc") /\ (p = "acc" <=> e = "con")
  BY Peers DEF End
<1>2. s \in Seq(Packet) /\ u \in Seq(Packet) /\ u1 = u \o ps
      /\ s1 = (IF rd THEN Tail(s) ELSE s) /\ (rd => s # <<>>) /\ Head1(e) = s[1][1]
  BY <1>1 DEF TypeLink, Moved, Linked, Readable, Head1
<1>3. \/ u # <<>>
      \/ \E i \in 1..Len(s) : s[i][1] \in Asking
      \/ p = "con" /\ buf > 0
  BY <1>1 DEF Awaits, Asking
<1>4. (\/ u1 # <<>>
       \/ \E i \in 1..Len(s1) : s1[i][1] \in Asking
       \/ p = "con" /\ buf' > 0) => Awaits(p)'
  BY <1>1 DEF Awaits, Asking
<1> HIDE DEF s, u, s1, u1
<1>5. u # <<>> \/ ps # <<>> => u1 # <<>>  BY <1>2
<1>6. CASE u # <<>>  BY <1>4, <1>5, <1>6
<1>7. CASE \E i \in 1..Len(s) : s[i][1] \in Asking
  <2>1. PICK i \in 1..Len(s) : s[i][1] \in Asking  BY <1>7
  <2>2. CASE ~rd
    <3>1. s1 = s  BY <1>2, <2>2
    <3> QED  BY <1>4, <2>1, <3>1
  <2>3. CASE rd /\ i = 1  BY <1>1, <1>2, <1>4, <1>5, <2>1, <2>3
  <2>4. CASE rd /\ i # 1
    <3>1. s1 = Tail(s) /\ s # <<>>  BY <1>2, <2>4
    <3>2. i - 1 \in 1..Len(s1) /\ s1[i - 1] = s[i]  BY <1>2, <2>4, <3>1, AtTail
    <3> QED  BY <1>4, <2>1, <3>2
  <2> QED  BY <2>2, <2>3, <2>4
<1>8. CASE p = "con" /\ buf > 0  BY <1>1, <1>4, <1>5, <1>8
<1> QED  BY <1>3, <1>6, <1>7, <1>8

\* The clocks after a step of e: its own, and those of its peer.
LEMMA ClockMoved ==
  ASSUME TypeLink, TypeClock, LinkInv, ClockInv,
         NEW e \in End, NEW rd \in BOOLEAN, NEW ps \in Seq(Packet), Moved(e, rd, ps),
         rd /\ Head1(e) \in Asking => ps # <<>> \/ (e = "acc" /\ buf' > 0),
         buf \in Nat, buf' \in Nat,
         e = "acc" /\ buf > 0 => buf' > 0 \/ ps # <<>>,
         e = "con" => buf' = buf,
         NEW st \in {"hello", "up"}, stat' = [stat EXCEPT ![e] = st],
         NEW k \in 0..NoTime, since' = [since EXCEPT ![e] = k],
         NEW l \in 0..Unread, lag' = [lag EXCEPT ![e] = l],
         idle' = [idle EXCEPT ![e] = 0],
         st # "up" => l = 0,
         Linked /\ l >= LostTime => Awaits(e)',
         Linked /\ e = "acc" /\ buf' > 0 => k <= IdleTime \/ Awaits(e)'
  PROVE  ClockInv' /\ TypeClock'
<1> DEFINE p == Peer(e)
<1>1. p \in End /\ p # e /\ Peer(p) = e /\ (p = "con" <=> e = "acc") /\ (p = "acc" <=> e = "con")
  BY Peers DEF End
<1>2. /\ stat \in [End -> {"down", "hello", "up"}]
      /\ since \in [End -> 0..NoTime] /\ lag \in [End -> 0..Unread] /\ idle \in [End -> 0..IdleTime]
  BY DEF TypeLink, TypeClock
<1>3. /\ stat'[e] = st /\ since'[e] = k /\ lag'[e] = l /\ idle'[e] = 0
      /\ stat'[p] = stat[p] /\ since'[p] = since[p] /\ lag'[p] = lag[p] /\ idle'[p] = idle[p]
  BY <1>1, <1>2
<1>4. TypeClock'
  <2>1. 0 \in 0..IdleTime  BY DEF IdleTime
  <2> QED  BY <1>2, <2>1 DEF TypeClock
<1>5. Linked' <=> Linked  BY DEF Linked, Moved
<1>6. /\ since'[e] >= idle'[e] /\ (stat'[e] = "hello" => idle'[e] <= HelloTime)
      /\ stat'[e] # "down" /\ (stat'[e] # "up" => lag'[e] = 0)
  BY <1>3 DEF HelloTime
<1>7. /\ since'[p] >= idle'[p] /\ (stat'[p] = "hello" => idle'[p] <= HelloTime)
      /\ (stat'[p] = "down" => idle'[p] = 0) /\ (stat'[p] # "up" => lag'[p] = 0)
  BY <1>1, <1>3 DEF ClockInv
<1>8. ASSUME Linked PROVE Awaits(p) => Awaits(p)'  BY <1>8, AwaitsMoved
<1>9. ASSUME Linked, stat'[p] = "up"
      PROVE  /\ idle'[p] > 0 => chan'[e] = <<>>
             /\ lag'[p] >= LostTime => Awaits(p)'
  <2>1. /\ idle[p] > 0 => chan[e] = <<>>
        /\ lag[p] >= LostTime => Awaits(p)
    BY <1>1, <1>3, <1>9 DEF ClockInv
  <2>2. idle[p] > 0 => chan'[e] = <<>>  BY <2>1 DEF Moved, Readable
  <2> QED  BY <1>3, <1>8, <1>9, <2>1, <2>2
<1>10. ASSUME Linked PROVE idle'[e] > 0 => chan'[p] = <<>>  BY <1>3
<1>11. ASSUME Linked, buf' > 0
       PROVE  since'["acc"] - idle'["acc"] <= IdleTime \/ Awaits("acc")'
  <2>1. CASE e = "acc"
    <3>1. since'["acc"] - idle'["acc"] = k  BY <1>3, <2>1
    <3>2. k <= IdleTime \/ Awaits("acc")'  BY <1>11, <2>1
    <3> QED  BY <3>1, <3>2
  <2>2. CASE e = "con"
    <3>1. p = "acc" /\ buf' = buf  BY <1>1, <2>2
    <3>2. since["acc"] - idle["acc"] <= IdleTime \/ Awaits("acc")
      BY <1>11, <3>1 DEF ClockInv
    <3>3. since'["acc"] = since["acc"] /\ idle'["acc"] = idle["acc"]  BY <1>3, <3>1
    <3>4. Awaits("acc") => Awaits("acc")'  BY <1>8, <1>11, <3>1
    <3> QED  BY <3>2, <3>3, <3>4
  <2> QED  BY <2>1, <2>2 DEF End
<1>12. ASSUME NEW x \in End
       PROVE  /\ since'[x] >= idle'[x] /\ (stat'[x] = "hello" => idle'[x] <= HelloTime)
              /\ (stat'[x] = "down" => idle'[x] = 0) /\ (stat'[x] # "up" => lag'[x] = 0)
  <2>1. CASE x = e  BY <1>6, <2>1
  <2>2. CASE x = p  BY <1>7, <2>2
  <2> QED  BY <2>1, <2>2, Peers
<1>13. ASSUME Linked', NEW x \in End, stat'[x] = "up"
       PROVE  /\ idle'[x] > 0 => chan'[Peer(x)] = <<>>
              /\ lag'[x] >= LostTime => Awaits(x)'
  <2>1. CASE x = e  BY <1>3, <1>5, <1>10, <1>13, <2>1
  <2>2. CASE x = p  BY <1>1, <1>5, <1>9, <1>13, <2>2
  <2> QED  BY <2>1, <2>2, Peers
<1>14. ClockInv'  BY <1>5, <1>11, <1>12, <1>13 DEF ClockInv
<1> QED  BY <1>4, <1>14

-----------------------------------------------------------------------------
(* The steps in a session. *)

\* The parts of the invariant, now.
LEMMA PartsOf ==
  ASSUME IInv
  PROVE  /\ TypeLink /\ TypeRelay /\ TypeSize /\ TypeClock /\ faults \in 0..MaxFaults
         /\ LinkInv /\ HelloInv /\ AgentInv /\ CreditInv /\ SizeInv /\ ClockInv
  BY Types DEF IInv

\* And after a step.
LEMMA PartsNext ==
  ASSUME TypeLink', TypeRelay', TypeSize', TypeClock', (faults \in 0..MaxFaults)',
         LinkInv', HelloInv', AgentInv', CreditInv', SizeInv', ClockInv'
  PROVE  IInv'
<1>1. TypeOK'  BY DEF TypeOK, TypeLink, TypeRelay, TypeSize, TypeClock
<1> QED  BY <1>1 DEF IInv

\* One packet is written.
LEMMA OnePacket ==
  ASSUME NEW t \in Plain, NEW ps, ps = << <<t>> >>
  PROVE  /\ ps \in Seq(Packet) /\ ps # <<>> /\ Len(ps) = 1 /\ ps[1][1] = t
         /\ \A i \in 1..Len(ps) : ps[i][1] = t
         /\ \A u : Count(ps, u) = IF t = u THEN 1 ELSE 0
<1> DEFINE x == <<t>>
<1>1. x \in Packet /\ x[1] = t  BY Packets
<1>2. ps = <<x>>  OBVIOUS
<1> HIDE DEF x
<1>3. ps \in Seq(Packet) /\ ps # <<>> /\ Len(ps) = 1 /\ ps[1] = x /\ \A i \in 1..Len(ps) : ps[i] = x
  BY <1>1, <1>2
<1>4. \A u : Count(<<x>>, u) = IF x[1] = u THEN 1 ELSE 0  BY <1>1, CountOne
<1> QED  BY <1>1, <1>2, <1>3, <1>4

\* Who writes a packet that asks for an answer awaits it.
LEMMA AwaitsWritten ==
  ASSUME TypeLink, Linked, NEW e \in End, NEW rd \in BOOLEAN, NEW ps \in Seq(Packet),
         Moved(e, rd, ps), NEW i \in 1..Len(ps), ps[i][1] \in Asking
  PROVE  Awaits(e)'
<1> DEFINE u == chan[Peer(e)]
           u1 == chan'[Peer(e)]
<1>1. u \in Seq(Packet) /\ u1 = u \o ps  BY Peers DEF TypeLink, Linked, Moved
<1>2. (\E j \in 1..Len(u1) : u1[j][1] \in Asking) => Awaits(e)'  BY DEF Awaits, Asking
<1> HIDE DEF u, u1
<1>3. Len(u) + i \in 1..Len(u1) /\ u1[Len(u) + i] = ps[i]  BY <1>1, AtConcat
<1> QED  BY <1>2, <1>3

\* A step that changes no client, no size and no state of the setup.
LEMMA NeutralInv ==
  ASSUME IInv, NEW e \in End, NEW rd \in BOOLEAN, NEW ps \in Seq(Packet), Moved(e, rd, ps),
         rd \/ stat[e] = "up",
         \/ stat[e] = "up"
         \/ stat[e] = "hello" /\ rd /\ Head1(e) = "HELLO" /\ ps # <<>> /\ ps[1][1] = "HELLOOK",
         \A i \in 1..Len(ps) : ps[i][1] \notin {"HELLO", "SETOPT"},
         \A t \in ClientTypes : Count(ps, t) = 0,
         rd => Head1(e) \notin ClientTypes \cup {"SETOPT"},
         rd /\ Head1(e) = "ECHO" => ps # <<>>,
         UNCHANGED <<stat, stale, relay, size, faults>>,
         NEW k \in 0..NoTime, since' = [since EXCEPT ![e] = k],
         NEW l \in 0..Unread, lag' = [lag EXCEPT ![e] = l],
         idle' = [idle EXCEPT ![e] = 0],
         stat[e] # "up" => l = 0,
         Linked /\ l >= LostTime => Awaits(e)',
         Linked /\ e = "acc" /\ buf > 0 => k <= IdleTime \/ Awaits(e)'
  PROVE  IInv'
<1>1. /\ TypeLink /\ TypeRelay /\ TypeSize /\ TypeClock /\ faults \in 0..MaxFaults
      /\ LinkInv /\ HelloInv /\ AgentInv /\ CreditInv /\ SizeInv /\ ClockInv
  BY PartsOf
<1>2. UNCHANGED <<stat, stale, agent, out, buf, PackSize, Size, faults>>  BY DEF relay, size
<1>3. buf \in Nat /\ buf' = buf  BY <1>1, <1>2 DEF TypeRelay
<1> DEFINE st == stat[e]
<1>4. st \in {"hello", "up"} /\ stat' = [stat EXCEPT ![e] = st] /\ stat' = stat
  BY <1>1, <1>2 DEF TypeLink
<1> HIDE DEF st
<1>5. LinkInv' /\ TypeLink'  BY <1>1, <1>2, <1>4, LinkMoved
<1>6. HelloInv'
  <2>1. \A i \in 1..Len(ps) : ps[i][1] # "HELLO"  OBVIOUS
  <2> QED  BY <1>1, <1>4, <2>1, HelloMoved
<1>7. AgentInv' /\ CreditInv'
  <2>1. rd => Head1(e) \notin ClientTypes  OBVIOUS
  <2> QED  BY <1>1, <1>2, <2>1, NeutralMoved
<1>8. SizeInv'
  <2>1. /\ rd => Head1(e) # "SETOPT"
        /\ \A i \in 1..Len(ps) : ps[i][1] = "SETOPT" => ps[i][2] = Size[e]
        /\ stat'[Peer(e)] = stat[Peer(e)] /\ stat'[e] = stat[e]
    BY <1>2
  <2> QED  BY <1>1, <1>2, <2>1, SizeMoved
<1>9. ClockInv' /\ TypeClock'
  <2>1. rd /\ Head1(e) \in Asking => ps # <<>>  BY DEF Asking, ClientTypes
  <2>2. st # "up" => l = 0  BY DEF st
  <2>3. /\ rd /\ Head1(e) \in Asking => ps # <<>> \/ (e = "acc" /\ buf' > 0)
        /\ e = "acc" /\ buf > 0 => buf' > 0 \/ ps # <<>>
        /\ e = "con" => buf' = buf
        /\ Linked /\ e = "acc" /\ buf' > 0 => k <= IdleTime \/ Awaits(e)'
        /\ buf' \in Nat
    BY <1>3, <2>1
  <2> QED  BY <1>1, <1>3, <1>4, <2>2, <2>3, ClockMoved
<1>10. TypeRelay' /\ TypeSize' /\ (faults \in 0..MaxFaults)'
  BY <1>1, <1>2 DEF TypeRelay, TypeSize
<1> QED  BY <1>5, <1>6, <1>7, <1>8, <1>9, <1>10, PartsNext

\* The times are numbers in their ranges.
LEMMA Times ==
  ASSUME TypeClock, NEW e \in End
  PROVE  /\ since[e] \in 0..NoTime /\ lag[e] \in 0..Unread /\ idle[e] \in 0..NoTime
         /\ idle[e] <= IdleTime /\ 0 \in 0..Unread
         /\ (IF since[e] = NoTime THEN 0 ELSE since[e]) \in 0..Unread
         /\ since[e] >= idle[e] =>
              (IF since[e] = NoTime THEN 0 ELSE since[e] - idle[e]) \in 0..Unread
         /\ since = [since EXCEPT ![e] = since[e]] /\ lag = [lag EXCEPT ![e] = lag[e]]
<1>1. since[e] \in 0..NoTime /\ lag[e] \in 0..Unread /\ idle[e] \in 0..IdleTime
  BY DEF TypeClock
<1>2. NoTime = 8 /\ Unread = 7 /\ IdleTime = 2  BY DEF NoTime, Unread, IdleTime, LostTime
<1>3. since = [since EXCEPT ![e] = since[e]] /\ lag = [lag EXCEPT ![e] = lag[e]]
  BY DEF TypeClock
<1> QED  BY <1>1, <1>2, <1>3

\* HELLO is answered.
LEMMA SetupHelloInv ==
  ASSUME IInv, NEW e \in End, SetupHello(e)
  PROVE  IInv'
<1> DEFINE ps == << <<"HELLOOK">> >>
<1>1. /\ TypeLink /\ TypeClock /\ TypeRelay /\ AgentInv /\ ClockInv  BY PartsOf
<1>2. /\ ps \in Seq(Packet) /\ ps # <<>> /\ ps[1][1] = "HELLOOK"
      /\ \A i \in 1..Len(ps) : ps[i][1] = "HELLOOK"
      /\ \A u : Count(ps, u) = IF "HELLOOK" = u THEN 1 ELSE 0
  BY OnePacket DEF Plain
<1>3. Moved(e, TRUE, ps)  BY <1>1, <1>2, ReadWrite DEF SetupHello
<1> HIDE DEF ps
<1>4. /\ stat[e] = "hello" /\ Head1(e) = "HELLO" /\ idle' = [idle EXCEPT ![e] = 0]
      /\ UNCHANGED <<stat, stale, relay, size, faults>> /\ UNCHANGED <<since, lag>>
  BY DEF SetupHello
<1>5. lag[e] = 0 /\ (e = "acc" => buf = 0)  BY <1>1, <1>4 DEF ClockInv, AgentInv
<1> DEFINE k == since[e]
           l == lag[e]
<1>6. k \in 0..NoTime /\ l \in 0..Unread /\ since' = [since EXCEPT ![e] = k]
      /\ lag' = [lag EXCEPT ![e] = l] /\ l = 0
  BY <1>1, <1>4, <1>5, Times
<1> HIDE DEF k, l
<1>7. /\ \A i \in 1..Len(ps) : ps[i][1] \notin {"HELLO", "SETOPT"}
      /\ \A t \in ClientTypes : Count(ps, t) = 0
      /\ Head1(e) \notin ClientTypes \cup {"SETOPT"} /\ Head1(e) # "ECHO"
  BY <1>2, <1>4 DEF ClientTypes
<1>8. ~(l >= LostTime) /\ ~(e = "acc" /\ buf > 0)
  BY <1>5, <1>6 DEF LostTime
<1> QED  BY <1>2, <1>3, <1>4, <1>6, <1>7, <1>8, NeutralInv

\* A PING is answered.
LEMMA RecvEchoInv ==
  ASSUME IInv, NEW e \in End, RecvEcho(e)
  PROVE  IInv'
<1> DEFINE ps == << <<"ECHOOK">> >>
           k == idle[e]
<1>1. TypeLink /\ TypeClock  BY PartsOf
<1>2. /\ ps \in Seq(Packet) /\ ps # <<>>
      /\ \A i \in 1..Len(ps) : ps[i][1] = "ECHOOK"
      /\ \A u : Count(ps, u) = IF "ECHOOK" = u THEN 1 ELSE 0
  BY OnePacket DEF Plain
<1>3. Moved(e, TRUE, ps)  BY <1>1, <1>2, ReadWrite DEF RecvEcho
<1> HIDE DEF ps
<1>4. /\ stat[e] = "up" /\ Head1(e) = "ECHO" /\ idle' = [idle EXCEPT ![e] = 0]
      /\ UNCHANGED <<stat, stale, relay, size, faults>>
      /\ since' = [since EXCEPT ![e] = k] /\ lag' = [lag EXCEPT ![e] = 0]
  BY DEF RecvEcho, Heard
<1>5. k \in 0..NoTime /\ 0 \in 0..Unread /\ k <= IdleTime  BY <1>1, Times
<1> HIDE DEF k
<1>6. /\ \A i \in 1..Len(ps) : ps[i][1] \notin {"HELLO", "SETOPT"}
      /\ \A t \in ClientTypes : Count(ps, t) = 0
      /\ Head1(e) \notin ClientTypes \cup {"SETOPT"}
  BY <1>2, <1>4 DEF ClientTypes
<1>7. ~(0 >= LostTime)  BY DEF LostTime
<1> QED  BY <1>2, <1>3, <1>4, <1>5, <1>6, <1>7, NeutralInv

\* A second HELLOOK, or an answer to a PING.
LEMMA RecvNothingInv ==
  ASSUME IInv, NEW e \in End, RecvNothing(e)
  PROVE  IInv'
<1> DEFINE ps == << >>
           k == idle[e]
<1>1. TypeLink /\ TypeClock  BY PartsOf
<1>2. ps \in Seq(Packet) /\ Len(ps) = 0 /\ \A u : Count(ps, u) = 0  BY CountNone
<1>3. Moved(e, TRUE, ps)  BY <1>1, ReadOnly DEF RecvNothing
<1> HIDE DEF ps
<1>4. /\ stat[e] = "up" /\ Head1(e) \in {"HELLOOK", "ECHOOK"} /\ idle' = [idle EXCEPT ![e] = 0]
      /\ UNCHANGED <<stat, stale, relay, size, faults>>
      /\ since' = [since EXCEPT ![e] = k] /\ lag' = [lag EXCEPT ![e] = 0]
  BY DEF RecvNothing, Heard
<1>5. k \in 0..NoTime /\ 0 \in 0..Unread /\ k <= IdleTime  BY <1>1, Times
<1> HIDE DEF k
<1>6. /\ \A i \in 1..Len(ps) : ps[i][1] \notin {"HELLO", "SETOPT"}
      /\ \A t \in ClientTypes : Count(ps, t) = 0
      /\ Head1(e) \notin ClientTypes \cup {"SETOPT"} /\ Head1(e) # "ECHO"
  BY <1>2, <1>4 DEF ClientTypes
<1>7. ~(0 >= LostTime)  BY DEF LostTime
<1> QED  BY <1>2, <1>3, <1>4, <1>5, <1>6, <1>7, NeutralInv

\* A PING is sent.
LEMMA PingInv ==
  ASSUME IInv, NEW e \in End, Ping(e)
  PROVE  IInv'
<1> DEFINE ps == << <<"ECHO">> >>
           k == since[e]
           l == IF since[e] = NoTime THEN 0 ELSE since[e]
<1>1. TypeLink /\ TypeClock  BY PartsOf
<1>2. /\ ps \in Seq(Packet) /\ ps # <<>> /\ Len(ps) = 1
      /\ \A i \in 1..Len(ps) : ps[i][1] = "ECHO"
      /\ \A u : Count(ps, u) = IF "ECHO" = u THEN 1 ELSE 0
  BY OnePacket DEF Plain
<1>3. Moved(e, FALSE, ps)  BY <1>1, <1>2, WriteOnly DEF Ping
<1> HIDE DEF ps
<1>4. /\ stat[e] = "up" /\ idle' = [idle EXCEPT ![e] = 0]
      /\ UNCHANGED <<stat, stale, relay, size, faults>>
      /\ since' = since /\ lag' = [lag EXCEPT ![e] = l]
  BY DEF Ping
<1>5. k \in 0..NoTime /\ l \in 0..Unread /\ since' = [since EXCEPT ![e] = k]
  BY <1>1, <1>4, Times
<1> HIDE DEF k, l
<1>6. /\ \A i \in 1..Len(ps) : ps[i][1] \notin {"HELLO", "SETOPT"}
      /\ \A t \in ClientTypes : Count(ps, t) = 0
  BY <1>2 DEF ClientTypes
<1>7. Linked => Awaits(e)'
  <2>1. 1 \in 1..Len(ps) /\ ps[1][1] \in Asking  BY <1>2 DEF Asking
  <2> QED  BY <1>1, <1>2, <1>3, <2>1, AwaitsWritten
<1> QED  BY <1>2, <1>3, <1>4, <1>5, <1>6, <1>7, NeutralInv

Greeting(ps, n) ==
  /\ ps \in Seq(Packet) /\ ps # <<>> /\ ps[1][1] = "HELLOOK"
  /\ \A i \in 1..Len(ps) : ps[i][1] \in {"HELLOOK", "SETOPT", "ECHO"}
  /\ \A i \in 1..Len(ps) : ps[i][1] = "SETOPT" => ps[i][2] = n
  /\ 2 \in 1..Len(ps) /\ ps[2][1] = "SETOPT"
  /\ \A t \in ClientTypes : Count(ps, t) = 0

\* HELLOOK, the size and a PING are written.
LEMMA ThreePackets ==
  ASSUME NEW n \in Sizes
  PROVE  Greeting(<< <<"HELLOOK">>, <<"SETOPT", n>>, <<"ECHO">> >>, n)
<1>0. PICK ps : ps = << <<"HELLOOK">>, <<"SETOPT", n>>, <<"ECHO">> >>  OBVIOUS
<1> DEFINE a == <<"HELLOOK">>
           b == <<"SETOPT", n>>
           c == <<"ECHO">>
<1>1. /\ a \in Packet /\ b \in Packet /\ c \in Packet
      /\ a[1] = "HELLOOK" /\ b[1] = "SETOPT" /\ b[2] = n /\ c[1] = "ECHO"
  BY Packets DEF Plain
<1>2. ps = <<a, b, c>>  BY <1>0
<1> HIDE DEF a, b, c
<1>3. /\ ps \in Seq(Packet) /\ ps # <<>> /\ Len(ps) = 3 /\ ps[1] = a /\ ps[2] = b /\ ps[3] = c
  BY <1>1, <1>2
<1>4. \A i \in 1..Len(ps) : i = 1 \/ i = 2 \/ i = 3  BY <1>3
<1>5. \A i \in 1..Len(ps) : ps[i][1] \in {"HELLOOK", "SETOPT", "ECHO"}  BY <1>1, <1>3, <1>4
<1>6. \A i \in 1..Len(ps) : ps[i][1] = "SETOPT" => ps[i][2] = n  BY <1>1, <1>3, <1>4
<1>7. ASSUME NEW t \in ClientTypes PROVE Count(ps, t) = 0
  <2>1. At(ps, t) = {}  BY <1>5 DEF At, ClientTypes
  <2> QED  BY <2>1, FS_EmptySet DEF Count
<1>8. 2 \in 1..Len(ps)  BY <1>3
<1>9. Greeting(ps, n)  BY <1>1, <1>3, <1>5, <1>6, <1>7, <1>8 DEF Greeting
<1> QED  BY <1>0, <1>9

\* The setup is done: the options follow.
LEMMA SetupDoneInv ==
  ASSUME IInv, NEW e \in End, SetupDone(e)
  PROVE  IInv'
<1>0. PICK ps : ps = << <<"HELLOOK">>, <<"SETOPT", Size[e]>>, <<"ECHO">> >>  OBVIOUS
<1> DEFINE k == since[e]
           st == "up"
<1>1. /\ TypeLink /\ TypeRelay /\ TypeSize /\ TypeClock /\ faults \in 0..MaxFaults
      /\ LinkInv /\ HelloInv /\ AgentInv /\ CreditInv /\ SizeInv /\ ClockInv
  BY PartsOf
<1>2. Size[e] \in Sizes  BY <1>1 DEF TypeSize
<1>3. /\ ps \in Seq(Packet) /\ ps # <<>> /\ ps[1][1] = "HELLOOK"
      /\ \A i \in 1..Len(ps) : ps[i][1] \in {"HELLOOK", "SETOPT", "ECHO"}
      /\ \A i \in 1..Len(ps) : ps[i][1] = "SETOPT" => ps[i][2] = Size[e]
      /\ 2 \in 1..Len(ps) /\ ps[2][1] = "SETOPT"
      /\ \A t \in ClientTypes : Count(ps, t) = 0
  <2>1. Greeting(ps, Size[e])  BY <1>0, <1>2, ThreePackets
  <2> QED  BY <2>1 DEF Greeting
<1>4. Moved(e, TRUE, ps)  BY <1>0, <1>1, <1>3, ReadWrite DEF SetupDone
<1>5. /\ stat[e] = "hello" /\ Head1(e) = "HELLOOK" /\ stat' = [stat EXCEPT ![e] = "up"]
      /\ idle' = [idle EXCEPT ![e] = 0] /\ since' = since /\ lag' = lag
      /\ UNCHANGED <<stale, agent, out, buf, PackSize, Size, faults>>
  BY DEF SetupDone, relay, size
<1>6. /\ stat'[e] = "up" /\ \A x \in End : x # e => stat'[x] = stat[x]
  BY <1>1, <1>5 DEF TypeLink
<1>7. LinkInv' /\ TypeLink'
  <2>1. st \in {"hello", "up"} /\ stat' = [stat EXCEPT ![e] = st]  BY <1>5
  <2> HIDE DEF st
  <2> QED  BY <1>1, <1>3, <1>4, <1>5, <2>1, LinkMoved
<1>8. HelloInv'
  <2>1. \A i \in 1..Len(ps) : ps[i][1] # "HELLO"  BY <1>3
  <2> QED  BY <1>1, <1>3, <1>4, <1>5, <2>1, HelloMoved
<1>9. AgentInv' /\ CreditInv'
  <2>1. Head1(e) \notin ClientTypes  BY <1>5 DEF ClientTypes
  <2>2. \A x \in End : stat'[x] = stat[x] \/ stat'[x] = "up"  BY <1>6
  <2> QED  BY <1>1, <1>3, <1>4, <1>5, <2>1, <2>2, NeutralMoved
<1>10. SizeInv'
  <2>1. stat'[Peer(e)] = stat[Peer(e)]  BY <1>6, Peers
  <2>2. Head1(e) # "SETOPT" /\ \E i \in 1..Len(ps) : ps[i][1] = "SETOPT"  BY <1>3, <1>5
  <2> QED  BY <1>1, <1>3, <1>4, <1>5, <2>1, <2>2, SizeMoved
<1>11. ClockInv' /\ TypeClock'
  <2>1. k \in 0..NoTime /\ 0 \in 0..Unread /\ since' = [since EXCEPT ![e] = k]
    BY <1>1, <1>5, Times
  <2>2. lag' = [lag EXCEPT ![e] = 0]
    <3>1. lag[e] = 0  BY <1>1, <1>5 DEF ClockInv
    <3> QED  BY <1>1, <1>5, <3>1 DEF TypeClock
  <2>3. buf \in Nat /\ buf' = buf  BY <1>1, <1>5 DEF TypeRelay
  <2>4. e = "acc" => buf = 0  BY <1>1, <1>5 DEF AgentInv
  <2>5. Head1(e) \notin Asking /\ ~(0 >= LostTime)  BY <1>5 DEF Asking, LostTime
  <2>6. ~(e = "acc" /\ buf > 0) /\ ~(e = "acc" /\ buf' > 0) /\ buf' \in Nat  BY <2>3, <2>4
  <2>7. st \in {"hello", "up"} /\ stat' = [stat EXCEPT ![e] = st] /\ st = "up"  BY <1>5
  <2> HIDE DEF k, st
  <2> QED  BY <1>1, <1>3, <1>4, <1>5, <2>1, <2>2, <2>3, <2>5, <2>6, <2>7, ClockMoved
<1>12. TypeRelay' /\ TypeSize' /\ (faults \in 0..MaxFaults)'
  BY <1>1, <1>5 DEF TypeRelay, TypeSize
<1> QED  BY <1>7, <1>8, <1>9, <1>10, <1>11, <1>12, PartsNext

\* What set_PACKSIZE makes of the size n that the peer tells.
LEMMA SizeSet ==
  ASSUME TypeSize, NEW e \in End, NEW n \in Sizes
  PROVE  /\ set_PACKSIZE(e, n) \in Sizes \cup {DefSize}
         /\ Min2(Size[e], n) > MinSize => set_PACKSIZE(e, n) = Min2(Size[e], n)
<1> DEFINE m == Min2(Size[e], n)
<1>1. m \in Sizes  BY DEF TypeSize, Min2
<1>2. Min2(m, PWSIZE) = m
  <2>1. m \in MinSize..PWSIZE /\ PWSIZE \in Nat /\ MinSize \in Nat  BY <1>1, SizesAssumption
  <2> HIDE DEF m
  <2> QED  BY <2>1 DEF Min2
<1>3. set_PACKSIZE(e, n) = IF m < PackSize[e]
                           THEN IF MinSize < m THEN m ELSE PackSize[e] ELSE Min2(m, PWSIZE)
  BY DEF set_PACKSIZE
<1>4. PackSize[e] \in Sizes \cup {DefSize}  BY DEF TypeSize
<1> HIDE DEF m
<1>5. m > MinSize => MinSize < m  BY <1>1, SizesAssumption
<1>6. /\ set_PACKSIZE(e, n) \in Sizes \cup {DefSize}
      /\ m > MinSize => set_PACKSIZE(e, n) = m
  BY <1>1, <1>2, <1>3, <1>4, <1>5
<1> QED  BY <1>6 DEF m

\* The size of the peer comes.
LEMMA RecvOptionInv ==
  ASSUME IInv, NEW e \in End, RecvOption(e)
  PROVE  IInv'
<1> DEFINE ps == << >>
           k == idle[e]
           n == chan[e][1][2]
           st == stat[e]
           p == Peer(e)
<1>1. /\ TypeLink /\ TypeRelay /\ TypeSize /\ TypeClock /\ faults \in 0..MaxFaults
      /\ LinkInv /\ HelloInv /\ AgentInv /\ CreditInv /\ SizeInv /\ ClockInv
  BY PartsOf
<1>2. ps \in Seq(Packet) /\ Len(ps) = 0 /\ \A u : Count(ps, u) = 0  BY CountNone
<1>3. Moved(e, TRUE, ps)  BY <1>1, ReadOnly DEF RecvOption
<1> HIDE DEF ps
<1>4. /\ stat[e] = "up" /\ Head1(e) = "SETOPT" /\ stat' = stat
      /\ PackSize' = [PackSize EXCEPT ![e] = set_PACKSIZE(e, n)]
      /\ idle' = [idle EXCEPT ![e] = 0]
      /\ since' = [since EXCEPT ![e] = k] /\ lag' = [lag EXCEPT ![e] = 0]
      /\ UNCHANGED <<stale, agent, out, buf, Size, faults>>
  BY DEF RecvOption, Heard, relay
<1>5. st \in {"hello", "up"} /\ stat' = [stat EXCEPT ![e] = st] /\ st = "up"
  BY <1>1, <1>4 DEF TypeLink
<1>6. p \in End /\ p # e /\ Peer(p) = e  BY Peers
<1>7. chan[e] \in Seq(Packet) /\ chan[e] # <<>> /\ 1 \in 1..Len(chan[e])
      /\ chan[e][1] \in Packet /\ chan[e][1][1] = "SETOPT"
  BY <1>1, <1>3, <1>4 DEF TypeLink, Moved, Readable, Head1
<1>8. n \in Sizes  BY <1>7, Packets
<1> HIDE DEF st, n
<1>9. LinkInv' /\ TypeLink'  BY <1>1, <1>2, <1>3, <1>4, <1>5, LinkMoved
<1>10. HelloInv'
  <2>1. \A i \in 1..Len(ps) : ps[i][1] # "HELLO"  BY <1>2
  <2> QED  BY <1>1, <1>2, <1>3, <1>4, <2>1, HelloMoved
<1>11. AgentInv' /\ CreditInv'
  <2>1. Head1(e) \notin ClientTypes  BY <1>4 DEF ClientTypes
  <2> QED  BY <1>1, <1>2, <1>3, <1>4, <2>1, NeutralMoved
<1>12. ClockInv' /\ TypeClock'
  <2>1. k \in 0..NoTime /\ 0 \in 0..Unread /\ k <= IdleTime  BY <1>1, Times
  <2>2. buf \in Nat /\ buf' = buf /\ buf' \in Nat  BY <1>1, <1>4 DEF TypeRelay
  <2>3. Head1(e) \notin Asking /\ ~(0 >= LostTime)  BY <1>4 DEF Asking, LostTime
  <2> HIDE DEF k
  <2> QED  BY <1>1, <1>2, <1>3, <1>4, <1>5, <2>1, <2>2, <2>3, ClockMoved
<1>13. PackSize' \in [End -> Sizes \cup {DefSize}] /\ PackSize'[e] = set_PACKSIZE(e, n)
       /\ PackSize'[p] = PackSize[p]
  <2>1. set_PACKSIZE(e, n) \in Sizes \cup {DefSize}  BY <1>1, <1>8, SizeSet
  <2> QED  BY <1>1, <1>4, <1>6, <2>1 DEF TypeSize
<1>14. TypeRelay' /\ TypeSize' /\ (faults \in 0..MaxFaults)'
  BY <1>1, <1>4, <1>13 DEF TypeRelay, TypeSize
<1>15. SizeInv'
  <2> SUFFICES ASSUME Linked', NEW x \in End
               PROVE  /\ \A i \in 1..Len(chan'[x]) :
                           chan'[x][i][1] = "SETOPT" => chan'[x][i][2] = Size[Peer(x)]
                      /\ stat[Peer(x)] = "up" => At(chan[x], "SETOPT")' # {} \/ Taken(x)'
    BY <1>4 DEF SizeInv
  <2>1. Linked  BY <1>3 DEF Linked, Moved
  <2>2. CASE x = e
    <3> DEFINE s == chan[e]
               s1 == chan'[e]
    <3>1. \A i \in 1..Len(s) : s[i][1] = "SETOPT" => s[i][2] = Size[p]
      BY <1>1, <2>1 DEF SizeInv
    <3>2. n = Size[p]  BY <1>7, <3>1 DEF n
    <3>3. Taken(e)'
      <4>1. Min2(Size[e], n) > MinSize => set_PACKSIZE(e, n) = Min2(Size[e], n)
        BY <1>1, <1>8, SizeSet
      <4> QED  BY <1>4, <1>13, <3>2, <4>1 DEF Taken
    <3>4. s1 = Tail(s) /\ s \in Seq(Packet) /\ s # <<>>  BY <1>3, <1>7 DEF Moved
    <3> HIDE DEF s, s1
    <3>5. \A i \in 1..Len(s1) : i + 1 \in 1..Len(s) /\ s1[i] = s[i + 1]  BY <3>4, AtTail
    <3>6. \A i \in 1..Len(s1) : s1[i][1] = "SETOPT" => s1[i][2] = Size[p]  BY <3>1, <3>5
    <3> QED  BY <2>2, <3>3, <3>6 DEF s1
  <2>3. CASE x = p
    <3>1. chan'[p] = chan[p]
      <4>1. chan[p] \in Seq(Packet) /\ chan'[p] = chan[p] \o ps
        BY <1>1, <1>3, <1>6, <2>1 DEF TypeLink, Moved, Linked
      <4>2. chan[p] \o <<>> = chan[p]  BY <4>1
      <4> QED  BY <4>1, <4>2 DEF ps
    <3>2. Taken(p)' <=> Taken(p)  BY <1>4, <1>13 DEF Taken
    <3>3. At(chan[p], "SETOPT")' = At(chan[p], "SETOPT")  BY <3>1 DEF At
    <3> QED  BY <1>1, <1>6, <2>1, <2>3, <3>1, <3>2, <3>3 DEF SizeInv
  <2> QED  BY <2>2, <2>3, Peers
<1> QED  BY <1>9, <1>10, <1>11, <1>12, <1>14, <1>15, PartsNext

\* A step in a session about a client: what remains to be shown.
LEMMA ClientStep ==
  ASSUME IInv, NEW e \in End, NEW rd \in BOOLEAN, NEW ps \in Seq(Packet), Moved(e, rd, ps),
         stat[e] = "up", \A i \in 1..Len(ps) : ps[i][1] \notin {"HELLO", "SETOPT"},
         rd => Head1(e) # "SETOPT",
         rd /\ Head1(e) \in Asking => ps # <<>> \/ (e = "acc" /\ buf' > 0),
         e = "acc" /\ buf > 0 => buf' > 0 \/ ps # <<>>,
         e = "con" => buf' = buf,
         UNCHANGED <<stat, stale, size, faults>>,
         NEW k \in 0..NoTime, since' = [since EXCEPT ![e] = k],
         NEW l \in 0..Unread, lag' = [lag EXCEPT ![e] = l],
         idle' = [idle EXCEPT ![e] = 0],
         Linked /\ l >= LostTime => Awaits(e)',
         Linked /\ e = "acc" /\ buf' > 0 => k <= IdleTime \/ Awaits(e)',
         TypeRelay', AgentInv', CreditInv'
  PROVE  IInv'
<1>1. /\ TypeLink /\ TypeRelay /\ TypeSize /\ TypeClock /\ faults \in 0..MaxFaults
      /\ LinkInv /\ HelloInv /\ AgentInv /\ CreditInv /\ SizeInv /\ ClockInv
  BY PartsOf
<1>2. UNCHANGED <<stat, stale, PackSize, Size, faults>>  BY DEF size
<1>3. buf \in Nat /\ buf' \in Nat  BY <1>1 DEF TypeRelay
<1> DEFINE st == stat[e]
<1>4. st \in {"hello", "up"} /\ stat' = [stat EXCEPT ![e] = st] /\ st = "up"
  BY <1>1, <1>2 DEF TypeLink
<1> HIDE DEF st
<1>5. LinkInv' /\ TypeLink'  BY <1>1, <1>2, <1>4, LinkMoved
<1>6. HelloInv'
  <2>1. \A i \in 1..Len(ps) : ps[i][1] # "HELLO"  OBVIOUS
  <2> QED  BY <1>1, <1>2, <2>1, HelloMoved
<1>7. SizeInv'
  <2>1. /\ \A i \in 1..Len(ps) : ps[i][1] = "SETOPT" => ps[i][2] = Size[e]
        /\ stat'[Peer(e)] = stat[Peer(e)] /\ stat'[e] = stat[e]
    BY <1>2
  <2> QED  BY <1>1, <1>2, <2>1, SizeMoved
<1>8. ClockInv' /\ TypeClock'  BY <1>1, <1>3, <1>4, ClockMoved
<1>9. TypeSize' /\ (faults \in 0..MaxFaults)'  BY <1>1, <1>2 DEF TypeSize
<1> QED  BY <1>5, <1>6, <1>7, <1>8, <1>9, PartsNext

\* A client comes to "con".
LEMMA ClientInv ==
  ASSUME IInv, Client
  PROVE  IInv'
<1>0. PICK ps : ps = << <<"CONNECT">> >>  OBVIOUS
<1>0a. PICK e : e = "con"  OBVIOUS
<1> DEFINE k == since[e]
           l == IF since[e] = NoTime THEN 0 ELSE since[e] - idle[e]
<1>1. /\ TypeLink /\ TypeRelay /\ TypeClock /\ LinkInv /\ AgentInv /\ CreditInv /\ ClockInv
  BY PartsOf
<1>2. /\ ps \in Seq(Packet) /\ ps # <<>> /\ Len(ps) = 1
      /\ \A i \in 1..Len(ps) : ps[i][1] = "CONNECT"
      /\ \A u : Count(ps, u) = IF "CONNECT" = u THEN 1 ELSE 0
  BY <1>0, OnePacket DEF Plain
<1>3. e \in End /\ Peer(e) = "acc"  BY <1>0a, Peers
<1>4. Moved(e, FALSE, ps)  BY <1>0, <1>0a, <1>1, <1>2, <1>3, WriteOnly DEF Client
<1>5. /\ stat["con"] = "up" /\ agent["con"] = "none" /\ agent' = [agent EXCEPT !["con"] = "asked"]
      /\ idle' = [idle EXCEPT ![e] = 0] /\ since' = since /\ lag' = [lag EXCEPT ![e] = l]
      /\ UNCHANGED <<stat, stale, out, buf, size, faults>>
  BY <1>0a DEF Client, Event, Wrote
<1>6. /\ agent'["con"] = "asked" /\ agent'["acc"] = agent["acc"]
      /\ agent' \in [End -> {"none", "asked", "open"}]
  BY <1>1, <1>5, Peers DEF TypeRelay
<1>7. TypeRelay'  BY <1>1, <1>5, <1>6 DEF TypeRelay
<1>8. /\ C("con", "CONNECT")' = C("con", "CONNECT") /\ C("con", "SEND")' = C("con", "SEND")
      /\ C("con", "CONNECTED")' = C("con", "CONNECTED") /\ C("con", "SENT")' = C("con", "SENT")
      /\ C("acc", "CONNECTED")' = C("acc", "CONNECTED") /\ C("acc", "SENT")' = C("acc", "SENT")
      /\ C("acc", "SEND")' = C("acc", "SEND")
      /\ C("acc", "CONNECT")' = C("acc", "CONNECT") + IF conn["con"] = "open" THEN 1 ELSE 0
  <2>1. \A t : /\ C("con", t)' = C("con", t) /\ C("acc", t) \in Nat
               /\ C("acc", t)' = C("acc", t) + IF conn["con"] = "open" THEN Count(ps, t) ELSE 0
    BY <1>0a, <1>1, <1>2, <1>4, CountsCon
  <2>2. \A t : t # "CONNECT" => C("acc", t)' = C("acc", t)  BY <1>2, <2>1
  <2> QED  BY <1>2, <2>1, <2>2
<1>9. Linked' <=> Linked  BY <1>4 DEF Linked, Moved
<1>10. conn["con"] = "open" => Linked  BY <1>1, <1>5, Peers, OpenLinked
<1>11. \A e1 \in End : \A t : C(e1, t) \in Nat  BY <1>1, CountsType
<1>12. C("con", "CONNECTED") = 0 /\ C("con", "SENT") = 0  BY <1>1, <1>5, <1>11, Peers DEF AgentInv
<1>13. conn["con"] = "open" => agent["acc"] = "none" /\ C("acc", "CONNECT") = 0
  BY <1>1, <1>5, <1>10 DEF CreditInv
<1>14. AgentInv'
  <2>1. \A x \in End : stat'[x] # "up" => agent'[x] = "none"
    BY <1>1, <1>5, <1>6 DEF AgentInv, End
  <2>2. C("acc", "CONNECT")' > 0 => agent["acc"] = "none" /\ C("acc", "CONNECT")' = 1
    <3>1. CASE conn["con"] = "open"  BY <1>8, <1>13, <3>1
    <3>2. CASE conn["con"] # "open"
      <4>1. C("acc", "CONNECT")' = C("acc", "CONNECT")  BY <1>8, <1>11, <3>2, Peers
      <4> QED  BY <1>1, <4>1 DEF AgentInv
    <3> QED  BY <3>1, <3>2
  <2> QED  BY <1>1, <1>5, <1>6, <1>8, <1>12, <2>1, <2>2 DEF AgentInv
<1>15. CreditInv'
  <2> SUFFICES ASSUME Linked PROVE CreditInv'  BY <1>9 DEF CreditInv
  <2>1. conn["con"] = "open"  BY Peers DEF Linked
  <2>2. agent["acc"] = "none" /\ C("acc", "CONNECT")' = 1  BY <1>8, <1>13, <2>1
  <2>3. C("acc", "SEND") + buf + C("con", "SENT") = out  BY <1>1 DEF CreditInv
  <2> QED  BY <1>5, <1>6, <1>8, <1>12, <2>2, <2>3 DEF CreditInv
<1>16. k \in 0..NoTime /\ l \in 0..Unread /\ since' = [since EXCEPT ![e] = k]
  <2>1. since[e] >= idle[e]  BY <1>1, <1>3 DEF ClockInv
  <2> QED  BY <1>1, <1>3, <1>5, <2>1, Times
<1> HIDE DEF k, l
<1>17. Linked => Awaits(e)'
  <2>1. 1 \in 1..Len(ps) /\ ps[1][1] \in Asking  BY <1>2 DEF Asking
  <2> QED  BY <1>1, <1>2, <1>3, <1>4, <2>1, AwaitsWritten
<1>18. /\ \A i \in 1..Len(ps) : ps[i][1] \notin {"HELLO", "SETOPT"}
       /\ stat[e] = "up"
  BY <1>0a, <1>2, <1>5
<1> QED
  BY <1>2, <1>3, <1>4, <1>5, <1>7, <1>14, <1>15, <1>16, <1>17, <1>18, ClientStep

\* "acc" makes the connection to the server.
LEMMA RecvConnectInv ==
  ASSUME IInv, RecvConnect
  PROVE  IInv'
<1>0. PICK ps : ps = << <<"CONNECTED">> >>  OBVIOUS
<1>0a. PICK e \in End : e = "acc"  BY Peers
<1> DEFINE k == idle[e]
<1>1. /\ TypeLink /\ TypeRelay /\ TypeClock /\ LinkInv /\ AgentInv /\ CreditInv /\ ClockInv
  BY PartsOf
<1>2. /\ ps \in Seq(Packet) /\ ps # <<>>
      /\ \A i \in 1..Len(ps) : ps[i][1] = "CONNECTED"
      /\ \A u : Count(ps, u) = IF "CONNECTED" = u THEN 1 ELSE 0
  BY <1>0, OnePacket DEF Plain
<1>3. Readable(e) /\ Head1(e) = "CONNECT"  BY <1>0a DEF RecvConnect
<1>4. Moved(e, TRUE, ps)  BY <1>0, <1>0a, <1>1, <1>2, <1>3, ReadWrite DEF RecvConnect
<1>5. /\ stat["acc"] = "up" /\ agent' = [agent EXCEPT !["acc"] = "open"]
      /\ idle' = [idle EXCEPT ![e] = 0] /\ since' = [since EXCEPT ![e] = k]
      /\ lag' = [lag EXCEPT ![e] = 0]
      /\ UNCHANGED <<stat, stale, out, buf, size, faults>>
  BY <1>0a DEF RecvConnect, Heard
<1>6. /\ agent'["acc"] = "open" /\ agent'["con"] = agent["con"]
      /\ agent' \in [End -> {"none", "asked", "open"}]
  BY <1>1, <1>5, Peers DEF TypeRelay
<1>7. TypeRelay'  BY <1>1, <1>5, <1>6 DEF TypeRelay
<1>8. /\ C("con", "CONNECT")' = C("con", "CONNECT") /\ C("con", "SEND")' = C("con", "SEND")
      /\ C("con", "SENT")' = C("con", "SENT")
      /\ C("acc", "CONNECTED")' = C("acc", "CONNECTED") /\ C("acc", "SENT")' = C("acc", "SENT")
      /\ C("acc", "SEND")' = C("acc", "SEND")
      /\ C("acc", "CONNECT")' = C("acc", "CONNECT") - 1 /\ C("acc", "CONNECT") > 0
      /\ C("con", "CONNECTED")' = C("con", "CONNECTED") + IF conn["acc"] = "open" THEN 1 ELSE 0
  <2>1. \A t : /\ C("acc", t)' = IF "CONNECT" = t THEN C("acc", t) - 1 ELSE C("acc", t)
               /\ "CONNECT" = t => C("acc", t) > 0
               /\ C("con", t) \in Nat
               /\ C("con", t)' = C("con", t) + IF conn["acc"] = "open" THEN Count(ps, t) ELSE 0
    BY <1>0a, <1>1, <1>2, <1>3, <1>4, CountsAcc
  <2>2. \A t : t # "CONNECTED" => C("con", t)' = C("con", t)  BY <1>2, <2>1
  <2> QED  BY <1>2, <2>1, <2>2
<1>9. Linked' <=> Linked  BY <1>4 DEF Linked, Moved
<1>10. conn["acc"] = "open" => Linked  BY <1>1, <1>5, Peers, OpenLinked
<1>11. \A e1 \in End : \A t : C(e1, t) \in Nat  BY <1>1, CountsType
<1>12. agent["acc"] = "none" /\ C("acc", "CONNECT")' = 0  BY <1>1, <1>8 DEF AgentInv
<1>13. Linked => agent["con"] = "asked" /\ C("con", "CONNECTED") = 0
  BY <1>1, <1>8, <1>12 DEF CreditInv, TypeRelay, End
<1>14. AgentInv'
  <2>1. \A x \in End : stat'[x] # "up" => agent'[x] = "none"
    BY <1>1, <1>5, <1>6 DEF AgentInv, End
  <2>2. C("con", "CONNECTED")' > 0 => agent["con"] = "asked" /\ C("con", "CONNECTED")' = 1
    <3>1. CASE conn["acc"] = "open"  BY <1>8, <1>10, <1>13, <3>1
    <3>2. CASE conn["acc"] # "open"
      <4>1. C("con", "CONNECTED")' = C("con", "CONNECTED")  BY <1>8, <1>11, <3>2, Peers
      <4> QED  BY <1>1, <4>1 DEF AgentInv
    <3> QED  BY <3>1, <3>2
  <2> QED  BY <1>1, <1>5, <1>6, <1>8, <1>12, <2>1, <2>2 DEF AgentInv
<1>15. CreditInv'
  <2> SUFFICES ASSUME Linked PROVE CreditInv'  BY <1>9 DEF CreditInv
  <2>1. conn["acc"] = "open"  BY Peers DEF Linked
  <2>2. C("con", "CONNECTED")' = 1  BY <1>8, <1>13, <2>1
  <2>3. C("acc", "SEND") + buf + C("con", "SENT") = out  BY <1>1 DEF CreditInv
  <2> QED  BY <1>5, <1>6, <1>8, <1>12, <1>13, <2>2, <2>3 DEF CreditInv
<1>16. k \in 0..NoTime /\ k <= IdleTime /\ 0 \in 0..Unread  BY <1>1, Times
<1> HIDE DEF k
<1>17. /\ \A i \in 1..Len(ps) : ps[i][1] \notin {"HELLO", "SETOPT"}
       /\ stat[e] = "up" /\ Head1(e) # "SETOPT" /\ ~(0 >= LostTime)
  BY <1>0a, <1>2, <1>3, <1>5 DEF LostTime
<1> QED  BY <1>2, <1>4, <1>5, <1>7, <1>14, <1>15, <1>16, <1>17, ClientStep

\* "con" is told that the server is connected.
LEMMA RecvConnectedInv ==
  ASSUME IInv, RecvConnected
  PROVE  IInv'
<1>0. PICK ps : ps = << >>  OBVIOUS
<1>0a. PICK e \in End : e = "con"  BY Peers
<1> DEFINE k == idle[e]
<1>1. /\ TypeLink /\ TypeRelay /\ TypeClock /\ LinkInv /\ AgentInv /\ CreditInv /\ ClockInv
  BY PartsOf
<1>2. ps \in Seq(Packet) /\ Len(ps) = 0 /\ \A u : Count(ps, u) = 0  BY <1>0, CountNone
<1>3. Readable(e) /\ Head1(e) = "CONNECTED"  BY <1>0a DEF RecvConnected
<1>4. Moved(e, TRUE, ps)  BY <1>0, <1>0a, <1>1, <1>3, ReadOnly DEF RecvConnected
<1>5. /\ stat["con"] = "up" /\ agent' = [agent EXCEPT !["con"] = "open"]
      /\ idle' = [idle EXCEPT ![e] = 0] /\ since' = [since EXCEPT ![e] = k]
      /\ lag' = [lag EXCEPT ![e] = 0]
      /\ UNCHANGED <<stat, stale, out, buf, size, faults>>
  BY <1>0a DEF RecvConnected, Heard
<1>6. /\ agent'["con"] = "open" /\ agent'["acc"] = agent["acc"]
      /\ agent' \in [End -> {"none", "asked", "open"}]
  BY <1>1, <1>5, Peers DEF TypeRelay
<1>7. TypeRelay'  BY <1>1, <1>5, <1>6 DEF TypeRelay
<1>8. /\ C("con", "CONNECT")' = C("con", "CONNECT") /\ C("con", "SEND")' = C("con", "SEND")
      /\ C("con", "SENT")' = C("con", "SENT")
      /\ C("con", "CONNECTED")' = C("con", "CONNECTED") - 1 /\ C("con", "CONNECTED") > 0
      /\ \A t : C("acc", t)' = C("acc", t)
  <2>1. \A t : /\ C("con", t)' = IF "CONNECTED" = t THEN C("con", t) - 1 ELSE C("con", t)
               /\ "CONNECTED" = t => C("con", t) > 0
               /\ C("acc", t) \in Nat
               /\ C("acc", t)' = C("acc", t) + IF conn["con"] = "open" THEN Count(ps, t) ELSE 0
    BY <1>0a, <1>1, <1>2, <1>3, <1>4, CountsCon
  <2>2. \A t : C("acc", t)' = C("acc", t)  BY <1>2, <2>1
  <2> QED  BY <2>1, <2>2
<1>9. Linked' <=> Linked  BY <1>4 DEF Linked, Moved
<1>12. agent["con"] = "asked" /\ C("con", "CONNECTED") = 1 /\ C("con", "CONNECTED")' = 0
  BY <1>1, <1>8 DEF AgentInv
<1>13. AgentInv'
  <2>1. \A x \in End : stat'[x] # "up" => agent'[x] = "none"
    BY <1>1, <1>5, <1>6 DEF AgentInv, End
  <2> QED  BY <1>1, <1>5, <1>6, <1>8, <1>12, <2>1 DEF AgentInv
<1>14. CreditInv'
  <2> SUFFICES ASSUME Linked PROVE CreditInv'  BY <1>9 DEF CreditInv
  <2>1. agent["acc"] = "open" /\ C("acc", "CONNECT") = 0  BY <1>1, <1>12 DEF CreditInv
  <2>2. C("acc", "SEND") + buf + C("con", "SENT") = out  BY <1>1 DEF CreditInv
  <2> QED  BY <1>5, <1>6, <1>8, <1>12, <2>1, <2>2 DEF CreditInv
<1>16. k \in 0..NoTime /\ k <= IdleTime /\ 0 \in 0..Unread  BY <1>1, Times
<1> HIDE DEF k
<1>17. /\ \A i \in 1..Len(ps) : ps[i][1] \notin {"HELLO", "SETOPT"}
       /\ stat[e] = "up" /\ Head1(e) \notin Asking /\ Head1(e) # "SETOPT" /\ ~(0 >= LostTime)
       /\ e # "acc"
  BY <1>0a, <1>2, <1>3, <1>5 DEF LostTime, Asking
<1> QED  BY <1>2, <1>4, <1>5, <1>7, <1>13, <1>14, <1>16, <1>17, ClientStep

\* The client sends.
LEMMA DataInv ==
  ASSUME IInv, Data
  PROVE  IInv'
<1>0. PICK ps : ps = << <<"SEND">> >>  OBVIOUS
<1>0a. PICK e \in End : e = "con"  BY Peers
<1> DEFINE k == since[e]
           l == IF since[e] = NoTime THEN 0 ELSE since[e] - idle[e]
<1>1. /\ TypeLink /\ TypeRelay /\ TypeClock /\ LinkInv /\ AgentInv /\ CreditInv /\ ClockInv
  BY PartsOf
<1>2. /\ ps \in Seq(Packet) /\ ps # <<>> /\ Len(ps) = 1
      /\ \A i \in 1..Len(ps) : ps[i][1] = "SEND"
      /\ \A u : Count(ps, u) = IF "SEND" = u THEN 1 ELSE 0
  BY <1>0, OnePacket DEF Plain
<1>3. Moved(e, FALSE, ps)  BY <1>0, <1>0a, <1>1, <1>2, WriteOnly DEF Data
<1>4. /\ stat["con"] = "up" /\ agent["con"] = "open" /\ out < Window /\ out' = out + 1
      /\ idle' = [idle EXCEPT ![e] = 0] /\ since' = since /\ lag' = [lag EXCEPT ![e] = l]
      /\ UNCHANGED <<stat, stale, agent, buf, size, faults>>
  BY <1>0a DEF Data, Event, Wrote
<1>5. out \in Nat /\ buf \in Nat /\ Window \in Nat  BY <1>1, SizesAssumption DEF TypeRelay
<1>6. TypeRelay'  BY <1>1, <1>4, <1>5 DEF TypeRelay
<1>7. /\ \A t : C("con", t)' = C("con", t)
      /\ C("acc", "CONNECTED")' = C("acc", "CONNECTED") /\ C("acc", "SENT")' = C("acc", "SENT")
      /\ C("acc", "CONNECT")' = C("acc", "CONNECT")
      /\ C("acc", "SEND")' = C("acc", "SEND") + IF conn["con"] = "open" THEN 1 ELSE 0
  <2>1. \A t : /\ C("con", t)' = C("con", t) /\ C("acc", t) \in Nat
               /\ C("acc", t)' = C("acc", t) + IF conn["con"] = "open" THEN Count(ps, t) ELSE 0
    BY <1>0a, <1>1, <1>2, <1>3, CountsCon
  <2>2. \A t : t # "SEND" => C("acc", t)' = C("acc", t)  BY <1>2, <2>1
  <2> QED  BY <1>2, <2>1, <2>2
<1>9. Linked' <=> Linked  BY <1>3 DEF Linked, Moved
<1>10. conn["con"] = "open" <=> Linked  BY <1>1, <1>4, Peers, OpenLinked DEF Linked
<1>11. C("acc", "SEND") \in Nat /\ C("con", "SENT") \in Nat /\ C("con", "CONNECTED") \in Nat
  BY <1>1, CountsType, Peers
<1>12. Linked => /\ agent["acc"] = "open" /\ C("con", "CONNECTED") = 0
                 /\ C("acc", "SEND") + buf + C("con", "SENT") = out
                 /\ C("acc", "SEND")' = C("acc", "SEND") + 1
  BY <1>1, <1>4, <1>7, <1>10 DEF CreditInv
<1>13. ~Linked => C("acc", "SEND")' = C("acc", "SEND")  BY <1>7, <1>10, <1>11
<1>14. AgentInv'
  <2>1. \A x \in End : stat'[x] # "up" => agent'[x] = "none"  BY <1>1, <1>4 DEF AgentInv
  <2>2. C("acc", "SEND")' > 0 => agent["acc"] = "open"  BY <1>1, <1>12, <1>13 DEF AgentInv
  <2>3. buf + C("acc", "SEND")' <= Window
    <3>1. CASE Linked  BY <1>4, <1>5, <1>11, <1>12, <3>1
    <3>2. CASE ~Linked  BY <1>1, <1>13, <3>2 DEF AgentInv
    <3> QED  BY <3>1, <3>2
  <2>4. C("con", "SENT")' <= out'
    <3>1. C("con", "SENT") <= out  BY <1>1 DEF AgentInv
    <3> QED  BY <1>4, <1>5, <1>7, <1>11, <3>1
  <2> QED  BY <1>1, <1>4, <1>7, <2>1, <2>2, <2>3, <2>4 DEF AgentInv
<1>15. CreditInv'
  <2> SUFFICES ASSUME Linked PROVE CreditInv'  BY <1>9 DEF CreditInv
  <2>1. C("acc", "SEND")' + buf + C("con", "SENT") = out'  BY <1>4, <1>5, <1>11, <1>12
  <2> QED  BY <1>4, <1>7, <1>12, <2>1 DEF CreditInv
<1>16. k \in 0..NoTime /\ l \in 0..Unread /\ since' = [since EXCEPT ![e] = k]
  <2>1. since[e] >= idle[e]  BY <1>1 DEF ClockInv
  <2> QED  BY <1>1, <1>4, <2>1, Times
<1> HIDE DEF k, l
<1>17. Linked => Awaits(e)'
  <2>1. 1 \in 1..Len(ps) /\ ps[1][1] \in Asking  BY <1>2 DEF Asking
  <2> QED  BY <1>1, <1>2, <1>3, <2>1, AwaitsWritten
<1>18. /\ \A i \in 1..Len(ps) : ps[i][1] \notin {"HELLO", "SETOPT"}
       /\ stat[e] = "up"
  BY <1>0a, <1>2, <1>4
<1> QED  BY <1>2, <1>3, <1>4, <1>6, <1>14, <1>15, <1>16, <1>17, <1>18, ClientStep

\* The server takes what was sent, and SENT answers it.
LEMMA RecvSendTaken ==
  ASSUME IInv, RecvSend, buf = 0, Write("acc", << <<"SENT">> >>, Rest("acc")), buf' = buf
  PROVE  IInv'
<1>0. PICK ps : ps = << <<"SENT">> >>  OBVIOUS
<1>0a. PICK e \in End : e = "acc"  BY Peers
<1> DEFINE k == idle[e]
<1>1. /\ TypeLink /\ TypeRelay /\ TypeClock /\ LinkInv /\ AgentInv /\ CreditInv /\ ClockInv
  BY PartsOf
<1>2. /\ ps \in Seq(Packet) /\ ps # <<>>
      /\ \A i \in 1..Len(ps) : ps[i][1] = "SENT"
      /\ \A u : Count(ps, u) = IF "SENT" = u THEN 1 ELSE 0
  BY <1>0, OnePacket DEF Plain
<1>3. Readable(e) /\ Head1(e) = "SEND"  BY <1>0a DEF RecvSend
<1>4. Moved(e, TRUE, ps)  BY <1>0, <1>0a, <1>1, <1>2, <1>3, ReadWrite DEF RecvSend
<1>5. /\ stat["acc"] = "up" /\ agent["acc"] = "open"
      /\ idle' = [idle EXCEPT ![e] = 0] /\ since' = [since EXCEPT ![e] = k]
      /\ lag' = [lag EXCEPT ![e] = 0]
      /\ UNCHANGED <<stat, stale, agent, out, buf, size, faults>>
  BY <1>0a DEF RecvSend, Heard
<1>6. out \in Nat /\ buf \in Nat /\ Window \in Nat  BY <1>1, SizesAssumption DEF TypeRelay
<1>7. TypeRelay'  BY <1>1, <1>5 DEF TypeRelay
<1>8. /\ C("con", "CONNECT")' = C("con", "CONNECT") /\ C("con", "SEND")' = C("con", "SEND")
      /\ C("con", "CONNECTED")' = C("con", "CONNECTED")
      /\ C("acc", "CONNECTED")' = C("acc", "CONNECTED") /\ C("acc", "SENT")' = C("acc", "SENT")
      /\ C("acc", "CONNECT")' = C("acc", "CONNECT")
      /\ C("acc", "SEND")' = C("acc", "SEND") - 1 /\ C("acc", "SEND") > 0
      /\ C("con", "SENT")' = C("con", "SENT") + IF conn["acc"] = "open" THEN 1 ELSE 0
  <2>1. \A t : /\ C("acc", t)' = IF "SEND" = t THEN C("acc", t) - 1 ELSE C("acc", t)
               /\ "SEND" = t => C("acc", t) > 0
               /\ C("con", t) \in Nat
               /\ C("con", t)' = C("con", t) + IF conn["acc"] = "open" THEN Count(ps, t) ELSE 0
    BY <1>0a, <1>1, <1>2, <1>3, <1>4, CountsAcc
  <2>2. \A t : t # "SENT" => C("con", t)' = C("con", t)  BY <1>2, <2>1
  <2> QED  BY <1>2, <2>1, <2>2
<1>9. Linked' <=> Linked  BY <1>4 DEF Linked, Moved
<1>10. conn["acc"] = "open" <=> Linked  BY <1>1, <1>5, Peers, OpenLinked DEF Linked
<1>11. C("acc", "SEND") \in Nat /\ C("con", "SENT") \in Nat  BY <1>1, CountsType, Peers
<1>12. Linked => /\ C("acc", "SEND") + buf + C("con", "SENT") = out
                 /\ C("con", "SENT")' = C("con", "SENT") + 1
  BY <1>1, <1>8, <1>10 DEF CreditInv
<1>13. ~Linked => C("con", "SENT")' = C("con", "SENT")  BY <1>8, <1>10, <1>11
<1>14. AgentInv'
  <2>1. \A x \in End : stat'[x] # "up" => agent'[x] = "none"  BY <1>1, <1>5 DEF AgentInv
  <2>2. C("con", "SENT")' <= out
    <3>1. CASE Linked  BY <1>6, <1>8, <1>11, <1>12, <3>1
    <3>2. CASE ~Linked  BY <1>1, <1>13, <3>2 DEF AgentInv
    <3> QED  BY <3>1, <3>2
  <2>3. C("con", "SENT")' > 0 => agent["con"] = "open"
    <3>1. C("con", "SENT")' \in Nat  BY <1>11, <1>12, <1>13
    <3>2. C("con", "SENT")' > 0 => out # 0  BY <1>6, <2>2, <3>1
    <3> QED  BY <1>1, <3>2 DEF AgentInv
  <2>4. buf + C("acc", "SEND")' <= Window
    <3>1. buf + C("acc", "SEND") <= Window  BY <1>1 DEF AgentInv
    <3> QED  BY <1>6, <1>8, <1>11, <3>1
  <2> QED  BY <1>1, <1>5, <1>8, <2>1, <2>2, <2>3, <2>4 DEF AgentInv
<1>15. CreditInv'
  <2> SUFFICES ASSUME Linked PROVE CreditInv'  BY <1>9 DEF CreditInv
  <2>1. C("acc", "SEND")' + buf + C("con", "SENT")' = out  BY <1>6, <1>8, <1>11, <1>12
  <2>2. /\ agent["con"] = "none" => agent["acc"] = "none" /\ C("acc", "CONNECT") = 0
        /\ agent["con"] = "asked" =>
             \/ agent["acc"] = "none" /\ C("acc", "CONNECT") = 1 /\ C("con", "CONNECTED") = 0
             \/ agent["acc"] = "open" /\ C("acc", "CONNECT") = 0 /\ C("con", "CONNECTED") = 1
        /\ agent["con"] = "open" => agent["acc"] = "open" /\ C("con", "CONNECTED") = 0
    BY <1>1 DEF CreditInv
  <2> QED  BY <1>5, <1>8, <2>1, <2>2 DEF CreditInv
<1>16. k \in 0..NoTime /\ k <= IdleTime /\ 0 \in 0..Unread  BY <1>1, Times
<1> HIDE DEF k
<1>17. /\ \A i \in 1..Len(ps) : ps[i][1] \notin {"HELLO", "SETOPT"}
       /\ stat[e] = "up" /\ Head1(e) # "SETOPT" /\ ~(0 >= LostTime)
  BY <1>0a, <1>2, <1>3, <1>5 DEF LostTime
<1> QED  BY <1>2, <1>4, <1>5, <1>7, <1>14, <1>15, <1>16, <1>17, ClientStep

\* The server does not take it: it is held.
LEMMA RecvSendHeld ==
  ASSUME IInv, RecvSend, buf' = buf + 1, chan' = Rest("acc")
  PROVE  IInv'
<1>0. PICK ps : ps = << >>  OBVIOUS
<1>0a. PICK e \in End : e = "acc"  BY Peers
<1> DEFINE k == idle[e]
<1>1. /\ TypeLink /\ TypeRelay /\ TypeClock /\ LinkInv /\ AgentInv /\ CreditInv /\ ClockInv
  BY PartsOf
<1>2. ps \in Seq(Packet) /\ Len(ps) = 0 /\ \A u : Count(ps, u) = 0  BY <1>0, CountNone
<1>3. Readable(e) /\ Head1(e) = "SEND"  BY <1>0a DEF RecvSend
<1>4. Moved(e, TRUE, ps)  BY <1>0, <1>0a, <1>1, <1>3, ReadOnly DEF RecvSend
<1>5. /\ stat["acc"] = "up" /\ agent["acc"] = "open"
      /\ idle' = [idle EXCEPT ![e] = 0] /\ since' = [since EXCEPT ![e] = k]
      /\ lag' = [lag EXCEPT ![e] = 0]
      /\ UNCHANGED <<stat, stale, agent, out, size, faults>>
  BY <1>0a DEF RecvSend, Heard
<1>6. out \in Nat /\ buf \in Nat /\ Window \in Nat  BY <1>1, SizesAssumption DEF TypeRelay
<1>8. /\ \A t : C("con", t)' = C("con", t)
      /\ C("acc", "CONNECTED")' = C("acc", "CONNECTED") /\ C("acc", "SENT")' = C("acc", "SENT")
      /\ C("acc", "CONNECT")' = C("acc", "CONNECT")
      /\ C("acc", "SEND")' = C("acc", "SEND") - 1 /\ C("acc", "SEND") > 0
  <2>1. \A t : /\ C("acc", t)' = IF "SEND" = t THEN C("acc", t) - 1 ELSE C("acc", t)
               /\ "SEND" = t => C("acc", t) > 0
               /\ C("con", t) \in Nat
               /\ C("con", t)' = C("con", t) + IF conn["acc"] = "open" THEN Count(ps, t) ELSE 0
    BY <1>0a, <1>1, <1>2, <1>3, <1>4, CountsAcc
  <2>2. \A t : C("con", t)' = C("con", t)  BY <1>2, <2>1
  <2> QED  BY <2>1, <2>2
<1>9. Linked' <=> Linked  BY <1>4 DEF Linked, Moved
<1>11. C("acc", "SEND") \in Nat /\ C("con", "SENT") \in Nat  BY <1>1, CountsType, Peers
<1>12. buf + C("acc", "SEND") <= Window  BY <1>1 DEF AgentInv
<1>13. buf' \in 0..Window /\ buf' > 0 /\ buf' + C("acc", "SEND")' <= Window
  BY <1>6, <1>8, <1>11, <1>12
<1>7. TypeRelay'  BY <1>1, <1>5, <1>13 DEF TypeRelay
<1>14. AgentInv'
  <2>1. \A x \in End : stat'[x] # "up" => agent'[x] = "none"  BY <1>1, <1>5 DEF AgentInv
  <2> QED  BY <1>1, <1>5, <1>8, <1>13, <2>1 DEF AgentInv
<1>15. CreditInv'
  <2> SUFFICES ASSUME Linked PROVE CreditInv'  BY <1>9 DEF CreditInv
  <2>0. C("acc", "SEND") + buf + C("con", "SENT") = out  BY <1>1 DEF CreditInv
  <2>1. C("acc", "SEND")' + buf' + C("con", "SENT")' = out  BY <1>6, <1>8, <1>11, <2>0
  <2>2. /\ agent["con"] = "none" => agent["acc"] = "none" /\ C("acc", "CONNECT") = 0
        /\ agent["con"] = "asked" =>
             \/ agent["acc"] = "none" /\ C("acc", "CONNECT") = 1 /\ C("con", "CONNECTED") = 0
             \/ agent["acc"] = "open" /\ C("acc", "CONNECT") = 0 /\ C("con", "CONNECTED") = 1
        /\ agent["con"] = "open" => agent["acc"] = "open" /\ C("con", "CONNECTED") = 0
    BY <1>1 DEF CreditInv
  <2> QED  BY <1>5, <1>8, <2>1, <2>2 DEF CreditInv
<1>16. k \in 0..NoTime /\ k <= IdleTime /\ 0 \in 0..Unread  BY <1>1, Times
<1> HIDE DEF k
<1>17. /\ \A i \in 1..Len(ps) : ps[i][1] \notin {"HELLO", "SETOPT"}
       /\ stat[e] = "up" /\ Head1(e) # "SETOPT" /\ ~(0 >= LostTime) /\ e # "con"
  BY <1>0a, <1>2, <1>3, <1>5 DEF LostTime
<1> QED  BY <1>0a, <1>2, <1>4, <1>5, <1>7, <1>13, <1>14, <1>15, <1>16, <1>17, ClientStep

\* A packet of the client comes to "acc".
LEMMA RecvSendInv ==
  ASSUME IInv, RecvSend
  PROVE  IInv'
  BY RecvSendTaken, RecvSendHeld DEF RecvSend

\* Who awaits something and only writes still awaits it.
LEMMA AwaitsKept ==
  ASSUME TypeLink, Linked, NEW e \in End, e = "acc", NEW ps \in Seq(Packet),
         Moved(e, FALSE, ps), Awaits(e)
  PROVE  Awaits(e)'
<1> DEFINE u == chan[Peer(e)]
           u1 == chan'[Peer(e)]
<1>1. u \in Seq(Packet) /\ u1 = u \o ps /\ chan'[e] = chan[e]
  BY Peers DEF TypeLink, Linked, Moved
<1>2. (\E j \in 1..Len(u1) : u1[j][1] \in Asking) \/ chan[e] # <<>> => Awaits(e)'
  BY <1>1 DEF Awaits, Asking
<1>3. (\E j \in 1..Len(u) : u[j][1] \in Asking) \/ chan[e] # <<>>  BY DEF Awaits, Asking
<1> HIDE DEF u, u1
<1>4. ASSUME NEW j \in 1..Len(u) PROVE j \in 1..Len(u1) /\ u1[j] = u[j]  BY <1>1, AtConcat
<1> QED  BY <1>2, <1>3, <1>4

\* The server reads again, and what was held is answered.
LEMMA FlushInv ==
  ASSUME IInv, Flush
  PROVE  IInv'
<1>0. PICK ps : ps = [i \in 1..buf |-> <<"SENT">>]  OBVIOUS
<1>0a. PICK e \in End : e = "acc"  BY Peers
<1> DEFINE k == since[e]
           l == IF since[e] = NoTime THEN 0 ELSE since[e] - idle[e]
<1>1. /\ TypeLink /\ TypeRelay /\ TypeClock /\ LinkInv /\ AgentInv /\ CreditInv /\ ClockInv
  BY PartsOf
<1>6. out \in Nat /\ buf \in Nat /\ Window \in Nat /\ buf > 0
  BY <1>1, SizesAssumption DEF TypeRelay, Flush
<1>2. /\ ps \in Seq(Packet) /\ Len(ps) = buf
      /\ \A u : Count(ps, u) = IF u = "SENT" THEN buf ELSE 0
  BY <1>0, <1>6, CountSent
<1>2a. ps # <<>> /\ \A i \in 1..Len(ps) : ps[i][1] = "SENT"
  <2>1. ps # <<>>  BY <1>2, <1>6
  <2>2. \A i \in 1..Len(ps) : ps[i] = <<"SENT">>  BY <1>0, <1>2
  <2> QED  BY <2>1, <2>2
<1>4. Moved(e, FALSE, ps)  BY <1>0, <1>0a, <1>1, <1>2, WriteOnly DEF Flush
<1>5. /\ stat["acc"] = "up" /\ buf' = 0
      /\ idle' = [idle EXCEPT ![e] = 0] /\ since' = since /\ lag' = [lag EXCEPT ![e] = l]
      /\ UNCHANGED <<stat, stale, agent, out, size, faults>>
  BY <1>0a DEF Flush, Event, Wrote
<1>7. TypeRelay'
  <2>1. 0 \in 0..Window  BY <1>6
  <2> QED  BY <1>1, <1>5, <2>1 DEF TypeRelay
<1>8. /\ \A t : C("acc", t)' = C("acc", t)
      /\ C("con", "CONNECT")' = C("con", "CONNECT") /\ C("con", "SEND")' = C("con", "SEND")
      /\ C("con", "CONNECTED")' = C("con", "CONNECTED")
      /\ C("con", "SENT")' = C("con", "SENT") + IF conn["acc"] = "open" THEN buf ELSE 0
  <2>1. \A t : /\ C("acc", t)' = C("acc", t) /\ C("con", t) \in Nat
               /\ C("con", t)' = C("con", t) + IF conn["acc"] = "open" THEN Count(ps, t) ELSE 0
    BY <1>0a, <1>1, <1>2, <1>4, CountsAcc
  <2>2. \A t : t # "SENT" => C("con", t)' = C("con", t)  BY <1>2, <2>1
  <2> QED  BY <1>2, <2>1, <2>2
<1>9. Linked' <=> Linked  BY <1>4 DEF Linked, Moved
<1>10. conn["acc"] = "open" <=> Linked  BY <1>1, <1>5, Peers, OpenLinked DEF Linked
<1>11. C("acc", "SEND") \in Nat /\ C("con", "SENT") \in Nat  BY <1>1, CountsType, Peers
<1>12. Linked => /\ C("acc", "SEND") + buf + C("con", "SENT") = out
                 /\ C("con", "SENT")' = C("con", "SENT") + buf
  BY <1>1, <1>8, <1>10 DEF CreditInv
<1>13. ~Linked => C("con", "SENT")' = C("con", "SENT")  BY <1>8, <1>10, <1>11
<1>14. AgentInv'
  <2>1. \A x \in End : stat'[x] # "up" => agent'[x] = "none"  BY <1>1, <1>5 DEF AgentInv
  <2>2. C("con", "SENT")' <= out
    <3>1. CASE Linked  BY <1>6, <1>11, <1>12, <3>1
    <3>2. CASE ~Linked  BY <1>1, <1>13, <3>2 DEF AgentInv
    <3> QED  BY <3>1, <3>2
  <2>3. C("con", "SENT")' > 0 => agent["con"] = "open"
    <3>1. C("con", "SENT")' \in Nat  BY <1>6, <1>11, <1>12, <1>13
    <3>2. C("con", "SENT")' > 0 => out # 0  BY <1>6, <2>2, <3>1
    <3> QED  BY <1>1, <3>2 DEF AgentInv
  <2>4. buf' + C("acc", "SEND")' <= Window
    <3>1. buf + C("acc", "SEND") <= Window  BY <1>1 DEF AgentInv
    <3> QED  BY <1>5, <1>6, <1>8, <1>11, <3>1
  <2> QED  BY <1>1, <1>5, <1>8, <2>1, <2>2, <2>3, <2>4 DEF AgentInv
<1>15. CreditInv'
  <2> SUFFICES ASSUME Linked PROVE CreditInv'  BY <1>9 DEF CreditInv
  <2>1. C("acc", "SEND")' + buf' + C("con", "SENT")' = out  BY <1>5, <1>6, <1>8, <1>11, <1>12
  <2>2. /\ agent["con"] = "none" => agent["acc"] = "none" /\ C("acc", "CONNECT") = 0
        /\ agent["con"] = "asked" =>
             \/ agent["acc"] = "none" /\ C("acc", "CONNECT") = 1 /\ C("con", "CONNECTED") = 0
             \/ agent["acc"] = "open" /\ C("acc", "CONNECT") = 0 /\ C("con", "CONNECTED") = 1
        /\ agent["con"] = "open" => agent["acc"] = "open" /\ C("con", "CONNECTED") = 0
    BY <1>1 DEF CreditInv
  <2> QED  BY <1>5, <1>8, <2>1, <2>2 DEF CreditInv
<1>16. k \in 0..NoTime /\ l \in 0..Unread /\ since' = [since EXCEPT ![e] = k]
  <2>1. since[e] >= idle[e]  BY <1>1 DEF ClockInv
  <2> QED  BY <1>1, <1>5, <2>1, Times
<1>17. Linked /\ l >= LostTime => Awaits(e)'
  <2> SUFFICES ASSUME Linked, l >= LostTime PROVE Awaits(e)'  OBVIOUS
  <2>1. since[e] - idle[e] <= IdleTime \/ Awaits(e)  BY <1>0a, <1>1, <1>6 DEF ClockInv
  <2>2. ~(since[e] - idle[e] <= IdleTime)
    <3>1. since[e] \in Nat /\ idle[e] \in Nat /\ LostTime = 4 /\ IdleTime = 2
      BY <1>1 DEF TypeClock, LostTime, IdleTime, NoTime, Unread
    <3> QED  BY <3>1
  <2>3. Awaits(e)  BY <2>1, <2>2
  <2> QED  BY <1>0a, <1>1, <1>2, <1>4, <2>3, AwaitsKept
<1> HIDE DEF k, l
<1>18. /\ \A i \in 1..Len(ps) : ps[i][1] \notin {"HELLO", "SETOPT"}
       /\ stat[e] = "up" /\ e # "con" /\ ~(buf' > 0)
  BY <1>0a, <1>2a, <1>5
<1> QED
  BY <1>2, <1>2a, <1>4, <1>5, <1>7, <1>14, <1>15, <1>16, <1>17, <1>18, ClientStep

\* A packet of the client is answered.
LEMMA RecvSentInv ==
  ASSUME IInv, RecvSent
  PROVE  IInv'
<1>0. PICK ps : ps = << >>  OBVIOUS
<1>0a. PICK e \in End : e = "con"  BY Peers
<1> DEFINE k == idle[e]
<1>1. /\ TypeLink /\ TypeRelay /\ TypeClock /\ LinkInv /\ AgentInv /\ CreditInv /\ ClockInv
  BY PartsOf
<1>2. ps \in Seq(Packet) /\ Len(ps) = 0 /\ \A u : Count(ps, u) = 0  BY <1>0, CountNone
<1>3. Readable(e) /\ Head1(e) = "SENT"  BY <1>0a DEF RecvSent
<1>4. Moved(e, TRUE, ps)  BY <1>0, <1>0a, <1>1, <1>3, ReadOnly DEF RecvSent
<1>5. /\ stat["con"] = "up" /\ agent["con"] = "open" /\ out' = out - 1
      /\ idle' = [idle EXCEPT ![e] = 0] /\ since' = [since EXCEPT ![e] = k]
      /\ lag' = [lag EXCEPT ![e] = 0]
      /\ UNCHANGED <<stat, stale, agent, buf, size, faults>>
  BY <1>0a DEF RecvSent, Heard
<1>6. out \in Nat /\ buf \in Nat /\ Window \in Nat  BY <1>1, SizesAssumption DEF TypeRelay
<1>8. /\ C("con", "CONNECT")' = C("con", "CONNECT") /\ C("con", "SEND")' = C("con", "SEND")
      /\ C("con", "CONNECTED")' = C("con", "CONNECTED")
      /\ C("con", "SENT")' = C("con", "SENT") - 1 /\ C("con", "SENT") > 0
      /\ \A t : C("acc", t)' = C("acc", t)
  <2>1. \A t : /\ C("con", t)' = IF "SENT" = t THEN C("con", t) - 1 ELSE C("con", t)
               /\ "SENT" = t => C("con", t) > 0
               /\ C("acc", t) \in Nat
               /\ C("acc", t)' = C("acc", t) + IF conn["con"] = "open" THEN Count(ps, t) ELSE 0
    BY <1>0a, <1>1, <1>2, <1>3, <1>4, CountsCon
  <2>2. \A t : C("acc", t)' = C("acc", t)  BY <1>2, <2>1
  <2> QED  BY <2>1, <2>2
<1>9. Linked' <=> Linked  BY <1>4 DEF Linked, Moved
<1>11. C("acc", "SEND") \in Nat /\ C("con", "SENT") \in Nat  BY <1>1, CountsType, Peers
<1>12. C("con", "SENT") <= out  BY <1>1 DEF AgentInv
<1>13. out' \in Nat /\ out' <= out /\ C("con", "SENT")' <= out'  BY <1>5, <1>6, <1>8, <1>11, <1>12
<1>7. TypeRelay'
  <2>1. out' \in 0..Window
    <3>1. out \in 0..Window  BY <1>1 DEF TypeRelay
    <3> QED  BY <1>6, <1>13, <3>1
  <2> QED  BY <1>1, <1>5, <2>1 DEF TypeRelay
<1>14. AgentInv'
  <2>1. \A x \in End : stat'[x] # "up" => agent'[x] = "none"  BY <1>1, <1>5 DEF AgentInv
  <2> QED  BY <1>1, <1>5, <1>8, <1>13, <2>1 DEF AgentInv
<1>15. CreditInv'
  <2> SUFFICES ASSUME Linked PROVE CreditInv'  BY <1>9 DEF CreditInv
  <2>0. C("acc", "SEND") + buf + C("con", "SENT") = out  BY <1>1 DEF CreditInv
  <2>1. C("acc", "SEND") + buf + C("con", "SENT")' = out'  BY <1>5, <1>6, <1>8, <1>11, <2>0
  <2>2. agent["acc"] = "open" /\ C("con", "CONNECTED") = 0  BY <1>1, <1>5 DEF CreditInv
  <2> QED  BY <1>5, <1>8, <2>1, <2>2 DEF CreditInv
<1>16. k \in 0..NoTime /\ k <= IdleTime /\ 0 \in 0..Unread  BY <1>1, Times
<1> HIDE DEF k
<1>17. /\ \A i \in 1..Len(ps) : ps[i][1] \notin {"HELLO", "SETOPT"}
       /\ stat[e] = "up" /\ Head1(e) \notin Asking /\ Head1(e) # "SETOPT" /\ ~(0 >= LostTime)
       /\ e # "acc"
  BY <1>0a, <1>2, <1>3, <1>5 DEF LostTime, Asking
<1> QED  BY <1>2, <1>4, <1>5, <1>7, <1>14, <1>15, <1>16, <1>17, ClientStep

-----------------------------------------------------------------------------
(* The steps that make, close or lose the connection, and time. *)

\* While the ends do not have the same connection little is asked.
LEMMA Apart ==
  ASSUME ~Linked',
         \A x \in End : /\ since'[x] >= idle'[x]
                        /\ stat'[x] = "hello" => idle'[x] <= HelloTime
                        /\ stat'[x] = "down" => idle'[x] = 0
                        /\ stat'[x] # "up" => lag'[x] = 0
  PROVE  CreditInv' /\ SizeInv' /\ ClockInv'
  BY DEF CreditInv, SizeInv, ClockInv

\* What is on its way to an end, after a step that does not read it.
LEMMA CountsAfter ==
  ASSUME NEW e \in End
  PROVE  /\ chan'[e] = chan[e] => \A t : C(e, t)' = C(e, t)
         /\ chan'[e] = <<>> => \A t : C(e, t)' = 0
         /\ chan'[e] = << <<"HELLO">> >> => \A t \in ClientTypes : C(e, t)' = 0
<1>1. \A t : C(e, t)' = Count(chan'[e], t) /\ C(e, t) = Count(chan[e], t)
  BY DEF C, Count, At
<1>2. ASSUME chan'[e] = << <<"HELLO">> >> PROVE \A t \in ClientTypes : C(e, t)' = 0
  <2>1. \A u : Count(chan'[e], u) = IF "HELLO" = u THEN 1 ELSE 0
    BY <1>2, OnePacket DEF Plain
  <2> QED  BY <1>1, <2>1 DEF ClientTypes
<1>3. chan'[e] = <<>> => \A t : C(e, t)' = 0  BY <1>1, CountNone
<1> QED  BY <1>1, <1>2, <1>3

\* HELLO alone, and nothing, are the beginning of a session.
LEMMA OpeningHello ==
  /\ << <<"HELLO">> >> \in Seq(Packet) /\ << <<"HELLO">> >> # <<>>
  /\ Opening(<< <<"HELLO">> >>) /\ Opening(<<>>)
<1>1. PICK ps : ps = << <<"HELLO">> >>  OBVIOUS
<1>2. ps \in Seq(Packet) /\ ps # <<>> /\ Len(ps) = 1 /\ ps[1][1] = "HELLO"
  BY <1>1, OnePacket DEF Plain
<1>3. Opening(ps)
  <2>1. \A i \in 1..Len(ps) : i = 1  BY <1>2
  <2> QED  BY <1>2, <2>1 DEF Opening
<1>4. Opening(<<>>)  BY DEF Opening
<1> QED  BY <1>1, <1>2, <1>3, <1>4

\* e closes its connection and its clients.
Closed(e, k) ==
  /\ stat' = [stat EXCEPT ![e] = "down"]
  /\ conn' \in [End -> {"none", "open", "eof", "cut"}] /\ conn'[e] = "none"
  /\ conn'[Peer(e)] = IF conn[Peer(e)] = "open" /\ ~pend' THEN "eof" ELSE conn[Peer(e)]
  /\ pend' \in BOOLEAN /\ (pend' => pend /\ e = "acc") /\ stale' \in BOOLEAN
  /\ chan' = [chan EXCEPT ![e] = <<>>]
  /\ agent' = [agent EXCEPT ![e] = "none"]
  /\ IF e = "con" THEN out' = 0 /\ buf' = buf ELSE buf' = 0 /\ out' = out
  /\ since' = [since EXCEPT ![e] = k]
  /\ lag' = [lag EXCEPT ![e] = 0] /\ idle' = [idle EXCEPT ![e] = 0]

\* Nothing of the session is left at an end that has closed it.
LEMMA ClosedInv ==
  ASSUME IInv, NEW e \in End, NEW k \in 0..NoTime, Closed(e, k),
         TypeSize', (faults \in 0..MaxFaults)'
  PROVE  IInv'
<1> DEFINE p == Peer(e)
<1>1. /\ TypeLink /\ TypeRelay /\ TypeClock
      /\ LinkInv /\ HelloInv /\ AgentInv /\ CreditInv /\ SizeInv /\ ClockInv
  BY PartsOf
<1>2. p \in End /\ p # e /\ Peer(p) = e /\ (p = "con" <=> e = "acc") /\ (p = "acc" <=> e = "con")
  BY Peers DEF End
<1>3. /\ stat \in [End -> {"down", "hello", "up"}] /\ chan \in [End -> Seq(Packet)]
      /\ agent \in [End -> {"none", "asked", "open"}]
      /\ since \in [End -> 0..NoTime] /\ lag \in [End -> 0..Unread] /\ idle \in [End -> 0..IdleTime]
  BY <1>1 DEF TypeLink, TypeRelay, TypeClock
<1>4. /\ stat'[e] = "down" /\ chan'[e] = <<>> /\ agent'[e] = "none" /\ conn'[e] = "none"
      /\ since'[e] = k /\ lag'[e] = 0 /\ idle'[e] = 0
      /\ stat'[p] = stat[p] /\ chan'[p] = chan[p] /\ agent'[p] = agent[p]
      /\ since'[p] = since[p] /\ lag'[p] = lag[p] /\ idle'[p] = idle[p]
  BY <1>2, <1>3 DEF Closed
<1>5. conn'[p] = (IF conn[p] = "open" /\ ~pend' THEN "eof" ELSE conn[p]) /\ (pend' => pend /\ e = "acc")
  BY DEF Closed
<1>6. TypeLink'
  <2>1. <<>> \in Seq(Packet)  OBVIOUS
  <2> QED  BY <1>3, <2>1 DEF TypeLink, Closed
<1>7. TypeClock'
  <2>1. 0 \in 0..Unread /\ 0 \in 0..IdleTime  BY DEF Unread, IdleTime, LostTime
  <2> QED  BY <1>3, <2>1 DEF TypeClock, Closed
<1>8. TypeRelay'
  <2>1. 0 \in 0..Window  BY SizesAssumption
  <2>2. out \in 0..Window /\ buf \in 0..Window /\ agent["acc"] # "asked"  BY <1>1 DEF TypeRelay
  <2>3. out' \in 0..Window /\ buf' \in 0..Window  BY <2>1, <2>2 DEF Closed
  <2>4. agent' \in [End -> {"none", "asked", "open"}]  BY <1>3 DEF Closed
  <2>5. agent'["acc"] # "asked"  BY <1>2, <1>4, <2>2, Peers
  <2> QED  BY <2>3, <2>4, <2>5 DEF TypeRelay
<1>9. ~Linked'  BY <1>4 DEF Linked
<1>10. LinkInv'
  <2>1. ASSUME NEW x \in End PROVE stat'[x] = "down" <=> conn'[x] = "none"
    <3>1. CASE x = e  BY <1>4, <3>1
    <3>2. CASE x = p  BY <1>1, <1>2, <1>4, <1>5, <3>2 DEF LinkInv
    <3> QED  BY <3>1, <3>2, Peers
  <2>2. pend' => /\ conn'["con"] = "open" /\ stat'["con"] = "hello"
                 /\ conn'["acc"] # "open" /\ chan'["con"] = <<>>
    BY <1>1, <1>2, <1>4, <1>5 DEF LinkInv
  <2>3. conn'["con"] = "open" => pend'
    <3>1. CASE e = "con"  BY <1>4, <3>1
    <3>2. CASE p = "con"  BY <1>5, <3>2
    <3> QED  BY <3>1, <3>2, Peers
  <2>4. conn'["acc"] # "open"
    <3>1. CASE e = "acc"  BY <1>4, <3>1
    <3>2. CASE p = "acc"
      <4>1. ~pend'  BY <1>2, <1>5, <3>2
      <4> QED  BY <1>5, <3>2, <4>1
    <3> QED  BY <3>1, <3>2, Peers
  <2>5. ASSUME NEW x \in End, conn'[x] \in {"none", "cut"} PROVE chan'[x] = <<>>
    <3>1. CASE x = e  BY <1>4, <3>1
    <3>2. CASE x = p
      <4>1. conn[p] \in {"none", "cut"}  BY <1>5, <2>5, <3>2
      <4> QED  BY <1>1, <1>2, <1>4, <3>2, <4>1 DEF LinkInv
    <3> QED  BY <3>1, <3>2, Peers
  <2> QED  BY <2>1, <2>2, <2>3, <2>4, <2>5 DEF LinkInv
<1>11. HelloInv'
  <2>1. ASSUME NEW x \in End
        PROVE  /\ stat'[x] = "hello" => Opening(chan'[x])
               /\ stat'[x] = "up" => \A i \in 1..Len(chan'[x]) : chan'[x][i][1] # "HELLO"
    <3>1. CASE x = e  BY <1>4, <3>1
    <3>2. CASE x = p  BY <1>1, <1>2, <1>4, <3>2 DEF HelloInv
    <3> QED  BY <3>1, <3>2, Peers
  <2> QED  BY <1>9, <2>1 DEF HelloInv
<1>12. (\A t : C(e, t)' = 0) /\ (\A t : C(p, t)' = C(p, t))  BY <1>2, <1>4, CountsAfter
<1>13. AgentInv'
  <2>1. ASSUME NEW x \in End, stat'[x] # "up" PROVE agent'[x] = "none"
    <3>1. CASE x = e  BY <1>4, <3>1
    <3>2. CASE x = p  BY <1>1, <1>2, <1>4, <2>1, <3>2 DEF AgentInv
    <3> QED  BY <3>1, <3>2, Peers
  <2>2. CASE e = "con"
    <3>1. /\ agent'["con"] = "none" /\ agent'["acc"] = agent["acc"] /\ out' = 0 /\ buf' = buf
          /\ \A t : C("con", t)' = 0 /\ C("acc", t)' = C("acc", t)
      <4>1. p = "acc"  BY <1>2, <2>2
      <4>2. out' = 0 /\ buf' = buf  BY <2>2 DEF Closed
      <4> QED  BY <1>4, <1>12, <2>2, <4>1, <4>2
    <3> QED  BY <1>1, <2>1, <3>1 DEF AgentInv
  <2>3. CASE e = "acc"
    <3>1. /\ agent'["acc"] = "none" /\ agent'["con"] = agent["con"] /\ out' = out /\ buf' = 0
          /\ \A t : C("acc", t)' = 0 /\ C("con", t)' = C("con", t)
      <4>1. p = "con"  BY <1>2, <2>3
      <4>2. out' = out /\ buf' = 0  BY <2>3 DEF Closed
      <4> QED  BY <1>4, <1>12, <2>3, <4>1, <4>2
    <3>2. 0 + 0 <= Window  BY SizesAssumption
    <3> QED  BY <1>1, <2>1, <3>1, <3>2 DEF AgentInv
  <2> QED  BY <2>2, <2>3 DEF End
<1>14. ASSUME NEW x \in End
       PROVE  /\ since'[x] >= idle'[x]
              /\ stat'[x] = "hello" => idle'[x] <= HelloTime
              /\ stat'[x] = "down" => idle'[x] = 0
              /\ stat'[x] # "up" => lag'[x] = 0
  <2>1. CASE x = e  BY <1>4, <2>1
  <2>2. CASE x = p  BY <1>1, <1>2, <1>4, <2>2 DEF ClockInv
  <2> QED  BY <2>1, <2>2, Peers
<1>15. CreditInv' /\ SizeInv' /\ ClockInv'  BY <1>9, <1>14, Apart
<1> QED  BY <1>6, <1>7, <1>8, <1>10, <1>11, <1>13, <1>15, PartsNext

\* shutdownAgents and RETRY.
LEMMA ShutdownInv ==
  ASSUME IInv, NEW e \in End, Shutdown(e), since' = Left(e), UNCHANGED <<size, faults>>
  PROVE  IInv'
<1> DEFINE p == Peer(e)
           k == IF stat[e] = "up" THEN idle[e] ELSE since[e]
<1>1. TypeLink /\ TypeRelay /\ TypeSize /\ TypeClock /\ LinkInv /\ faults \in 0..MaxFaults
  BY PartsOf
<1>2. p \in End /\ p # e /\ (p = "con" <=> e = "acc") /\ (p = "acc" <=> e = "con")
  BY Peers DEF End
<1>3. k \in 0..NoTime /\ since' = [since EXCEPT ![e] = k]  BY <1>1, Times DEF Left
<1>4. conn \in [End -> {"none", "open", "eof", "cut"}] /\ pend \in BOOLEAN /\ stale \in BOOLEAN
  BY <1>1 DEF TypeLink
<1>5. /\ conn' \in [End -> {"none", "open", "eof", "cut"}] /\ conn'[e] = "none"
      /\ conn'[p] = IF conn[e] = "open" /\ conn[p] = "open" THEN "eof" ELSE conn[p]
  BY <1>2, <1>4 DEF Shutdown
<1>6. /\ pend' \in BOOLEAN /\ stale' \in BOOLEAN /\ (pend' <=> pend /\ e = "acc")
  BY <1>4 DEF Shutdown
<1>7. conn[p] = "open" => (conn[e] = "open" <=> ~pend')
  <2>1. CASE e = "con"
    <3>1. p = "acc" /\ ~pend'  BY <1>2, <1>6, <2>1
    <3> QED  BY <1>1, <2>1, <3>1 DEF LinkInv
  <2>2. CASE e = "acc"
    <3>1. p = "con" /\ (pend' <=> pend)  BY <1>2, <1>6, <2>2
    <3> QED  BY <1>1, <2>2, <3>1 DEF LinkInv
  <2> QED  BY <2>1, <2>2 DEF End
<1>8. conn'[p] = IF conn[p] = "open" /\ ~pend' THEN "eof" ELSE conn[p]  BY <1>5, <1>7
<1>9. /\ stat' = [stat EXCEPT ![e] = "down"] /\ chan' = [chan EXCEPT ![e] = <<>>]
      /\ agent' = [agent EXCEPT ![e] = "none"]
      /\ lag' = [lag EXCEPT ![e] = 0] /\ idle' = [idle EXCEPT ![e] = 0]
      /\ IF e = "con" THEN out' = 0 /\ buf' = buf ELSE buf' = 0 /\ out' = out
  BY DEF Shutdown
<1> HIDE DEF k
<1>10. Closed(e, k)  BY <1>3, <1>5, <1>6, <1>8, <1>9 DEF Closed
<1>11. TypeSize' /\ (faults \in 0..MaxFaults)'  BY <1>1 DEF TypeSize, size
<1> QED  BY <1>3, <1>10, <1>11, ClosedInv

\* An end is started again.
LEMMA RestartInv ==
  ASSUME IInv, NEW e \in End, Restart(e)
  PROVE  IInv'
<1> DEFINE p == Peer(e)
           k == NoTime
<1>1. TypeLink /\ TypeRelay /\ TypeSize /\ TypeClock /\ LinkInv /\ faults \in 0..MaxFaults
  BY PartsOf
<1>2. p \in End /\ p # e /\ (p = "con" <=> e = "acc") /\ (p = "acc" <=> e = "con")
  BY Peers DEF End
<1>3. k \in 0..NoTime  BY DEF NoTime, Unread, LostTime, IdleTime
<1>4. conn \in [End -> {"none", "open", "eof", "cut"}] /\ pend \in BOOLEAN /\ stale \in BOOLEAN
  BY <1>1 DEF TypeLink
<1>5. /\ conn' \in [End -> {"none", "open", "eof", "cut"}] /\ conn'[e] = "none"
      /\ conn'[p] = IF conn[p] = "open" /\ (conn[e] = "open" \/ pend) THEN "eof" ELSE conn[p]
  BY <1>2, <1>4 DEF Restart
<1>6. pend' = FALSE /\ stale' \in BOOLEAN  BY <1>4 DEF Restart
<1>7. conn[p] = "open" => conn[e] = "open" \/ pend
  <2>1. CASE e = "con"
    <3>1. p = "acc"  BY <1>2, <2>1
    <3> QED  BY <1>1, <2>1, <3>1 DEF LinkInv
  <2>2. CASE e = "acc"
    <3>1. p = "con"  BY <1>2, <2>2
    <3> QED  BY <1>1, <2>2, <3>1 DEF LinkInv
  <2> QED  BY <2>1, <2>2 DEF End
<1>8. conn'[p] = IF conn[p] = "open" /\ ~pend' THEN "eof" ELSE conn[p]  BY <1>5, <1>6, <1>7
<1>9. /\ stat' = [stat EXCEPT ![e] = "down"] /\ chan' = [chan EXCEPT ![e] = <<>>]
      /\ agent' = [agent EXCEPT ![e] = "none"] /\ since' = [since EXCEPT ![e] = k]
      /\ lag' = [lag EXCEPT ![e] = 0] /\ idle' = [idle EXCEPT ![e] = 0]
      /\ IF e = "con" THEN out' = 0 /\ buf' = buf ELSE buf' = 0 /\ out' = out
  BY DEF Restart
<1> HIDE DEF k
<1>10. Closed(e, k)  BY <1>3, <1>5, <1>6, <1>8, <1>9 DEF Closed
<1>11. TypeSize'  BY <1>1 DEF TypeSize, Restart
<1>12. (faults \in 0..MaxFaults)'  BY <1>1, SizesAssumption DEF Restart, Fault
<1> QED  BY <1>3, <1>10, <1>11, <1>12, ClosedInv

\* "con" connects.
LEMMA ConnectInv ==
  ASSUME IInv, Connect
  PROVE  IInv'
<1>1. /\ TypeLink /\ TypeRelay /\ TypeSize /\ TypeClock /\ faults \in 0..MaxFaults
      /\ LinkInv /\ HelloInv /\ AgentInv /\ CreditInv /\ SizeInv /\ ClockInv
  BY PartsOf
<1>2. /\ stat["con"] = "down" /\ stat' = [stat EXCEPT !["con"] = "hello"]
      /\ conn' = [conn EXCEPT !["con"] = "open"] /\ pend' = TRUE
      /\ idle' = [idle EXCEPT !["con"] = 0]
      /\ UNCHANGED <<stale, chan, agent, out, buf, PackSize, Size, since, lag, faults>>
  BY DEF Connect, relay, size
<1>3. /\ stat'["con"] = "hello" /\ conn'["con"] = "open" /\ idle'["con"] = 0
      /\ stat'["acc"] = stat["acc"] /\ conn'["acc"] = conn["acc"] /\ idle'["acc"] = idle["acc"]
  BY <1>1, <1>2, Peers DEF TypeLink, TypeClock
<1>4. conn["con"] = "none" /\ chan["con"] = <<>> /\ conn["acc"] # "open"
  BY <1>1, <1>2, Peers DEF LinkInv
<1>5. ~Linked'  BY <1>3, <1>4, Peers DEF Linked
<1>6. TypeLink'  BY <1>1, <1>2 DEF TypeLink
<1>7. TypeRelay' /\ TypeSize' /\ (faults \in 0..MaxFaults)'
  BY <1>1, <1>2 DEF TypeRelay, TypeSize
<1>8. TypeClock'
  <2>1. 0 \in 0..IdleTime  BY DEF IdleTime
  <2> QED  BY <1>1, <1>2, <2>1 DEF TypeClock
<1>9. LinkInv'
  <2>1. ASSUME NEW x \in End
        PROVE  /\ stat'[x] = "down" <=> conn'[x] = "none"
               /\ conn'[x] \in {"none", "cut"} => chan'[x] = <<>>
    <3>1. CASE x = "con"  BY <1>3, <3>1
    <3>2. CASE x = "acc"  BY <1>1, <1>2, <1>3, <3>2 DEF LinkInv
    <3> QED  BY <3>1, <3>2 DEF End
  <2> QED  BY <1>2, <1>3, <1>4, <2>1 DEF LinkInv
<1>10. HelloInv'
  <2>1. ASSUME NEW x \in End
        PROVE  /\ stat'[x] = "hello" => Opening(chan'[x])
               /\ stat'[x] = "up" => \A i \in 1..Len(chan'[x]) : chan'[x][i][1] # "HELLO"
    <3>1. CASE x = "con"
      <4>1. stat'[x] = "hello" /\ chan'[x] = <<>>  BY <1>2, <1>3, <1>4, <3>1
      <4> QED  BY <4>1, OpeningHello
    <3>2. CASE x = "acc"  BY <1>1, <1>2, <1>3, <3>2 DEF HelloInv
    <3> QED  BY <3>1, <3>2 DEF End
  <2> QED  BY <1>5, <2>1 DEF HelloInv
<1>11. AgentInv'
  <2>1. \A x \in End : \A t : C(x, t)' = C(x, t)  BY <1>2, CountsAfter
  <2>2. \A x \in End : stat'[x] # "up" => agent'[x] = "none"
    BY <1>1, <1>2, <1>3 DEF AgentInv, End
  <2>3. /\ \A t : C("con", t)' = C("con", t)
        /\ \A t : C("acc", t)' = C("acc", t)
    BY <2>1, Peers
  <2> QED  BY <1>1, <1>2, <2>2, <2>3 DEF AgentInv
<1>12. ASSUME NEW x \in End
       PROVE  /\ since'[x] >= idle'[x]
              /\ stat'[x] = "hello" => idle'[x] <= HelloTime
              /\ stat'[x] = "down" => idle'[x] = 0
              /\ stat'[x] # "up" => lag'[x] = 0
  <2>1. CASE x = "con"
    <3>1. since'[x] \in Nat  BY <1>1, <1>2 DEF TypeClock, NoTime
    <3>2. lag'[x] = 0  BY <1>1, <1>2, <2>1 DEF ClockInv
    <3> QED  BY <1>3, <2>1, <3>1, <3>2 DEF HelloTime
  <2>2. CASE x = "acc"  BY <1>1, <1>2, <1>3, <2>2 DEF ClockInv
  <2> QED  BY <2>1, <2>2 DEF End
<1>13. CreditInv' /\ SizeInv' /\ ClockInv'  BY <1>5, <1>12, Apart
<1> QED  BY <1>6, <1>7, <1>8, <1>9, <1>10, <1>11, <1>13, PartsNext

\* "acc" accepts a connection that was given up.
LEMMA AcceptStaleInv ==
  ASSUME IInv, AcceptStale
  PROVE  IInv'
<1>1. /\ TypeLink /\ TypeRelay /\ TypeSize /\ TypeClock /\ faults \in 0..MaxFaults
      /\ LinkInv /\ HelloInv /\ AgentInv /\ CreditInv /\ SizeInv /\ ClockInv
  BY PartsOf
<1>2. /\ stat["acc"] = "down" /\ stat' = [stat EXCEPT !["acc"] = "hello"]
      /\ conn' = [conn EXCEPT !["acc"] = "eof"] /\ stale' = FALSE
      /\ chan' = [chan EXCEPT !["acc"] = << <<"HELLO">> >>]
      /\ idle' = [idle EXCEPT !["acc"] = 0]
      /\ UNCHANGED <<pend, agent, out, buf, PackSize, Size, since, lag, faults>>
  BY DEF AcceptStale, relay, size
<1>3. /\ stat'["acc"] = "hello" /\ conn'["acc"] = "eof" /\ idle'["acc"] = 0
      /\ chan'["acc"] = << <<"HELLO">> >> /\ chan'["con"] = chan["con"]
      /\ stat'["con"] = stat["con"] /\ conn'["con"] = conn["con"] /\ idle'["con"] = idle["con"]
  BY <1>1, <1>2, Peers DEF TypeLink, TypeClock
<1>4. conn["acc"] = "none"  BY <1>1, <1>2, Peers DEF LinkInv
<1>5. ~Linked'  BY <1>3, Peers DEF Linked
<1>6. TypeLink'  BY <1>1, <1>2, OpeningHello DEF TypeLink
<1>7. TypeRelay' /\ TypeSize' /\ (faults \in 0..MaxFaults)'
  BY <1>1, <1>2 DEF TypeRelay, TypeSize
<1>8. TypeClock'
  <2>1. 0 \in 0..IdleTime  BY DEF IdleTime
  <2> QED  BY <1>1, <1>2, <2>1 DEF TypeClock
<1>9. LinkInv'
  <2>1. ASSUME NEW x \in End
        PROVE  /\ stat'[x] = "down" <=> conn'[x] = "none"
               /\ conn'[x] \in {"none", "cut"} => chan'[x] = <<>>
    <3>1. CASE x = "acc"  BY <1>3, <3>1
    <3>2. CASE x = "con"  BY <1>1, <1>2, <1>3, <3>2 DEF LinkInv
    <3> QED  BY <3>1, <3>2 DEF End
  <2>2. pend' => /\ conn'["con"] = "open" /\ stat'["con"] = "hello"
                 /\ conn'["acc"] # "open" /\ chan'["con"] = <<>>
    BY <1>1, <1>2, <1>3 DEF LinkInv
  <2>3. conn'["con"] = "open" => pend'  BY <1>1, <1>2, <1>3, <1>4 DEF LinkInv
  <2> QED  BY <1>3, <2>1, <2>2, <2>3 DEF LinkInv
<1>10. HelloInv'
  <2>1. ASSUME NEW x \in End
        PROVE  /\ stat'[x] = "hello" => Opening(chan'[x])
               /\ stat'[x] = "up" => \A i \in 1..Len(chan'[x]) : chan'[x][i][1] # "HELLO"
    <3>1. CASE x = "acc"  BY <1>3, <3>1, OpeningHello
    <3>2. CASE x = "con"  BY <1>1, <1>3, <3>2 DEF HelloInv
    <3> QED  BY <3>1, <3>2 DEF End
  <2> QED  BY <1>5, <2>1 DEF HelloInv
<1>11. AgentInv'
  <2>1. /\ \A t : C("con", t)' = C("con", t)
        /\ \A t \in ClientTypes : C("acc", t)' = 0
    BY <1>3, Peers, CountsAfter
  <2>2. \A x \in End : stat'[x] # "up" => agent'[x] = "none"
    BY <1>1, <1>2, <1>3 DEF AgentInv, End
  <2>3. agent["acc"] = "none" /\ buf = 0  BY <1>1, <1>2, Peers DEF AgentInv
  <2>4. 0 + 0 <= Window  BY SizesAssumption
  <2> QED  BY <1>1, <1>2, <2>1, <2>2, <2>3, <2>4 DEF AgentInv, ClientTypes
<1>12. ASSUME NEW x \in End
       PROVE  /\ since'[x] >= idle'[x]
              /\ stat'[x] = "hello" => idle'[x] <= HelloTime
              /\ stat'[x] = "down" => idle'[x] = 0
              /\ stat'[x] # "up" => lag'[x] = 0
  <2>1. CASE x = "acc"
    <3>1. since'[x] \in Nat  BY <1>1, <1>2 DEF TypeClock, NoTime
    <3>2. lag'[x] = 0  BY <1>1, <1>2, <2>1 DEF ClockInv
    <3> QED  BY <1>3, <2>1, <3>1, <3>2 DEF HelloTime
  <2>2. CASE x = "con"  BY <1>1, <1>2, <1>3, <2>2 DEF ClockInv
  <2> QED  BY <2>1, <2>2 DEF End
<1>13. CreditInv' /\ SizeInv' /\ ClockInv'  BY <1>5, <1>12, Apart
<1> QED  BY <1>6, <1>7, <1>8, <1>9, <1>10, <1>11, <1>13, PartsNext

\* "acc" accepts the connection of "con": a session begins.
LEMMA AcceptInv ==
  ASSUME IInv, Accept
  PROVE  IInv'
<1>1. /\ TypeLink /\ TypeRelay /\ TypeSize /\ TypeClock /\ faults \in 0..MaxFaults
      /\ LinkInv /\ HelloInv /\ AgentInv /\ CreditInv /\ SizeInv /\ ClockInv
  BY PartsOf
<1>2. /\ stat["acc"] = "down" /\ pend /\ stat' = [stat EXCEPT !["acc"] = "hello"]
      /\ conn' = [conn EXCEPT !["acc"] = "open"] /\ pend' = FALSE
      /\ chan' = [x \in End |-> << <<"HELLO">> >>]
      /\ idle' = [idle EXCEPT !["acc"] = 0]
      /\ UNCHANGED <<stale, agent, out, buf, PackSize, Size, since, lag, faults>>
  BY DEF Accept, relay, size
<1>3. conn["con"] = "open" /\ stat["con"] = "hello"  BY <1>1, <1>2 DEF LinkInv
<1>4. /\ idle'["acc"] = 0 /\ idle'["con"] = idle["con"]
      /\ \A x \in End : /\ stat'[x] = "hello" /\ conn'[x] = "open"
                        /\ chan'[x] = << <<"HELLO">> >>
  BY <1>1, <1>2, <1>3, Peers DEF TypeLink, TypeClock, End
<1>5. /\ agent["con"] = "none" /\ agent["acc"] = "none" /\ out = 0 /\ buf = 0
  BY <1>1, <1>2, <1>3, Peers DEF AgentInv
<1>6. TypeLink'  BY <1>1, <1>2, OpeningHello DEF TypeLink
<1>7. TypeRelay' /\ TypeSize' /\ (faults \in 0..MaxFaults)'
  BY <1>1, <1>2 DEF TypeRelay, TypeSize
<1>8. TypeClock'
  <2>1. 0 \in 0..IdleTime  BY DEF IdleTime
  <2> QED  BY <1>1, <1>2, <2>1 DEF TypeClock
<1>9. LinkInv'  BY <1>2, <1>4, Peers DEF LinkInv
<1>10. HelloInv'
  <2>1. \A x \in End : Opening(chan'[x])  BY <1>4, OpeningHello
  <2> QED  BY <1>4, <2>1, Peers DEF HelloInv
<1>11. \A x \in End : \A t \in ClientTypes : C(x, t)' = 0  BY <1>4, CountsAfter
<1>12. /\ \A t \in ClientTypes : C("con", t)' = 0
       /\ \A t \in ClientTypes : C("acc", t)' = 0
  BY <1>11, Peers
<1>13. AgentInv'
  <2>1. \A x \in End : agent'[x] = "none"  BY <1>2, <1>5 DEF End
  <2>2. 0 + 0 <= Window  BY SizesAssumption
  <2> QED  BY <1>2, <1>5, <1>12, <2>1, <2>2 DEF AgentInv, ClientTypes
<1>14. CreditInv'
  <2>1. 0 + 0 + 0 = 0  OBVIOUS
  <2> QED  BY <1>2, <1>5, <1>12, <2>1 DEF CreditInv, ClientTypes
<1>15. SizeInv'
  <2>1. PICK ps : ps = << <<"HELLO">> >>  OBVIOUS
  <2>2. \A i \in 1..Len(ps) : ps[i][1] = "HELLO"  BY <2>1, OnePacket DEF Plain
  <2>3. \A x \in End : chan'[x] = ps  BY <1>4, <2>1
  <2>4. \A x \in End : stat'[Peer(x)] # "up"  BY <1>4, Peers
  <2> QED  BY <2>2, <2>3, <2>4 DEF SizeInv
<1>16. ClockInv'
  <2>1. ASSUME NEW x \in End
        PROVE  since'[x] >= idle'[x] /\ idle'[x] <= HelloTime /\ lag'[x] = 0
    <3>1. CASE x = "acc"
      <4>1. since'[x] \in Nat  BY <1>1, <1>2 DEF TypeClock, NoTime
      <4>2. lag'[x] = 0  BY <1>1, <1>2, <3>1 DEF ClockInv
      <4> QED  BY <1>4, <3>1, <4>1, <4>2 DEF HelloTime
    <3>2. CASE x = "con"  BY <1>1, <1>2, <1>3, <1>4, <3>2 DEF ClockInv
    <3> QED  BY <3>1, <3>2 DEF End
  <2>2. ~(buf' > 0)  BY <1>2, <1>5
  <2> QED  BY <1>4, <2>1, <2>2 DEF ClockInv
<1> QED
  BY <1>6, <1>7, <1>8, <1>9, <1>10, <1>13, <1>14, <1>15, <1>16, PartsNext

\* The connection is reset.
LEMMA ResetInv ==
  ASSUME IInv, Reset
  PROVE  IInv'
<1>1. /\ TypeLink /\ TypeRelay /\ TypeSize /\ TypeClock /\ faults \in 0..MaxFaults
      /\ LinkInv /\ HelloInv /\ AgentInv /\ CreditInv /\ SizeInv /\ ClockInv
  BY PartsOf
<1>2. /\ \A x \in End : conn[x] = "open"
      /\ conn' = [x \in End |-> "eof"] /\ faults' = faults + 1 /\ faults < MaxFaults
      /\ UNCHANGED <<stat, pend, stale, chan, agent, out, buf, PackSize, Size, since, lag, idle>>
  BY DEF Reset, Fault, relay, size, clock
<1>3. \A x \in End : conn'[x] = "eof" /\ stat[x] # "down"  BY <1>1, <1>2 DEF LinkInv
<1>4. ~Linked' /\ ~pend  BY <1>1, <1>2, <1>3, Peers DEF Linked, LinkInv
<1>5. TypeLink'  BY <1>1, <1>2 DEF TypeLink
<1>6. TypeRelay' /\ TypeSize' /\ TypeClock'  BY <1>1, <1>2 DEF TypeRelay, TypeSize, TypeClock
<1>7. (faults \in 0..MaxFaults)'  BY <1>1, <1>2, SizesAssumption
<1>8. LinkInv'  BY <1>2, <1>3, <1>4, Peers DEF LinkInv
<1>9. HelloInv'
  <2>1. ASSUME NEW x \in End
        PROVE  /\ stat'[x] = "hello" => Opening(chan'[x])
               /\ stat'[x] = "up" => \A i \in 1..Len(chan'[x]) : chan'[x][i][1] # "HELLO"
    BY <1>1, <1>2 DEF HelloInv
  <2> QED  BY <1>4, <2>1 DEF HelloInv
<1>10. AgentInv'
  <2>1. /\ \A t : C("con", t)' = C("con", t)
        /\ \A t : C("acc", t)' = C("acc", t)
    BY <1>2, Peers, CountsAfter
  <2> QED  BY <1>1, <1>2, <2>1 DEF AgentInv
<1>11. ASSUME NEW x \in End
       PROVE  /\ since'[x] >= idle'[x]
              /\ stat'[x] = "hello" => idle'[x] <= HelloTime
              /\ stat'[x] = "down" => idle'[x] = 0
              /\ stat'[x] # "up" => lag'[x] = 0
  BY <1>1, <1>2 DEF ClockInv
<1>12. CreditInv' /\ SizeInv' /\ ClockInv'  BY <1>4, <1>11, Apart
<1> QED  BY <1>5, <1>6, <1>7, <1>8, <1>9, <1>10, <1>12, PartsNext

\* The connection is cut.
LEMMA CutInv ==
  ASSUME IInv, Cut
  PROVE  IInv'
<1>1. /\ TypeLink /\ TypeRelay /\ TypeSize /\ TypeClock /\ faults \in 0..MaxFaults
      /\ LinkInv /\ HelloInv /\ AgentInv /\ CreditInv /\ SizeInv /\ ClockInv
  BY PartsOf
<1>2. /\ \A x \in End : conn[x] = "open"
      /\ conn' = [x \in End |-> "cut"] /\ chan' = [x \in End |-> <<>>]
      /\ faults' = faults + 1 /\ faults < MaxFaults
      /\ UNCHANGED <<stat, pend, stale, agent, out, buf, PackSize, Size, since, lag, idle>>
  BY DEF Cut, Fault, relay, size, clock
<1>3. \A x \in End : conn'[x] = "cut" /\ chan'[x] = <<>> /\ stat[x] # "down"
  BY <1>1, <1>2 DEF LinkInv
<1>4. ~Linked' /\ ~pend  BY <1>1, <1>2, <1>3, Peers DEF Linked, LinkInv
<1>5. TypeLink'
  <2>1. <<>> \in Seq(Packet)  OBVIOUS
  <2> QED  BY <1>1, <1>2, <2>1 DEF TypeLink
<1>6. TypeRelay' /\ TypeSize' /\ TypeClock'  BY <1>1, <1>2 DEF TypeRelay, TypeSize, TypeClock
<1>7. (faults \in 0..MaxFaults)'  BY <1>1, <1>2, SizesAssumption
<1>8. LinkInv'  BY <1>2, <1>3, <1>4, Peers DEF LinkInv
<1>9. HelloInv'
  <2>1. \A x \in End : Opening(chan'[x])  BY <1>3, OpeningHello
  <2>2. \A x \in End : 1..Len(chan'[x]) = {}  BY <1>3
  <2> QED  BY <1>4, <2>1, <2>2 DEF HelloInv
<1>10. AgentInv'
  <2>1. (\A t : C("con", t)' = 0) /\ (\A t : C("acc", t)' = 0)  BY <1>3, Peers, CountsAfter
  <2>2. 0 <= out /\ buf + 0 <= Window  BY <1>1, SizesAssumption DEF TypeRelay
  <2> QED  BY <1>1, <1>2, <2>1, <2>2 DEF AgentInv
<1>11. ASSUME NEW x \in End
       PROVE  /\ since'[x] >= idle'[x]
              /\ stat'[x] = "hello" => idle'[x] <= HelloTime
              /\ stat'[x] = "down" => idle'[x] = 0
              /\ stat'[x] # "up" => lag'[x] = 0
  BY <1>1, <1>2 DEF ClockInv
<1>12. CreditInv' /\ SizeInv' /\ ClockInv'  BY <1>4, <1>11, Apart
<1> QED  BY <1>5, <1>6, <1>7, <1>8, <1>9, <1>10, <1>12, PartsNext

\* Time passes, when nothing is left to read.
LEMMA TickInv ==
  ASSUME IInv, Tick
  PROVE  IInv'
<1>1. /\ TypeLink /\ TypeRelay /\ TypeSize /\ TypeClock /\ faults \in 0..MaxFaults
      /\ LinkInv /\ HelloInv /\ AgentInv /\ CreditInv /\ SizeInv /\ ClockInv
  BY PartsOf
<1>2. /\ \A x \in End : ~Busy(x)
      /\ since' = [x \in End |-> Older(since[x])]
      /\ idle' = [x \in End |-> IF stat[x] = "down" THEN 0 ELSE idle[x] + 1]
      /\ UNCHANGED <<stat, conn, pend, stale, chan, agent, out, buf, PackSize, Size, lag, faults>>
  BY DEF Tick, link, relay, size
<1>3. /\ NoTime = 8 /\ Unread = 7 /\ IdleTime = 2 /\ HelloTime = 1 /\ LostTime = 4
  BY DEF NoTime, Unread, IdleTime, HelloTime, LostTime
<1>4. ASSUME NEW x \in End
      PROVE  /\ since'[x] \in 0..NoTime /\ idle'[x] \in 0..IdleTime
             /\ since'[x] >= idle'[x]
             /\ stat[x] = "hello" => idle'[x] <= HelloTime
             /\ stat[x] = "down" => idle'[x] = 0
             /\ stat[x] # "down" /\ since[x] - idle[x] <= IdleTime =>
                  since'[x] - idle'[x] <= IdleTime
  <2>1. since[x] \in 0..8 /\ idle[x] \in 0..2  BY <1>1, <1>3 DEF TypeClock
  <2>2. /\ since'[x] = IF since[x] >= 7 THEN since[x] ELSE since[x] + 1
        /\ idle'[x] = IF stat[x] = "down" THEN 0 ELSE idle[x] + 1
    BY <1>2, <1>3 DEF Older
  <2>3. since[x] >= idle[x] /\ (stat[x] = "hello" => idle[x] <= 1)  BY <1>1, <1>3 DEF ClockInv
  <2>4. (stat[x] = "hello" => idle[x] # 1) /\ (stat[x] = "up" => idle[x] # 2)
    BY <1>2, <1>3 DEF Busy
  <2>5. stat[x] \in {"down", "hello", "up"}  BY <1>1 DEF TypeLink
  <2>6. CASE stat[x] = "down"  BY <1>3, <2>1, <2>2, <2>6
  <2>7. CASE stat[x] = "hello"  BY <1>3, <2>1, <2>2, <2>3, <2>4, <2>7
  <2>8. CASE stat[x] = "up"  BY <1>3, <2>1, <2>2, <2>3, <2>4, <2>8
  <2> QED  BY <2>5, <2>6, <2>7, <2>8
<1>5. Linked' <=> Linked  BY <1>2 DEF Linked
<1>6. Linked => \A x \in End : chan[x] = <<>> /\ stat[x] # "down"
  BY <1>1, <1>2 DEF Linked, Busy, Readable, LinkInv
<1>7. \A x \in End : Awaits(x)' <=> Awaits(x)  BY <1>2 DEF Awaits
<1>8. TypeLink' /\ TypeRelay' /\ TypeSize' /\ (faults \in 0..MaxFaults)'
  BY <1>1, <1>2 DEF TypeLink, TypeRelay, TypeSize
<1>9. TypeClock'
  <2>1. since' \in [End -> 0..NoTime] /\ idle' \in [End -> 0..IdleTime]  BY <1>2, <1>4
  <2> QED  BY <1>1, <1>2, <2>1 DEF TypeClock
<1>10. LinkInv'  BY <1>1, <1>2 DEF LinkInv
<1>11. HelloInv'  BY <1>1, <1>2, <1>5 DEF HelloInv
<1>12. AgentInv' /\ CreditInv'
  <2>1. /\ \A t : C("con", t)' = C("con", t)
        /\ \A t : C("acc", t)' = C("acc", t)
    BY <1>2, Peers, CountsAfter
  <2>2. AgentInv'  BY <1>1, <1>2, <2>1 DEF AgentInv
  <2>3. CreditInv'  BY <1>1, <1>2, <1>5, <2>1 DEF CreditInv
  <2> QED  BY <2>2, <2>3
<1>13. SizeInv'
  <2>1. \A x \in End : At(chan[x], "SETOPT")' = At(chan[x], "SETOPT")  BY <1>2 DEF At
  <2>2. \A x \in End : Taken(x)' <=> Taken(x)  BY <1>2 DEF Taken
  <2> QED  BY <1>1, <1>2, <1>5, <2>1, <2>2 DEF SizeInv
<1>14. ClockInv'
  <2>1. ASSUME NEW x \in End
        PROVE  /\ since'[x] >= idle'[x]
               /\ stat'[x] = "hello" => idle'[x] <= HelloTime
               /\ stat'[x] = "down" => idle'[x] = 0
               /\ stat'[x] # "up" => lag'[x] = 0
    BY <1>1, <1>2, <1>4 DEF ClockInv
  <2>2. ASSUME Linked', NEW x \in End, stat'[x] = "up"
        PROVE  /\ idle'[x] > 0 => chan'[Peer(x)] = <<>>
               /\ lag'[x] >= LostTime => Awaits(x)'
    <3>1. chan'[Peer(x)] = <<>>  BY <1>2, <1>5, <1>6, <2>2, Peers
    <3>2. lag[x] >= LostTime => Awaits(x)  BY <1>1, <1>2, <1>5, <2>2 DEF ClockInv
    <3> QED  BY <1>2, <1>7, <3>1, <3>2
  <2>3. ASSUME Linked', buf' > 0
        PROVE  since'["acc"] - idle'["acc"] <= IdleTime
    <3>1. since["acc"] - idle["acc"] <= IdleTime \/ Awaits("acc")
      BY <1>1, <1>2, <1>5, <2>3 DEF ClockInv
    <3>2. ~Awaits("acc")
      <4>1. chan["acc"] = <<>> /\ chan[Peer("acc")] = <<>>  BY <1>5, <1>6, <2>3, Peers
      <4> QED  BY <4>1 DEF Awaits
    <3> QED  BY <1>4, <1>5, <1>6, <2>3, <3>1, <3>2, Peers
  <2> QED  BY <2>1, <2>2, <2>3 DEF ClockInv
<1> QED  BY <1>8, <1>9, <1>10, <1>11, <1>12, <1>13, <1>14, PartsNext

-----------------------------------------------------------------------------
(* The theorems. *)

\* Nothing is connected at first.
LEMMA InitInv ==
  ASSUME Init
  PROVE  IInv
<1>1. /\ stat = [e \in End |-> "down"] /\ conn = [e \in End |-> "none"]
      /\ pend = FALSE /\ stale = FALSE /\ chan = [e \in End |-> <<>>]
      /\ agent = [e \in End |-> "none"] /\ out = 0 /\ buf = 0
      /\ PackSize = [e \in End |-> DefSize] /\ Size \in [End -> Sizes]
      /\ since = [e \in End |-> NoTime] /\ lag = [e \in End |-> 0]
      /\ idle = [e \in End |-> 0] /\ faults = 0
  BY DEF Init
<1>2. NoTime = 8 /\ Unread = 7 /\ IdleTime = 2 /\ HelloTime = 1
  BY DEF NoTime, Unread, IdleTime, HelloTime, LostTime
<1>3. TypeLink
  <2>1. <<>> \in Seq(Packet)  OBVIOUS
  <2> QED  BY <1>1, <2>1 DEF TypeLink
<1>4. TypeRelay  BY <1>1, SizesAssumption, Peers DEF TypeRelay
<1>5. TypeSize  BY <1>1 DEF TypeSize
<1>6. TypeClock
  <2>1. NoTime \in 0..NoTime /\ 0 \in 0..Unread /\ 0 \in 0..IdleTime  BY <1>2
  <2> QED  BY <1>1, <2>1 DEF TypeClock
<1>7. TypeOK
  <2>1. faults \in 0..MaxFaults  BY <1>1, SizesAssumption
  <2> QED  BY <1>3, <1>4, <1>5, <1>6, <2>1, Types
<1>8. ~Linked  BY <1>1, Peers DEF Linked
<1>9. LinkInv  BY <1>1, Peers DEF LinkInv
<1>10. HelloInv  BY <1>1, <1>8 DEF HelloInv
<1>11. AgentInv
  <2>1. (\A t : C("con", t) = 0) /\ (\A t : C("acc", t) = 0)  BY <1>1, Peers, CountNone DEF C
  <2>2. 0 + 0 <= Window  BY SizesAssumption
  <2> QED  BY <1>1, <2>1, <2>2, Peers DEF AgentInv
<1>12. CreditInv /\ SizeInv  BY <1>8 DEF CreditInv, SizeInv
<1>13. ClockInv  BY <1>1, <1>2, <1>8 DEF ClockInv
<1> QED  BY <1>7, <1>9, <1>10, <1>11, <1>12, <1>13 DEF IInv

\* A step that changes nothing.
LEMMA StutterInv ==
  ASSUME IInv, UNCHANGED vars
  PROVE  IInv'
<1>1. UNCHANGED <<stat, conn, pend, stale, chan, agent, out, buf, PackSize, Size,
                  since, lag, idle, faults>>
  BY DEF vars, link, relay, size, clock
<1>2. TypeOK'  BY <1>1 DEF IInv, TypeOK
<1>3. LinkInv'  BY <1>1 DEF IInv, LinkInv
<1>4. HelloInv'  BY <1>1 DEF IInv, HelloInv, Linked
<1>5. AgentInv' /\ CreditInv'
  <2>1. /\ \A t : C("con", t)' = C("con", t)
        /\ \A t : C("acc", t)' = C("acc", t)
    BY <1>1, Peers, CountsAfter
  <2>2. AgentInv'  BY <1>1, <2>1 DEF IInv, AgentInv
  <2>3. CreditInv'  BY <1>1, <2>1 DEF IInv, CreditInv, Linked
  <2> QED  BY <2>2, <2>3
<1>6. SizeInv'  BY <1>1 DEF IInv, SizeInv, Linked, At, Taken
<1>7. ClockInv'  BY <1>1 DEF IInv, ClockInv, Linked, Awaits
<1> QED  BY <1>2, <1>3, <1>4, <1>5, <1>6, <1>7 DEF IInv

\* Every step of one end or the other, of a client, of time and of the faults
\* keeps the invariant.
LEMMA NextInv ==
  ASSUME IInv, [Next]_vars
  PROVE  IInv'
<1>1. ASSUME NEW e \in End, Step(e) PROVE IInv'
  <2>1. CASE SetupHello(e)  BY <2>1, SetupHelloInv
  <2>2. CASE SetupDone(e)  BY <2>2, SetupDoneInv
  <2>3. CASE SetupTimeout(e)  BY <2>3, ShutdownInv DEF SetupTimeout
  <2>4. CASE RecvOption(e)  BY <2>4, RecvOptionInv
  <2>5. CASE RecvEcho(e)  BY <2>5, RecvEchoInv
  <2>6. CASE RecvNothing(e)  BY <2>6, RecvNothingInv
  <2>7. CASE Eof(e)  BY <2>7, ShutdownInv DEF Eof
  <2>8. CASE Inactive(e)  BY <2>8, ShutdownInv DEF Inactive
  <2>9. CASE Ping(e)  BY <2>9, PingInv
  <2> QED  BY <1>1, <2>1, <2>2, <2>3, <2>4, <2>5, <2>6, <2>7, <2>8, <2>9 DEF Step
<1>2. CASE StepCon
  <2>1. CASE Step("con")  BY <1>1, <2>1, Peers
  <2> QED  BY <1>2, <2>1, ConnectInv, RecvConnectedInv, RecvSentInv DEF StepCon
<1>3. CASE StepAcc
  <2>1. CASE Step("acc")  BY <1>1, <2>1, Peers
  <2> QED
    BY <1>3, <2>1, AcceptInv, AcceptStaleInv, RecvConnectInv, RecvSendInv DEF StepAcc
<1>4. CASE Client \/ Data \/ Flush  BY <1>4, ClientInv, DataInv, FlushInv
<1>5. CASE Tick \/ Reset \/ Cut  BY <1>5, TickInv, ResetInv, CutInv
<1>6. CASE \E e \in End : Restart(e)  BY <1>6, RestartInv
<1>7. CASE UNCHANGED vars  BY <1>7, StutterInv
<1> QED  BY <1>2, <1>3, <1>4, <1>5, <1>6, <1>7 DEF Next

\* The ends of a session are in step in every state the two processes reach.
THEOREM Inductive == Spec => []IInv
<1>1. Init => IInv  BY InitInv
<1>2. IInv /\ [Next]_vars => IInv'  BY NextInv
<1> QED  BY <1>1, <1>2, PTL DEF Spec

\* The credit of a client is never exceeded and the clocks stay in their
\* ranges, whatever the window and however often an end is restarted.
THEOREM TypeCorrect == Spec => []TypeOK
<1>1. IInv => TypeOK  BY DEF IInv
<1> QED  BY <1>1, Inductive, PTL

\* sox_setupX meets nothing but HELLO and HELLOOK, and sox_COMMIN never HELLO.
THEOREM HelloComesFirst == Spec => []HelloFirst
<1>1. ASSUME IInv PROVE HelloFirst
  <2> SUFFICES ASSUME NEW e \in End, Readable(e)
               PROVE  /\ stat[e] = "hello" => Head1(e) \in {"HELLO", "HELLOOK"}
                      /\ stat[e] = "up" => Head1(e) # "HELLO"
    BY DEF HelloFirst
  <2>1. TypeLink /\ HelloInv  BY <1>1, PartsOf
  <2>2. chan[e] # <<>> /\ 1 \in 1..Len(chan[e])  BY <2>1 DEF Readable, TypeLink
  <2> QED  BY <2>1, <2>2 DEF HelloInv, Opening, Head1
<1> QED  BY <1>1, Inductive, PTL

\* A packet that names a client finds it at the other end.
THEOREM ClientsPaired == Spec => []Paired
<1>1. ASSUME IInv PROVE Paired
  <2> SUFFICES ASSUME NEW e \in End, Readable(e), stat[e] = "up"
               PROVE  /\ Head1(e) \in {"SEND", "SENT"} => agent[e] = "open"
                      /\ Head1(e) = "CONNECT" => agent[e] = "none"
                      /\ Head1(e) = "CONNECTED" => agent[e] = "asked"
    BY DEF Paired
  <2>1. TypeLink /\ AgentInv  BY <1>1, PartsOf
  <2>2. C(e, Head1(e)) > 0
    <3> DEFINE t == Head1(e)
    <3>1. chan[e] \in Seq(Packet) /\ chan[e] # <<>> /\ 1 \in 1..Len(chan[e])
      BY <2>1 DEF Readable, TypeLink
    <3>2. 1 \in At(chan[e], t)  BY <3>1 DEF At, Head1
    <3> HIDE DEF t
    <3>3. C(e, t) \in Nat /\ C(e, t) # 0  BY <3>1, <3>2, AtFinite DEF C
    <3>4. C(e, t) > 0  BY <3>3
    <3> QED  BY <3>4 DEF t
  <2>3. CASE e = "con"  BY <2>1, <2>2, <2>3 DEF AgentInv
  <2>4. CASE e = "acc"  BY <2>1, <2>2, <2>4 DEF AgentInv
  <2> QED  BY <2>3, <2>4 DEF End
<1> QED  BY <1>1, Inductive, PTL

\* Once the options have arrived both ends use the same size of packets.
THEOREM SizesSettle == Spec => []SizesAgree
<1>1. ASSUME IInv PROVE SizesAgree
  <2> DEFINE n == Min2(Size["con"], Size["acc"])
  <2> SUFFICES ASSUME Established, n > MinSize,
                      \A e \in End : \A i \in 1..Len(chan[e]) : chan[e][i][1] # "SETOPT",
                      NEW e \in End
               PROVE  PackSize[e] = n
    BY DEF SizesAgree
  <2>1. TypeSize /\ SizeInv  BY <1>1, PartsOf
  <2>2. Linked /\ stat[Peer(e)] = "up"  BY Peers DEF Established, Linked
  <2>3. At(chan[e], "SETOPT") = {}  BY DEF At
  <2>4. Taken(e)  BY <2>1, <2>2, <2>3 DEF SizeInv
  <2>5. Size["con"] \in Nat /\ Size["acc"] \in Nat
    <3>1. Size["con"] \in Sizes /\ Size["acc"] \in Sizes  BY <2>1, Peers DEF TypeSize
    <3>2. \A m \in Sizes : m \in Nat
      <4>1. MinSize \in Nat /\ PWSIZE \in Nat /\ Sizes \subseteq MinSize..PWSIZE
        BY SizesAssumption
      <4> QED  BY <4>1
    <3> QED  BY <3>1, <3>2
  <2>6. Min2(Size["acc"], Size["con"]) = n  BY <2>5 DEF Min2
  <2>7. CASE e = "con"  BY <2>4, <2>7, Peers DEF Taken
  <2>8. CASE e = "acc"
    <3>1. Min2(Size[e], Size[Peer(e)]) = n  BY <2>6, <2>8, Peers
    <3> HIDE DEF n
    <3> QED  BY <2>4, <3>1 DEF Taken
  <2> QED  BY <2>7, <2>8 DEF End
<1> QED  BY <1>1, Inductive, PTL

\* commInactive gives up a working session only while SENDs wait at a server
\* that does not read.
THEOREM AlarmIsTrue == Spec => []NoFalseAlarm
<1>1. ASSUME IInv PROVE NoFalseAlarm
  <2> SUFFICES ASSUME NEW e \in End, Alarm(e), conn[e] # "cut"
               PROVE  e = "con" /\ buf > 0
    BY DEF NoFalseAlarm
  <2>1. TypeLink /\ LinkInv /\ ClockInv  BY <1>1, PartsOf
  <2>2. /\ stat[e] = "up" /\ idle[e] = IdleTime /\ lag[e] >= LostTime
        /\ conn[e] # "eof" /\ ~Readable(e)
    BY DEF Alarm, Quiet
  <2>3. conn[e] = "open"  BY <2>1, <2>2 DEF TypeLink, LinkInv
  <2>4. Linked  BY <2>1, <2>2, <2>3, OpenLinked
  <2>5. chan[e] = <<>>  BY <2>2, <2>3 DEF Readable
  <2>6. chan[Peer(e)] = <<>> /\ Awaits(e)  BY <2>1, <2>2, <2>4 DEF ClockInv, IdleTime
  <2>7. ~\E i \in 1..Len(chan[Peer(e)]) : chan[Peer(e)][i][1] \in Asking  BY <2>6
  <2> QED  BY <2>5, <2>6, <2>7 DEF Awaits, Asking
<1> QED  BY <1>1, Inductive, PTL
=============================================================================

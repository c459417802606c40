-------------------------- MODULE HttpCacheProofs --------------------------
(***************************************************************************)
(* For any number of requests and files and any size of the document: the  *)
(* variables of HttpCache keep their types; file_lock_wr lets one process  *)
(* at a time download into a file, whatever is renamed, unlinked, popped   *)
(* or given up meanwhile; the document that a process publishes of its own *)
(* download is whole and is not lost, as long as its file has been in one  *)
(* hand only.                                                              *)
(***************************************************************************)
EXTENDS HttpCache, TLAPS

(***************************************************************************)
(* Who may write to its open file has the lock of it.  A request has no    *)
(* open file before it has made one, and the one it is about to lock is a  *)
(* file.                                                                   *)
(***************************************************************************)
Holds(p) ==
    /\ req[p].pc \in {"make", "make2"} => req[p].fd = None
    /\ req[p].pc \in {"lock", "load", "serve"} => req[p].fd \in Ino
    /\ req[p].pc \in {"fetch", "load"} /\ req[p].fd # None => lock[req[p].fd] = p
IInv == TypeOK /\ \A p \in Proc : Holds(p)

-----------------------------------------------------------------------------
(* Requests. *)

\* The requests that the actions build are requests.
LEMMA Requests ==
    /\ Ended \in Request /\ Ended.pc = "end" /\ Ended.fd = None
    /\ \A x, y \in BOOLEAN : /\ NewRequest(x, y) \in Request
                             /\ NewRequest(x, y).pc = "read"
    /\ \A r \in Request :
         /\ Fetching(r) \in Request
         /\ Fetching(r).pc = "fetch" /\ Fetching(r).fd = r.fd
         /\ Exiting(r) \in Request
         /\ Exiting(r).pc = "exit" /\ Exiting(r).fd = r.fd
<1>1. Started \in Request /\ Started.fd = None /\ Started.pc = "read"
  BY CacheAssumption DEF Started, Request, PC, Name
<1>2. Ended \in Request /\ Ended.pc = "end" /\ Ended.fd = None
  BY <1>1 DEF Ended, Request, PC
<1>3. ASSUME NEW x \in BOOLEAN, NEW y \in BOOLEAN
      PROVE  NewRequest(x, y) \in Request /\ NewRequest(x, y).pc = "read"
  BY <1>1 DEF NewRequest, Request, PC
<1>4. /\ "fetch" \in PC /\ "exit" \in PC /\ 0 \in 0 .. 2
      /\ 0 \in 0 .. MaxBlocks /\ 1 \in 1 .. MaxBlocks
  BY CacheAssumption DEF PC
<1>5. ASSUME NEW r \in Request
      PROVE  /\ Fetching(r) \in Request
             /\ Fetching(r).pc = "fetch" /\ Fetching(r).fd = r.fd
  <2>1. ASSUME NEW x \in PC, NEW y \in 0 .. 2
        PROVE  LET s == [r EXCEPT !.pc = x, !.cretry = y,
                                  !.reload = FALSE, !.nowait = FALSE]
               IN  s \in Request /\ s.pc = x /\ s.fd = r.fd
    BY DEF Request
  <2>2. QED  BY <1>4, <2>1 DEF Fetching
<1>6. ASSUME NEW r \in Request
      PROVE  /\ Exiting(r) \in Request
             /\ Exiting(r).pc = "exit" /\ Exiting(r).fd = r.fd
  <2> DEFINE G(x, y, m, n) ==
        [r EXCEPT !.pc = x, !.cretry = y, !.cdate = FALSE, !.reload = FALSE,
                  !.nowait = FALSE, !.touched = FALSE, !.off = m, !.size = n]
  <2>1. ASSUME NEW x \in PC, NEW y \in 0 .. 2,
               NEW m \in 0 .. MaxBlocks, NEW n \in 1 .. MaxBlocks
        PROVE  /\ G(x, y, m, n) \in Request
               /\ G(x, y, m, n).pc = x /\ G(x, y, m, n).fd = r.fd
    BY DEF Request
  <2>2. Exiting(r) = G("exit", 0, 0, 1)  BY DEF Exiting
  <2> HIDE DEF G
  <2>3. QED  BY <1>4, <2>1, <2>2
<1>7. QED  BY <1>2, <1>3, <1>5, <1>6

\* One request goes on and the others stay, but for touched.
LEMMA OneGoesOn ==
    ASSUME req \in [Proc -> Request], NEW p \in Proc, NEW r \in Request, NEW i,
           Becomes(p, r) \/ BecomesTouching(p, r, i)
    PROVE  /\ req' \in [Proc -> Request]
           /\ req'[p] = r
           /\ \A q \in Proc \ {p} : req'[q].pc = req[q].pc /\ req'[q].fd = req[q].fd
<1>1. CASE Becomes(p, r)
  BY <1>1 DEF Becomes
<1>2. CASE BecomesTouching(p, r, i)
  <2>1. \A q \in Proc : LET t == [req[q] EXCEPT !.touched = TRUE] IN
            t \in Request /\ t.pc = req[q].pc /\ t.fd = req[q].fd
    BY DEF Request
  <2>2. QED  BY <1>2, <2>1 DEF BecomesTouching
<1>3. QED  BY <1>1, <1>2

\* The locks of the others do not depend on what p gives back.
LEMMA GivesBack ==
    ASSUME lock \in [Ino -> Proc \cup {None}], NEW p \in Proc
    PROVE  /\ Released(p) \in [Ino -> Proc \cup {None}]
           /\ \A i \in Ino, q \in Proc \ {p} : lock[i] = q => Released(p)[i] = q
  BY CacheAssumption DEF Released

\* The directory, the files and the history are typed.
Typed ==
    /\ dir \in [Name -> Ino \cup {None}]
    /\ data \in [Ino -> Seq(Block)]
    /\ disturbed \subseteq Ino /\ stray \subseteq Ino

(***************************************************************************)
(* A step of p keeps the invariant when its own request r is as it should  *)
(* be and the other requests keep their locks.                             *)
(***************************************************************************)
LEMMA Kept ==
    ASSUME IInv, Remember, NEW p \in Proc, NEW r \in Request, NEW i,
           Becomes(p, r) \/ BecomesTouching(p, r, i),
           Typed', lock' \in [Ino -> Proc \cup {None}],
           \A j \in Ino, q \in Proc \ {p} : lock[j] = q => lock'[j] = q,
           r.pc \in {"make", "make2"} => r.fd = None,
           r.pc \in {"lock", "load", "serve"} => r.fd \in Ino,
           r.pc \in {"fetch", "load"} /\ r.fd # None => lock'[r.fd] = p
    PROVE  IInv'
<1>1. /\ req' \in [Proc -> Request]
      /\ req'[p] = r
      /\ \A q \in Proc \ {p} : req'[q].pc = req[q].pc /\ req'[q].fd = req[q].fd
  BY OneGoesOn DEF IInv, TypeOK
<1>2. ASSUME NEW q \in Proc \ {p} PROVE Holds(q)'
  <2>1. Holds(q) /\ req[q] \in Request  BY DEF IInv, TypeOK
  <2>2. req[q].fd \in Ino \cup {None}  BY <2>1 DEF Request
  <2>3. QED  BY <1>1, <2>1, <2>2 DEF Holds
<1>3. Holds(p)'  BY <1>1 DEF Holds
<1>4. TypeOK'
  <2>1. calm' \in BOOLEAN  BY DEF Remember
  <2>2. QED  BY <1>1, <2>1 DEF TypeOK, Typed
<1>5. QED  BY <1>1, <1>2, <1>3, <1>4 DEF IInv

\* The same for a step after which p neither opens, locks nor writes.
LEMMA KeptAtRest ==
    ASSUME IInv, Remember, NEW p \in Proc, NEW r \in Request, NEW i,
           Becomes(p, r) \/ BecomesTouching(p, r, i),
           Typed', lock' \in {lock, Released(p)},
           r.pc \in {"read", "recv", "relay", "exit", "closed", "unlink", "rename", "end"}
    PROVE  IInv'
<1>1. lock \in [Ino -> Proc \cup {None}]  BY DEF IInv, TypeOK
<1>2. /\ lock' \in [Ino -> Proc \cup {None}]
      /\ \A j \in Ino, q \in Proc \ {p} : lock[j] = q => lock'[j] = q
  BY <1>1, GivesBack
<1>3. QED  BY <1>2, Kept

-----------------------------------------------------------------------------
(* Files. *)

\* Responses, and files that are cut or extended, are sequences of blocks.
LEMMA Blocks ==
    /\ Hole \in Block
    /\ \A p \in Proc \cup {None}, n \in 1 .. MaxBlocks : Response(p, n) \in Seq(Block)
    /\ \A s \in Seq(Block), n \in Nat : /\ Resized(s, n) \in Seq(Block)
                                        /\ DOMAIN Resized(s, n) = 1 .. n
<1>1. Hole \in Block  BY CacheAssumption DEF Hole, Block
<1>2. ASSUME NEW p \in Proc \cup {None}, NEW n \in 1 .. MaxBlocks
      PROVE  Response(p, n) \in Seq(Block)
  <2>1. Response(p, n) \in [1 .. n -> Block]
    BY CacheAssumption DEF Response, Block
  <2>2. n \in Nat  BY CacheAssumption
  <2>3. QED  BY <2>1, <2>2
<1>3. ASSUME NEW s \in Seq(Block), NEW n \in Nat
      PROVE  Resized(s, n) \in Seq(Block) /\ DOMAIN Resized(s, n) = 1 .. n
  <2>1. Resized(s, n) \in [1 .. n -> Block]  BY <1>1 DEF Resized
  <2>2. QED  BY <2>1 DEF Resized
<1>4. QED  BY <1>1, <1>2, <1>3

\* What a name stands for.
LEMMA Files ==
    ASSUME TypeOK, NEW n \in Name
    PROVE  /\ dir[n] \in Ino \cup {None}
           /\ Named(n) => dir[n] \in Ino
           /\ Readable(n) => dir[n] \in Ino
           /\ \A x \in Ino \cup {None} : [dir EXCEPT ![n] = x] \in [Name -> Ino \cup {None}]
  BY DEF TypeOK, Named, Readable

\* What the invariant says of the request of a process.
LEMMA Mine ==
    ASSUME IInv, NEW p \in Proc
    PROVE  /\ Typed /\ TypeOK /\ Holds(p)
           /\ req[p] \in Request /\ req[p].fd \in Ino \cup {None}
           /\ lock \in [Ino -> Proc \cup {None}]
<1>1. Typed /\ TypeOK /\ Holds(p) /\ req[p] \in Request
      /\ lock \in [Ino -> Proc \cup {None}]
  BY DEF IInv, TypeOK, Typed
<1>2. QED  BY <1>1 DEF Request

-----------------------------------------------------------------------------
(* One lemma for each group of actions. *)

\* retry_read: no file is open, or the document to be read is.
LEMMA RetryReadStep ==
    ASSUME IInv, Remember, NEW p \in Proc, RetryRead(p)
    PROVE  IInv'
<1> DEFINE r == [req[p] EXCEPT !.path = "doc", !.fd = None, !.cdate = FALSE]
           F(x, n) == [r EXCEPT !.pc = x, !.cretry = n]
           G(x, f, n) == [r EXCEPT !.pc = x, !.fd = f, !.cretry = n, !.cdate = TRUE]
<1>1. req[p] \in Request /\ Typed /\ TypeOK /\ lock \in [Ino -> Proc \cup {None}]
  BY Mine
<1>2. r \in Request /\ r.fd = None
  BY <1>1 DEF Request, Name
<1>3. Typed' /\ lock' = lock  BY <1>1 DEF RetryRead, Typed
<1>4. \/ Becomes(p, Fetching(r))
      \/ r.cretry <= 1 /\ Becomes(p, F("make", r.cretry + 1))
      \/ /\ r.cretry <= 1 /\ Readable("doc")
         /\ \/ Becomes(p, G("serve", dir["doc"], r.cretry + 1))
            \/ Becomes(p, G("make", None, r.cretry + 1))
  BY DEF RetryRead
<1> HIDE DEF r
<1>5. ASSUME NEW x \in PC, NEW f \in Ino \cup {None}, NEW n \in 0 .. 2
      PROVE  /\ F(x, n) \in Request /\ F(x, n).pc = x /\ F(x, n).fd = None
             /\ G(x, f, n) \in Request /\ G(x, f, n).pc = x /\ G(x, f, n).fd = f
  BY <1>2 DEF Request
<1> HIDE DEF F, G
<1>6. r.cretry <= 1 => r.cretry + 1 \in 0 .. 2
  BY <1>2 DEF Request
<1>7. "make" \in PC /\ "serve" \in PC /\ "doc" \in Name  BY DEF PC, Name
<1>8. ASSUME NEW s \in Request, Becomes(p, s),
             \/ s.pc \in {"fetch", "make"} /\ s.fd = None
             \/ s.pc = "serve" /\ s.fd \in Ino
      PROVE  IInv'
  BY <1>1, <1>3, <1>8, Kept
<1>9. CASE Becomes(p, Fetching(r))
  BY <1>2, <1>8, <1>9, Requests
<1>10. CASE r.cretry <= 1 /\ Becomes(p, F("make", r.cretry + 1))
  BY <1>5, <1>6, <1>7, <1>8, <1>10
<1>11. CASE r.cretry <= 1 /\ Readable("doc") /\ Becomes(p, G("serve", dir["doc"], r.cretry + 1))
  <2>1. dir["doc"] \in Ino  BY <1>1, <1>7, <1>11, Files
  <2>2. QED  BY <1>5, <1>6, <1>7, <1>8, <1>11, <2>1
<1>12. CASE r.cretry <= 1 /\ Becomes(p, G("make", None, r.cretry + 1))
  BY <1>5, <1>6, <1>7, <1>8, <1>12
<1>13. QED  BY <1>4, <1>9, <1>10, <1>11, <1>12

\* An exit with what an action may still set.
AtExit(s) == s \in Request /\ s.pc = "exit"
\* Every way in which CacheClose and its callers leave the record is a request at exit.
LEMMA Exits ==
    ASSUME NEW r \in Request
    PROVE  /\ AtExit(Exiting(r))
           /\ \A b \in BOOLEAN : AtExit([Exiting(r) EXCEPT !.remove = b])
           /\ \A h \in {"none", "ok", "err"} :
                /\ AtExit([Exiting(r) EXCEPT !.hcode = h])
                /\ \A b \in BOOLEAN :
                     AtExit([Exiting(r) EXCEPT !.hcode = h, !.remove = b])
                /\ \A f \in Ino \cup {None} :
                     /\ AtExit([Exiting(r) EXCEPT !.hcode = h, !.fd = f])
                     /\ \A n \in Name, b \in BOOLEAN :
                          /\ AtExit([Exiting(r) EXCEPT !.path = n, !.fd = f, !.hcode = h,
                                                       !.remove = b])
                          /\ AtExit([Exiting(r) EXCEPT !.fd = f, !.hcode = h, !.path = n,
                                                       !.remove = b])
<1> DEFINE e == Exiting(r)
<1>1. e \in Request /\ e.pc = "exit"  BY Requests
<1> HIDE DEF e
<1>2. ASSUME NEW h \in {"none", "ok", "err"}, NEW b \in BOOLEAN,
             NEW n \in Name, NEW f \in Ino \cup {None}
      PROVE  /\ AtExit([e EXCEPT !.hcode = h]) /\ AtExit([e EXCEPT !.remove = b])
             /\ AtExit([e EXCEPT !.hcode = h, !.remove = b])
             /\ AtExit([e EXCEPT !.hcode = h, !.fd = f])
             /\ AtExit([e EXCEPT !.path = n, !.fd = f, !.hcode = h, !.remove = b])
             /\ AtExit([e EXCEPT !.fd = f, !.hcode = h, !.path = n, !.remove = b])
  <2>1. AtExit([e EXCEPT !.hcode = h]) /\ AtExit([e EXCEPT !.remove = b])
    BY <1>1 DEF AtExit, Request
  <2>2. AtExit([e EXCEPT !.hcode = h, !.remove = b])
    BY <1>1 DEF AtExit, Request
  <2>3. AtExit([e EXCEPT !.hcode = h, !.fd = f])
    BY <1>1 DEF AtExit, Request
  <2>4. AtExit([e EXCEPT !.path = n, !.fd = f, !.hcode = h, !.remove = b])
    BY <1>1 DEF AtExit, Request
  <2>5. AtExit([e EXCEPT !.fd = f, !.hcode = h, !.path = n, !.remove = b])
    BY <1>1 DEF AtExit, Request
  <2>6. QED  BY <2>1, <2>2, <2>3, <2>4, <2>5
<1>3. "doc" \in Name /\ AtExit(e)  BY <1>1 DEF Name, AtExit
<1>4. QED  BY <1>2, <1>3, Zenon DEF e

\* Serve, RelayDistribution, ServerError.
LEMMA RelayStep ==
    ASSUME IInv, Remember, NEW p \in Proc,
           Serve(p) \/ RelayDistribution(p) \/ ServerError(p)
    PROVE  IInv'
<1>1. req[p] \in Request /\ Typed /\ TypeOK  BY Mine
<1>2. PICK h \in {"ok", "err"} : Becomes(p, [Exiting(req[p]) EXCEPT !.hcode = h])
  BY DEF Serve, RelayDistribution, ServerError
<1>3. AtExit([Exiting(req[p]) EXCEPT !.hcode = h])
  BY <1>1, Exits
<1>4. Typed' /\ lock' = lock
  BY <1>1 DEF Serve, RelayDistribution, ServerError, Typed
<1>5. QED  BY <1>2, <1>3, <1>4, KeptAtRest DEF AtExit

\* Make, MakeAnew, CantMake.
LEMMA MakeStep ==
    ASSUME IInv, Remember, NEW p \in Proc, Make(p) \/ MakeAnew(p) \/ CantMake(p)
    PROVE  IInv'
<1> DEFINE r == req[p]
           F(i) == [r EXCEPT !.pc = "lock", !.path = "loading", !.fd = i]
           G == [r EXCEPT !.pc = "make2"]
           H == [Fetching(r) EXCEPT !.cdate = FALSE]
<1>1. r \in Request /\ Typed /\ TypeOK /\ Holds(p) /\ lock \in [Ino -> Proc \cup {None}]
  BY Mine
<1>2. r.fd = None  BY <1>1 DEF Make, MakeAnew, CantMake, Holds
<1>3. lock' = lock  BY DEF Make, MakeAnew, CantMake
<1>4. "loading" \in Name /\ "lock" \in PC /\ "make2" \in PC  BY DEF Name, PC
<1>5. ASSUME NEW i \in Ino PROVE F(i) \in Request /\ F(i).pc = "lock" /\ F(i).fd = i
  BY <1>1, <1>4 DEF Request
<1>6. G \in Request /\ G.pc = "make2" /\ G.fd = None
  BY <1>1, <1>2, <1>4 DEF Request
<1>7. H \in Request /\ H.pc = "fetch" /\ H.fd = None
  <2>1. Fetching(r) \in Request /\ Fetching(r).pc = "fetch" /\ Fetching(r).fd = None
    BY <1>1, <1>2, Requests
  <2>2. QED  BY <2>1 DEF Request
<1>8. CASE Make(p)
  <2>1. Typed'  BY <1>1, <1>8 DEF Make, Typed
  <2>2. (Named("loading") /\ Becomes(p, F(dir["loading"]))) \/ Becomes(p, G)
    BY <1>8 DEF Make
  <2> HIDE DEF F, G, H, r
  <2>3. CASE Named("loading") /\ Becomes(p, F(dir["loading"]))
    <3>1. dir["loading"] \in Ino  BY <1>1, <1>4, <2>3, Files
    <3>2. QED  BY <1>1, <1>3, <1>5, <2>1, <2>3, <3>1, Kept
  <2>4. CASE Becomes(p, G)
    BY <1>1, <1>3, <1>6, <2>1, <2>4, Kept
  <2>5. QED  BY <2>2, <2>3, <2>4
<1>9. CASE MakeAnew(p)
  <2> DEFINE i == IF Named("loading") THEN dir["loading"] ELSE CHOOSE j \in Free : TRUE
  <2>1. i \in Ino
    <3>1. CASE Named("loading")  BY <1>1, <1>4, <3>1, Files
    <3>2. CASE ~Named("loading")
      <4>1. Free # {}  BY <1>9, <3>2 DEF MakeAnew
      <4>2. (CHOOSE j \in Free : TRUE) \in Free  BY <4>1
      <4>3. QED  BY <3>2, <4>2 DEF Free
    <3>3. QED  BY <3>1, <3>2
  <2>2. /\ dir' = [dir EXCEPT !["loading"] = i] /\ data' = [data EXCEPT ![i] = <<>>]
        /\ disturbed' \in {disturbed \cup {i}, disturbed \ {i}} /\ stray' = stray \ {i}
        /\ BecomesTouching(p, F(i), i)
    BY <1>9 DEF MakeAnew
  <2> HIDE DEF i, F, G, H, r
  <2>3. Typed'
    <3>1. <<>> \in Seq(Block)  OBVIOUS
    <3>2. QED  BY <1>1, <1>4, <2>1, <2>2, <3>1 DEF Typed
  <2>4. QED  BY <1>1, <1>3, <1>5, <2>1, <2>2, <2>3, Kept
<1>10. CASE CantMake(p)
  <2>1. Typed' /\ Becomes(p, H)  BY <1>1, <1>10 DEF CantMake, Typed
  <2> HIDE DEF F, G, H, r
  <2>2. QED  BY <1>1, <1>3, <1>7, <2>1, Kept
<1>11. QED  BY <1>8, <1>9, <1>10

\* LockWr: only a lock that is free is taken.
LEMMA LockStep ==
    ASSUME IInv, Remember, NEW p \in Proc, LockWr(p)
    PROVE  IInv'
<1> DEFINE r == req[p]  i == req[p].fd  R == [r EXCEPT !.pc = "recv"]
<1>1. /\ r \in Request /\ Typed /\ Holds(p) /\ i \in Ino \cup {None}
      /\ lock \in [Ino -> Proc \cup {None}]
  BY Mine
<1>2. i \in Ino  BY <1>1 DEF LockWr, Holds
<1>3. Typed'  BY <1>1, <1>2 DEF LockWr, Typed
<1>4. CASE lock[i] = None
  <2>1. lock' = [lock EXCEPT ![i] = p] /\ Becomes(p, Fetching(r))
    BY <1>4 DEF LockWr
  <2>2. Fetching(r) \in Request /\ Fetching(r).pc = "fetch" /\ Fetching(r).fd = i
    BY <1>1, Requests
  <2> HIDE DEF i, r
  <2>3. lock' \in [Ino -> Proc \cup {None}] /\ lock'[i] = p
    BY <1>1, <1>2, <2>1
  <2>4. \A j \in Ino, q \in Proc \ {p} : lock[j] = q => lock'[j] = q
    BY <1>1, <1>2, <1>4, <2>1, CacheAssumption
  <2>5. QED  BY <1>3, <2>1, <2>2, <2>3, <2>4, Kept
<1>5. CASE lock[i] # None
  <2>1. lock' = lock /\ Becomes(p, R)  BY <1>5 DEF LockWr
  <2>2. "recv" \in PC  BY DEF PC
  <2>3. R \in Request /\ R.pc = "recv"  BY <1>1, <2>2 DEF Request
  <2> HIDE DEF R
  <2>4. QED  BY <1>3, <2>1, <2>3, KeptAtRest
<1>6. QED  BY <1>4, <1>5

\* recvDistribution: the file that another process has locked is given up, or
\* not written to.
LEMMA RecvStep ==
    ASSUME IInv, Remember, NEW p \in Proc, RecvDistribution(p)
    PROVE  IInv'
<1> DEFINE r == req[p]
           A == [r EXCEPT !.pc = "relay", !.distrib = TRUE]
           B == [r EXCEPT !.pc = "read", !.fd = None]
           C == [Fetching(r) EXCEPT !.fd = None]
<1>1. r \in Request /\ Typed /\ lock \in [Ino -> Proc \cup {None}]  BY Mine
<1>2. Typed' /\ lock' = lock  BY <1>1 DEF RecvDistribution, Typed
<1>3. Becomes(p, A) \/ Becomes(p, B) \/ Becomes(p, C)  BY DEF RecvDistribution
<1>4. "relay" \in PC /\ "read" \in PC  BY DEF PC
<1>5. A \in Request /\ A.pc = "relay" /\ B \in Request /\ B.pc = "read"
  BY <1>1, <1>4 DEF Request
<1>6. C \in Request /\ C.pc = "fetch" /\ C.fd = None
  <2>1. Fetching(r) \in Request /\ Fetching(r).pc = "fetch"  BY <1>1, Requests
  <2>2. QED  BY <2>1 DEF Request
<1> HIDE DEF A, B, C
<1>7. CASE Becomes(p, A)  BY <1>2, <1>5, <1>7, KeptAtRest
<1>8. CASE Becomes(p, B)  BY <1>2, <1>5, <1>8, KeptAtRest
<1>9. CASE Becomes(p, C)  BY <1>1, <1>2, <1>6, <1>9, Kept
<1>10. QED  BY <1>3, <1>7, <1>8, <1>9

\* Makeshift: the lock that may be lost is the own one.
LEMMA MakeshiftStep ==
    ASSUME IInv, Remember, NEW p \in Proc, NEW sized \in BOOLEAN, Makeshift(p, sized)
    PROVE  IInv'
<1> DEFINE fd == IF Readable("doc") THEN dir["doc"] ELSE req[p].fd
           b == sized /\ Len(data[fd]) = 0
           s == [Exiting(req[p]) EXCEPT !.path = "doc", !.fd = fd, !.hcode = "ok", !.remove = b]
<1>1. req[p] \in Request /\ Typed /\ TypeOK /\ req[p].fd \in Ino \cup {None}  BY Mine
<1>2. "doc" \in Name /\ "loading" \in Name  BY DEF Name
<1>3. fd \in Ino \cup {None} /\ b \in BOOLEAN  BY <1>1, <1>2, Files
<1>4. /\ Becomes(p, s) /\ lock' \in {lock, Released(p)}
      /\ dir' = [dir EXCEPT !["loading"] = None]
      /\ UNCHANGED <<data, disturbed, stray>>
  BY DEF Makeshift
<1> HIDE DEF fd, b
<1>5. AtExit(s)  BY <1>1, <1>2, <1>3, Exits
<1> HIDE DEF s
<1>6. Typed'  BY <1>1, <1>2, <1>4 DEF Typed
<1>7. QED  BY <1>4, <1>5, <1>6, KeptAtRest DEF AtExit

\* CantConnect, EmptyResponse, LoadEnd, LoadFail: the request may be marked.
LEMMA MarkStep ==
    ASSUME IInv, Remember, NEW p \in Proc,
           CantConnect(p) \/ EmptyResponse(p) \/ LoadEnd(p) \/ LoadFail(p)
    PROVE  IInv'
<1>1. req[p] \in Request /\ Typed /\ Holds(p)  BY Mine
<1>2. ASSUME NEW b \in BOOLEAN, lock' = lock, Typed',
             \/ Becomes(p, [Exiting(req[p]) EXCEPT !.remove = b])
             \/ Becomes(p, [Exiting(req[p]) EXCEPT !.hcode = "ok", !.remove = b])
      PROVE  IInv'
  <2>1. /\ AtExit([Exiting(req[p]) EXCEPT !.remove = b])
        /\ AtExit([Exiting(req[p]) EXCEPT !.hcode = "ok", !.remove = b])
    BY <1>1, Exits
  <2>2. QED  BY <1>2, <2>1, KeptAtRest DEF AtExit
<1>3. CASE CantConnect(p)
  <2>1. CASE Makeshift(p, TRUE)  BY <2>1, MakeshiftStep
  <2>2. CASE ~Makeshift(p, TRUE)
    <3>1. /\ Becomes(p, [Exiting(req[p]) EXCEPT
                            !.remove = req[p].fd # None /\ Len(data[req[p].fd]) = 0])
          /\ UNCHANGED <<dir, data, lock, disturbed, stray>>
      BY <1>3, <2>2 DEF CantConnect
    <3>2. Typed' /\ lock' = lock  BY <1>1, <3>1 DEF Typed
    <3>3. (req[p].fd # None /\ Len(data[req[p].fd]) = 0) \in BOOLEAN  OBVIOUS
    <3>4. QED  BY <1>2, <3>1, <3>2, <3>3
  <2>3. QED  BY <2>1, <2>2
<1>4. CASE EmptyResponse(p)
  <2>1. CASE Makeshift(p, FALSE)  BY <2>1, MakeshiftStep
  <2>2. CASE ~Makeshift(p, FALSE)
    <3>1. /\ Becomes(p, [Exiting(req[p]) EXCEPT !.hcode = "ok", !.remove = req[p].fd # None])
          /\ UNCHANGED <<dir, data, lock, disturbed, stray>>
      BY <1>4, <2>2 DEF EmptyResponse
    <3>2. Typed' /\ lock' = lock  BY <1>1, <3>1 DEF Typed
    <3>3. (req[p].fd # None) \in BOOLEAN  OBVIOUS
    <3>4. QED  BY <1>2, <3>1, <3>2, <3>3
  <2>3. QED  BY <2>1, <2>2
<1>5. CASE LoadEnd(p)
  <2>1. PICK b \in BOOLEAN :
          /\ data' = IF b THEN data
                     ELSE [data EXCEPT ![req[p].fd] = Resized(@, req[p].off)]
          /\ Becomes(p, [Exiting(req[p]) EXCEPT !.remove = b])
    BY <1>5 DEF LoadEnd
  <2>2. req[p].fd \in Ino /\ req[p].off \in Nat
    <3>1. req[p].off \in 0 .. MaxBlocks  BY <1>1 DEF Request
    <3>2. QED  BY <1>1, <1>5, <3>1, CacheAssumption DEF LoadEnd, Holds
  <2>3. Resized(data[req[p].fd], req[p].off) \in Seq(Block)
    BY <1>1, <2>2, Blocks DEF Typed
  <2>4. Typed' /\ lock' = lock
    BY <1>1, <1>5, <2>1, <2>2, <2>3 DEF LoadEnd, Typed
  <2>5. QED  BY <1>2, <2>1, <2>4
<1>6. CASE LoadFail(p)
  <2>1. /\ Becomes(p, [Exiting(req[p]) EXCEPT !.remove = TRUE])
        /\ UNCHANGED <<dir, data, lock, disturbed, stray>>
    BY <1>6 DEF LoadFail
  <2>2. Typed' /\ lock' = lock  BY <1>1, <2>1 DEF Typed
  <2>3. QED  BY <1>2, <2>1, <2>2
<1>7. QED  BY <1>3, <1>4, <1>5, <1>6

\* Discard: the file is emptied.
LEMMA DiscardStep ==
    ASSUME IInv, Remember, NEW p \in Proc, Discard(p)
    PROVE  IInv'
<1>1. req[p] \in Request /\ Typed /\ Holds(p)  BY Mine
<1>2. PICK b \in BOOLEAN :
        BecomesTouching(p, [Exiting(req[p]) EXCEPT !.remove = b], req[p].fd)
  BY DEF Discard
<1>3. AtExit([Exiting(req[p]) EXCEPT !.remove = b])  BY <1>1, Exits
<1>4. Typed' /\ lock' = lock
  <2>1. <<>> \in Seq(Block)  OBVIOUS
  <2>2. QED  BY <1>1, <2>1 DEF Discard, Typed
<1>5. QED  BY <1>2, <1>3, <1>4, KeptAtRest DEF AtExit

\* A 304: the own lock is lost or kept, and nothing is written.
LEMMA NotModifiedStep ==
    ASSUME IInv, Remember, NEW p \in Proc, NotModified(p)
    PROVE  IInv'
<1> DEFINE r == req[p]
           popped == r.path = "loading" /\ Readable("doc")
           fd == IF popped THEN dir["doc"] ELSE r.fd
           ok == fd # None /\ data[fd] # <<>>
           broken == ok /\ ~Whole(data[fd])
           n == IF broken THEN "doc" ELSE r.path
           i == IF ok THEN fd ELSE None
           S(h) == [Exiting(r) EXCEPT !.fd = fd, !.hcode = h, !.path = n, !.remove = broken]
<1>1. r \in Request /\ Typed /\ TypeOK /\ r.fd \in Ino \cup {None}  BY Mine
<1>2. "doc" \in Name /\ "loading" \in Name /\ r.path \in Name /\ Exiting(r).path = r.path
  BY <1>1 DEF Name, Request, Exiting
<1>3. fd \in Ino \cup {None} /\ broken \in BOOLEAN /\ n \in Name
  BY <1>1, <1>2, Files
<1>4. PICK h \in {"ok", "err"} : BecomesTouching(p, S(h), i)
  BY <1>2 DEF NotModified
<1>5. /\ dir' \in {dir, [dir EXCEPT !["loading"] = None]} /\ data' = data
      /\ disturbed' = disturbed \/ (ok /\ disturbed' = disturbed \cup {fd})
      /\ stray' = stray
      /\ lock' \in {lock, Released(p)}
  BY DEF NotModified
<1>6. ok => fd \in Ino  BY <1>3
<1> HIDE DEF fd, broken, n, i, ok, popped
<1>7. AtExit(S(h))  BY <1>1, <1>3, Exits
<1> HIDE DEF S
<1>8. Typed'  BY <1>1, <1>2, <1>5, <1>6 DEF Typed
<1>9. QED  BY <1>4, <1>5, <1>7, <1>8, KeptAtRest DEF AtExit

\* A response begins: what is written to was locked before.
LEMMA RespondStep ==
    ASSUME IInv, Remember, NEW p \in Proc, Respond(p)
    PROVE  IInv'
<1> DEFINE r == req[p]
           L(h, n) == [r EXCEPT !.pc = "load", !.hcode = h, !.cdate = FALSE,
                                !.touched = FALSE, !.size = n, !.mine = r.fd]
<1>1. /\ r \in Request /\ Typed /\ TypeOK /\ Holds(p) /\ r.fd \in Ino \cup {None}
      /\ lock \in [Ino -> Proc \cup {None}]
  BY Mine
<1>2. Typed'  BY <1>1 DEF Respond, Typed
<1>3. PICK h \in {"ok", "err"}, n \in 1 .. MaxBlocks :
        \/ lock' = lock /\ Becomes(p, [Exiting(r) EXCEPT !.hcode = h])
        \/ lock' = lock /\ r.fd # None /\ Becomes(p, L(h, n))
        \/ /\ lock' = Released(p) /\ Named(r.path)
           /\ Becomes(p, [Exiting(r) EXCEPT !.hcode = h, !.fd = dir[r.path]])
  BY DEF Respond
<1>4. "load" \in PC /\ r.path \in Name  BY <1>1 DEF PC, Request
<1>5. L(h, n) \in Request /\ L(h, n).pc = "load" /\ L(h, n).fd = r.fd
  BY <1>1, <1>4 DEF Request
<1>6. r.fd # None => lock[r.fd] = p  BY <1>1 DEF Respond, Holds
<1> HIDE DEF L
<1>7. CASE lock' = lock /\ Becomes(p, [Exiting(r) EXCEPT !.hcode = h])
  <2>1. AtExit([Exiting(r) EXCEPT !.hcode = h])  BY <1>1, Exits
  <2>2. QED  BY <1>2, <1>7, <2>1, KeptAtRest DEF AtExit
<1>8. CASE lock' = lock /\ r.fd # None /\ Becomes(p, L(h, n))
  BY <1>1, <1>2, <1>5, <1>6, <1>8, Kept
<1>9. CASE /\ lock' = Released(p) /\ Named(r.path)
           /\ Becomes(p, [Exiting(r) EXCEPT !.hcode = h, !.fd = dir[r.path]])
  <2>1. dir[r.path] \in Ino  BY <1>1, <1>4, <1>9, Files
  <2>2. AtExit([Exiting(r) EXCEPT !.hcode = h, !.fd = dir[r.path]])
    BY <1>1, <2>1, Exits
  <2>3. QED  BY <1>2, <1>9, <2>2, KeptAtRest DEF AtExit
<1>10. QED  BY <1>3, <1>7, <1>8, <1>9

\* A block is written within the response.
LEMMA LoadBlockStep ==
    ASSUME IInv, Remember, NEW p \in Proc, LoadBlock(p)
    PROVE  IInv'
<1> DEFINE r == req[p]
           old == data[r.fd]
           len == IF Len(old) > r.off THEN Len(old) ELSE r.off + 1
           block == [by |-> p, nth |-> r.off + 1, size |-> r.size]
           new == [Resized(old, len) EXCEPT ![r.off + 1] = block]
           M(n) == [r EXCEPT !.off = n]
<1>1. /\ r \in Request /\ Typed /\ Holds(p) /\ lock \in [Ino -> Proc \cup {None}]
  BY Mine
<1>2. r.pc = "load" /\ r.off < r.size /\ r.fd \in Ino /\ lock[r.fd] = p
  BY <1>1, CacheAssumption DEF LoadBlock, Holds
<1>3. r.off \in 0 .. MaxBlocks /\ r.size \in 1 .. MaxBlocks  BY <1>1 DEF Request
<1>4. r.off + 1 \in 1 .. MaxBlocks /\ r.off + 1 \in 0 .. MaxBlocks /\ r.off \in Nat
  BY <1>2, <1>3, CacheAssumption
<1>5. /\ BecomesTouching(p, M(r.off + 1), r.fd) /\ data' = [data EXCEPT ![r.fd] = new]
      /\ UNCHANGED <<dir, lock, disturbed, stray>>
  BY DEF LoadBlock
<1>6. ASSUME NEW n \in 0 .. MaxBlocks
      PROVE  M(n) \in Request /\ M(n).pc = "load" /\ M(n).fd = r.fd
  BY <1>1, <1>2 DEF Request
<1>7. block \in Block  BY <1>3, <1>4 DEF Block
<1>8. old \in Seq(Block)  BY <1>1, <1>2 DEF Typed
<1>9. len \in Nat /\ r.off + 1 \in 1 .. len  BY <1>4, <1>8
<1> HIDE DEF M, r, old, block, len
<1>10. new \in Seq(Block)
  <2>1. Resized(old, len) \in Seq(Block) /\ DOMAIN Resized(old, len) = 1 .. len
    BY <1>8, <1>9, Blocks
  <2>2. new \in [1 .. len -> Block]  BY <1>7, <1>9, <2>1
  <2> HIDE DEF new
  <2>3. QED  BY <1>9, <2>2
<1> HIDE DEF new
<1>11. Typed'  BY <1>1, <1>2, <1>5, <1>10 DEF Typed
<1>12. QED  BY <1>1, <1>2, <1>4, <1>5, <1>6, <1>11, Kept

\* CacheClose, Done: the request is not read any more but for its name.
LEMMA CloseStep ==
    ASSUME IInv, Remember, NEW p \in Proc, CacheClose(p) \/ Done(p)
    PROVE  IInv'
<1> DEFINE r == req[p]
           C(x) == [r EXCEPT !.pc = x, !.fd = None]
           D(x) == [r EXCEPT !.pc = x, !.hcode = "none", !.remove = FALSE]
<1>1. r \in Request /\ Typed  BY Mine
<1>2. Typed' /\ lock' \in {lock, Released(p)}  BY <1>1 DEF CacheClose, Done, Typed
<1>3. ASSUME NEW x \in PC
      PROVE  /\ C(x) \in Request /\ C(x).pc = x
             /\ D(x) \in Request /\ D(x).pc = x
  BY <1>1 DEF Request
<1>4. \/ Becomes(p, C("closed")) \/ Becomes(p, D("unlink")) \/ Becomes(p, D("rename"))
      \/ Becomes(p, Ended)
  BY DEF CacheClose, Done, Outcome
<1>5. "closed" \in PC /\ "unlink" \in PC /\ "rename" \in PC  BY DEF PC
<1> HIDE DEF C, D
<1>6. ASSUME NEW s \in Request, Becomes(p, s), s.pc \in {"closed", "unlink", "rename", "end"}
      PROVE  IInv'
  BY <1>2, <1>6, KeptAtRest
<1>7. Ended \in Request /\ Ended.pc = "end"  BY Requests
<1>8. QED  BY <1>3, <1>4, <1>5, <1>6, <1>7

\* Unlink, Rename, Crash, Abort: the request is over.
LEMMA EndStep ==
    ASSUME IInv, Remember, NEW p \in Proc,
           Unlink(p) \/ Rename(p) \/ Crash(p) \/ Abort(p)
    PROVE  IInv'
<1>1. req[p] \in Request /\ Typed /\ TypeOK /\ req[p].fd \in Ino \cup {None}  BY Mine
<1>2. "doc" \in Name /\ "loading" \in Name /\ req[p].path \in Name
  BY <1>1 DEF Name, Request
<1>3. /\ Becomes(p, Ended) \/ BecomesTouching(p, Ended, req[p].fd)
      /\ lock' \in {lock, Released(p)}
  BY DEF Unlink, Rename, Crash, Abort
<1>4. Typed'
  <2>1. CASE Unlink(p)  BY <1>1, <1>2, <2>1 DEF Unlink, Typed
  <2>2. CASE Rename(p)
    <3>1. CASE Named("loading")
      <4>1. dir["loading"] \in Ino  BY <1>1, <1>2, <3>1, Files
      <4>2. [doc |-> dir["loading"], loading |-> None] \in [Name -> Ino \cup {None}]
        BY <4>1 DEF Name
      <4>3. QED  BY <1>1, <2>2, <3>1, <4>1, <4>2 DEF Rename, Typed
    <3>2. CASE ~Named("loading")  BY <1>1, <2>2, <3>2 DEF Rename, Typed
    <3>3. QED  BY <3>1, <3>2
  <2>3. CASE Crash(p)  BY <1>1, <2>3 DEF Crash, Typed
  <2>4. CASE Abort(p)
    <3>1. <<>> \in Seq(Block)  OBVIOUS
    <3>2. QED  BY <1>1, <2>4, <3>1 DEF Abort, Typed
  <2>5. QED  BY <2>1, <2>2, <2>3, <2>4
<1>5. Ended \in Request /\ Ended.pc = "end"  BY Requests
<1>6. QED  BY <1>3, <1>4, <1>5, KeptAtRest

-----------------------------------------------------------------------------
(* The theorems. *)

\* The invariant holds when the server is started, with any leftovers.
LEMMA Start == Init => IInv
<1> SUFFICES ASSUME Init PROVE IInv  OBVIOUS
<1>1. Ino0 \in Ino /\ Ino1 \in Ino  BY CacheAssumption DEF Ino0, Ino1
<1>2. dir \in [Name -> Ino \cup {None}]  BY <1>1 DEF Init
<1>3. data \in [Ino -> Seq(Block)]
  <2>1. <<>> \in Seq(Block)  OBVIOUS
  <2>2. \A n \in 1 .. MaxBlocks : Response(None, n) \in Seq(Block)  BY Blocks
  <2>3. ASSUME NEW n \in 1 .. MaxBlocks - 1
        PROVE  SubSeq(Response(None, MaxBlocks), 1, n) \in Seq(Block)
    <3>1. MaxBlocks \in 1 .. MaxBlocks  BY CacheAssumption
    <3>2. Response(None, MaxBlocks) \in Seq(Block)  BY <2>2, <3>1
    <3>3. Len(Response(None, MaxBlocks)) = MaxBlocks
      BY CacheAssumption DEF Response
    <3>4. QED  BY <3>2, <3>3, CacheAssumption
  <2> DEFINE S == {<<>>} \cup {Response(None, n) : n \in 1 .. MaxBlocks}
                 \cup {SubSeq(Response(None, MaxBlocks), 1, n) : n \in 1 .. MaxBlocks - 1}
  <2>4. S \subseteq Seq(Block)  BY <2>1, <2>2, <2>3
  <2>5. data \in [Ino -> S]  BY DEF Init
  <2> HIDE DEF S
  <2>6. QED  BY <2>4, <2>5
<1>4. \A p \in Proc : req[p] \in Request /\ req[p].pc = "read"
  BY Requests DEF Init
<1>5. req \in [Proc -> Request]
  <2>1. \A x, y \in BOOLEAN : NewRequest(x, y) \in Request  BY Requests
  <2>2. QED  BY <2>1 DEF Init
<1>6. TypeOK
  BY <1>2, <1>3, <1>5, CacheAssumption DEF Init, TypeOK
<1>7. \A p \in Proc : Holds(p)  BY <1>4 DEF Holds
<1>8. QED  BY <1>6, <1>7 DEF IInv

\* Every step keeps it.
LEMMA Steps == IInv /\ [Next]_vars => IInv'
<1> SUFFICES ASSUME IInv, [Next]_vars PROVE IInv'  OBVIOUS
<1>1. ASSUME NEW p \in Proc, Own(p), Remember PROVE IInv'
  BY <1>1, RetryReadStep, RelayStep, MakeStep, LockStep, RecvStep, CloseStep, EndStep
     DEF Own
<1>2. ASSUME NEW p \in Proc, Server(p), Remember PROVE IInv'
  BY <1>2, RelayStep, MarkStep, DiscardStep, NotModifiedStep, RespondStep, LoadBlockStep
     DEF Server
<1>3. ASSUME NEW p \in Proc, Crash(p) \/ Abort(p), Remember PROVE IInv'
  BY <1>3, EndStep
<1>4. CASE UNCHANGED vars
  BY <1>4 DEF vars, IInv, TypeOK, Holds
<1>5. QED  BY <1>1, <1>2, <1>3, <1>4 DEF Next

\* The invariant holds in every reachable state.
THEOREM Inductive == Spec => []IInv
  BY Start, Steps, PTL DEF Spec

(***************************************************************************)
(* Every variable keeps its type, for any number of requests and files and *)
(* responses of any length: no action of doCache, of the relaying or of    *)
(* HTcache_done leaves a request, a name or a file in an undefined state.  *)
(***************************************************************************)
THEOREM TypeCorrect == Spec => []TypeOK
<1>1. IInv => TypeOK  BY DEF IInv
<1>2. QED  BY <1>1, Inductive, PTL

(***************************************************************************)
(* Two processes never download into the same file at the same time,       *)
(* however names are removed, renamed and made anew while files are open:  *)
(* who is downloading holds the lock of the file it has open.              *)
(***************************************************************************)
THEOREM SingleWriter == Spec => []OneWriter
<1>1. IInv => OneWriter
  BY CacheAssumption DEF IInv, Holds, OneWriter
<1>2. QED  BY <1>1, Inductive, PTL

-----------------------------------------------------------------------------
(* What is in the files. *)

(***************************************************************************)
(* The second invariant, of what is in the files.  A file is followed from *)
(* the lock to the rename as long as it is not Marked:                     *)
(*   Fills     what a request has downloaded so far is the beginning of    *)
(*             its response, and nobody else writes there; once it may     *)
(*             publish the file it is Good: all of the response, or empty  *)
(*             and not the file that will be renamed;                      *)
(*   DocQuiet  what has been published is whole and nobody writes there;   *)
(*   Paths     which name a request will remove or rename;                 *)
(*   Peace     while no file at all has been Marked, the document a        *)
(*             request has seen is still there, and no request is going to *)
(*             remove it.                                                  *)
(***************************************************************************)
\* Of these files nothing is claimed.
Marked == disturbed \cup stray
Writes(p, i) == req[p].pc \in {"fetch", "load"} /\ req[p].fd = i
Written(p, i) ==
    /\ req[p].off <= Len(data[i])
    /\ \A n \in 1 .. req[p].off : data[i][n] = Response(p, req[p].size)[n]
Publishes(p) ==
    req[p].pc = "rename" \/ (req[p].pc \in {"exit", "closed"} /\ ~req[p].remove)
Good(p) ==
    \/ Whole(data[req[p].mine])
    \/ /\ data[req[p].mine] = <<>>
       /\ req[p].pc = "rename" => dir["loading"] # req[p].mine
Fills(p) ==
    /\ req[p].mine # None => req[p].pc \in {"load", "exit", "closed", "unlink", "rename"}
    /\ req[p].pc = "load" => req[p].mine = req[p].fd /\ req[p].off <= req[p].size
    /\ req[p].pc # "load" => req[p].off = 0
    /\ req[p].mine \in Ino \ Marked =>
         /\ req[p].pc = "load" => Written(p, req[p].mine)
         /\ Publishes(p) => Good(p)
         /\ \A q \in Proc \ {p} : ~Writes(q, req[p].mine)
DocQuiet ==
    /\ Named("doc") => dir["doc"] # dir["loading"]
    /\ Named("doc") /\ dir["doc"] \notin Marked =>
         /\ Whole(data[dir["doc"]])
         /\ \A q \in Proc : ~Writes(q, dir["doc"])
Paths(p) ==
    /\ req[p].pc \in {"lock", "recv", "fetch", "load"} /\ req[p].fd # None =>
         req[p].path = "loading"
    /\ req[p].remove => req[p].pc \in {"exit", "closed"}
Peaceful(p) ==
    /\ req[p].pc = "serve" =>
         /\ Whole(data[req[p].fd]) /\ dir["loading"] # req[p].fd
         /\ \A q \in Proc : ~Writes(q, req[p].fd)
    /\ req[p].cdate => Named("doc")
    /\ req[p].pc \in {"exit", "closed"} /\ req[p].path = "doc" => ~req[p].remove
    /\ req[p].pc = "unlink" => req[p].path = "loading"
Peace == calm => Marked = {} /\ \A p \in Proc : Peaceful(p)
JInv == (\A p \in Proc : Fills(p) /\ Paths(p)) /\ DocQuiet /\ Peace

\* The other requests are the same but for touched.
Same(s, r) ==
    /\ s.pc = r.pc /\ s.path = r.path /\ s.fd = r.fd /\ s.cdate = r.cdate
    /\ s.remove = r.remove /\ s.off = r.off /\ s.size = r.size /\ s.mine = r.mine
\* An action of p replaces the record of p; of the others it changes at most touched.
LEMMA OthersStay ==
    ASSUME req \in [Proc -> Request], NEW p \in Proc, NEW r \in Request, NEW i,
           Becomes(p, r) \/ BecomesTouching(p, r, i)
    PROVE  /\ req'[p] = r
           /\ \A q \in Proc \ {p} : Same(req'[q], req[q])
<1>1. CASE Becomes(p, r)
  BY <1>1 DEF Becomes, Same
<1>2. CASE BecomesTouching(p, r, i)
  <2>1. \A q \in Proc : LET t == [req[q] EXCEPT !.touched = TRUE] IN Same(t, req[q])
    BY DEF Request, Same
  <2>2. \A q \in Proc : Same(req[q], req[q])  BY DEF Same
  <2>3. QED  BY <1>2, <2>1, <2>2 DEF BecomesTouching
<1>3. QED  BY <1>1, <1>2

\* A whole response is not empty.
LEMMA WholeIsSome ==
    ASSUME NEW s, Whole(s)
    PROVE  Len(s) > 0 /\ s # <<>>
<1>1. PICK b \in Block : s = Response(b.by, b.size)  BY DEF Whole
<1>2. b.size \in 1 .. MaxBlocks  BY DEF Block
<1>3. Len(s) = b.size  BY <1>1, <1>2, CacheAssumption DEF Response
<1>4. Len(<<>>) = 0  OBVIOUS
<1>5. QED  BY <1>2, <1>3, <1>4, CacheAssumption

\* A step that neither opens the file of another one for writing nor takes a history back.
Modest(p, s) ==
    /\ \A j \in Ino : data'[j] = data[j] \/ Writes(p, j)
    /\ Marked \subseteq Marked'
    /\ s.pc \in {"fetch", "load"} => s.fd = None \/ Writes(p, s.fd)

\* A modest step of p keeps what the invariant says of the other requests.
LEMMA OthersKept ==
    ASSUME IInv, JInv, NEW p \in Proc, NEW s \in Request, NEW i,
           Becomes(p, s) \/ BecomesTouching(p, s, i), Modest(p, s),
           dir'["loading"] \in {dir["loading"], None}
    PROVE  /\ \A q \in Proc \ {p} : Fills(q)' /\ Paths(q)'
           /\ \A q \in Proc, j \in Ino : Writes(q, j)' => Writes(q, j)
<1>1. req'[p] = s /\ \A q \in Proc \ {p} : Same(req'[q], req[q])
  BY OthersStay DEF IInv, TypeOK
<1>2. \A q \in Proc, j \in Ino : Writes(q, j)' => Writes(q, j)
  BY <1>1, CacheAssumption DEF Writes, Same, Modest
<1>3. ASSUME NEW q \in Proc \ {p} PROVE Fills(q)'
  <2>1. Fills(q) /\ Same(req'[q], req[q])  BY <1>1 DEF JInv
  <2>2. ASSUME req'[q].mine \in Ino \ Marked'
        PROVE  /\ req'[q].pc = "load" => Written(q, req[q].mine)'
               /\ Publishes(q)' => Good(q)'
               /\ \A x \in Proc \ {q} : ~Writes(x, req[q].mine)'
    <3>1. req[q].mine \in Ino \ Marked  BY <2>1, <2>2 DEF Modest, Same
    <3>2. \A x \in Proc \ {q} : ~Writes(x, req[q].mine)  BY <2>1, <3>1 DEF Fills
    <3>3. data'[req[q].mine] = data[req[q].mine]  BY <3>1, <3>2 DEF Modest
    <3>4. Good(q) => Good(q)'  BY <2>1, <3>1, <3>3, CacheAssumption DEF Good, Same
    <3>5. QED  BY <1>2, <2>1, <3>1, <3>2, <3>3, <3>4 DEF Fills, Same, Written, Publishes
  <2>3. QED  BY <2>1, <2>2 DEF Fills, Same
<1>4. ASSUME NEW q \in Proc \ {p} PROVE Paths(q)'
  BY <1>1 DEF JInv, Paths, Same
<1>5. QED  BY <1>2, <1>3, <1>4

\* The same when names may be taken away, but not the one of the document in peace.
Shrinks ==
    /\ dir'["loading"] \in {dir["loading"], None}
    /\ dir'["doc"] \in {dir["doc"], None}
    /\ calm' => dir'["doc"] = dir["doc"]

\* A modest step that renames nothing keeps JInv if it keeps the parts about p itself.
LEMMA JKept ==
    ASSUME IInv, JInv, Remember, NEW p \in Proc, NEW s \in Request, NEW i,
           Becomes(p, s) \/ BecomesTouching(p, s, i), Modest(p, s), Shrinks,
           Fills(p)', Paths(p)', calm' => Peaceful(p)'
    PROVE  JInv'
<1>1. req'[p] = s /\ \A q \in Proc \ {p} : Same(req'[q], req[q])
  BY OthersStay DEF IInv, TypeOK
<1>2. /\ \A q \in Proc \ {p} : Fills(q)' /\ Paths(q)'
      /\ \A q \in Proc, j \in Ino : Writes(q, j)' => Writes(q, j)
  BY OthersKept DEF Shrinks
<1>3. dir \in [Name -> Ino \cup {None}] /\ "doc" \in Name  BY DEF IInv, TypeOK, Name
<1>4. DocQuiet'
  <2>1. CASE ~Named("doc")'  BY <2>1 DEF DocQuiet
  <2>2. CASE Named("doc")'
    <3>1. dir'["doc"] = dir["doc"] /\ Named("doc") /\ dir["doc"] \in Ino
      BY <2>2, <1>3 DEF Shrinks, Named
    <3>2. dir'["doc"] # dir'["loading"]
      BY <3>1, CacheAssumption DEF JInv, DocQuiet, Shrinks
    <3>3. ASSUME dir'["doc"] \notin Marked'
          PROVE  Whole(data'[dir'["doc"]]) /\ \A q \in Proc : ~Writes(q, dir["doc"])'
      <4>1. dir["doc"] \notin Marked  BY <3>1, <3>3 DEF Modest
      <4>2. Whole(data[dir["doc"]]) /\ \A q \in Proc : ~Writes(q, dir["doc"])
        BY <3>1, <4>1 DEF JInv, DocQuiet
      <4>3. data'[dir["doc"]] = data[dir["doc"]]  BY <3>1, <4>2 DEF Modest
      <4>4. QED  BY <1>2, <3>1, <4>2, <4>3 DEF Writes
    <3>4. QED  BY <3>2, <3>3 DEF DocQuiet
  <2>3. QED  BY <2>1, <2>2
<1>5. Peace'
  <2>1. SUFFICES ASSUME calm' PROVE Marked' = {} /\ \A q \in Proc : Peaceful(q)'
    BY DEF Peace
  <2>2. calm /\ Marked = {} /\ Marked' = {}  BY <2>1 DEF Remember, JInv, Peace, Marked
  <2>3. ASSUME NEW q \in Proc \ {p} PROVE Peaceful(q)'
    <3>1. Peaceful(q) /\ Same(req'[q], req[q])  BY <1>1, <2>2 DEF JInv, Peace
    <3>2. ASSUME req'[q].pc = "serve"
          PROVE  /\ Whole(data'[req[q].fd]) /\ dir'["loading"] # req[q].fd
                 /\ \A x \in Proc : ~Writes(x, req[q].fd)'
      <4>1. req[q].fd \in Ino  BY <3>1, <3>2 DEF IInv, Holds, Same
      <4>2. /\ Whole(data[req[q].fd]) /\ dir["loading"] # req[q].fd
            /\ \A x \in Proc : ~Writes(x, req[q].fd)
        BY <3>1, <3>2 DEF Peaceful, Same
      <4>3. data'[req[q].fd] = data[req[q].fd]  BY <4>1, <4>2 DEF Modest
      <4>4. req'[q].fd = req[q].fd  BY <3>1 DEF Same
      <4>5. \A x \in Proc : ~Writes(x, req[q].fd)'  BY <1>2, <4>1, <4>2, <4>4 DEF Writes
      <4>6. QED  BY <4>1, <4>2, <4>3, <4>5, CacheAssumption DEF Shrinks
    <3>3. QED  BY <2>1, <3>1, <3>2 DEF Peaceful, Same, Shrinks, Named
  <2>4. QED  BY <2>1, <2>2, <2>3
<1>6. QED  BY <1>2, <1>4, <1>5 DEF JInv

\* The fields of an exit.
ExitOf(s, r, f, n, b) ==
    /\ s \in Request /\ s.pc = "exit" /\ s.mine = r.mine /\ s.off = 0 /\ s.cdate = FALSE
    /\ s.fd = f /\ s.path = n /\ s.remove = b
\* The fields of an exit that JInv looks at, for every form of exit.
LEMMA ExitsAs ==
    ASSUME NEW r \in Request, NEW h \in {"none", "ok", "err"}, NEW b \in BOOLEAN,
           NEW n \in Name, NEW f \in Ino \cup {None}
    PROVE  /\ ExitOf(Exiting(r), r, r.fd, r.path, r.remove)
           /\ ExitOf([Exiting(r) EXCEPT !.remove = b], r, r.fd, r.path, b)
           /\ ExitOf([Exiting(r) EXCEPT !.hcode = h], r, r.fd, r.path, r.remove)
           /\ ExitOf([Exiting(r) EXCEPT !.hcode = h, !.remove = b], r, r.fd, r.path, b)
           /\ ExitOf([Exiting(r) EXCEPT !.hcode = h, !.fd = f], r, f, r.path, r.remove)
           /\ ExitOf([Exiting(r) EXCEPT !.path = n, !.fd = f, !.hcode = h, !.remove = b],
                     r, f, n, b)
           /\ ExitOf([Exiting(r) EXCEPT !.fd = f, !.hcode = h, !.path = n, !.remove = b],
                     r, f, n, b)
<1> DEFINE e == Exiting(r)
<1>1. ExitOf(e, r, r.fd, r.path, r.remove)
  <2>1. e \in Request /\ e.pc = "exit" /\ e.fd = r.fd  BY Requests
  <2>2. /\ e.mine = r.mine /\ e.off = 0 /\ e.cdate = FALSE
        /\ e.path = r.path /\ e.remove = r.remove
    BY DEF Exiting, Request
  <2>3. QED  BY <2>1, <2>2 DEF ExitOf
<1> HIDE DEF e
<1>2. ExitOf([e EXCEPT !.remove = b], r, r.fd, r.path, b)
  BY <1>1 DEF ExitOf, Request
<1>3. ExitOf([e EXCEPT !.hcode = h], r, r.fd, r.path, r.remove)
  BY <1>1 DEF ExitOf, Request
<1>4. ExitOf([e EXCEPT !.hcode = h, !.remove = b], r, r.fd, r.path, b)
  BY <1>1 DEF ExitOf, Request
<1>5. ExitOf([e EXCEPT !.hcode = h, !.fd = f], r, f, r.path, r.remove)
  BY <1>1 DEF ExitOf, Request
<1>6. ExitOf([e EXCEPT !.path = n, !.fd = f, !.hcode = h, !.remove = b], r, f, n, b)
  BY <1>1 DEF ExitOf, Request
<1>7. ExitOf([e EXCEPT !.fd = f, !.hcode = h, !.path = n, !.remove = b], r, f, n, b)
  BY <1>1 DEF ExitOf, Request
<1>8. QED  BY <1>1, <1>2, <1>3, <1>4, <1>5, <1>6, <1>7 DEF e

\* An exit of a request that has downloaded nothing.
LEMMA JExit ==
    ASSUME IInv, JInv, Remember, NEW p \in Proc, NEW s, NEW i, NEW f, NEW n, NEW b,
           Becomes(p, s) \/ BecomesTouching(p, s, i), ExitOf(s, req[p], f, n, b),
           req[p].pc \in {"serve", "relay", "fetch"},
           data' = data, Marked \subseteq Marked', Shrinks,
           calm' /\ n = "doc" => ~b
    PROVE  JInv'
<1>1. s \in Request /\ req'[p] = s  BY OthersStay DEF IInv, TypeOK, ExitOf
<1>2. Modest(p, s)  BY DEF Modest, ExitOf
<1>3. req[p].mine = None  BY DEF JInv, Fills
<1>4. Fills(p)'  BY <1>1, <1>3, CacheAssumption DEF Fills, ExitOf
<1>5. Paths(p)'  BY <1>1 DEF Paths, ExitOf
<1>6. calm' => Peaceful(p)'  BY <1>1 DEF Peaceful, ExitOf
<1>7. QED  BY <1>1, <1>2, <1>4, <1>5, <1>6, JKept

\* What the invariants say of the request of a process.
LEMMA JMine ==
    ASSUME IInv, JInv, NEW p \in Proc
    PROVE  /\ req[p] \in Request /\ TypeOK /\ Holds(p) /\ Fills(p) /\ Paths(p)
           /\ req[p].fd \in Ino \cup {None} /\ req[p].mine \in Ino \cup {None}
           /\ req[p].path \in Name
           /\ req[p].off \in 0 .. MaxBlocks /\ req[p].size \in 1 .. MaxBlocks
           /\ "doc" \in Name /\ "loading" \in Name
           /\ req[p].pc \notin {"exit", "closed"} => req[p].remove = FALSE
           /\ calm => Peaceful(p) /\ Marked = {}
<1>1. req[p] \in Request /\ TypeOK /\ Holds(p) /\ Fills(p) /\ Paths(p)
  BY DEF IInv, TypeOK, JInv
<1>2. req[p].remove \in BOOLEAN  BY <1>1 DEF Request
<1>3. QED  BY <1>1, <1>2 DEF Request, Name, JInv, Peace, Paths

\* In peace the document is whole, so it can be read.
LEMMA DocInPeace ==
    ASSUME IInv, JInv, calm, Named("doc")
    PROVE  /\ dir["doc"] \in Ino /\ Whole(data[dir["doc"]])
           /\ dir["doc"] # dir["loading"] /\ \A q \in Proc : ~Writes(q, dir["doc"])
           /\ Len(data[dir["doc"]]) > 0 /\ data[dir["doc"]] # <<>> /\ Readable("doc")
<1>1. dir["doc"] \in Ino  BY DEF IInv, TypeOK, Name, Named
<1>2. /\ Whole(data[dir["doc"]]) /\ dir["doc"] # dir["loading"]
      /\ \A q \in Proc : ~Writes(q, dir["doc"])
  BY DEF JInv, Peace, DocQuiet
<1>3. Len(data[dir["doc"]]) > 0 /\ data[dir["doc"]] # <<>>  BY <1>2, WholeIsSome
<1>4. Readable("doc")  BY <1>3 DEF Readable, FileSize
<1>5. QED  BY <1>1, <1>2, <1>3, <1>4

\* Serve, RelayDistribution, ServerError, and a response without a file.
LEMMA JRelay ==
    ASSUME IInv, JInv, Remember, NEW p \in Proc,
           Serve(p) \/ RelayDistribution(p) \/ ServerError(p)
    PROVE  JInv'
<1>1. PICK h \in {"ok", "err"} : Becomes(p, [Exiting(req[p]) EXCEPT !.hcode = h])
  BY DEF Serve, RelayDistribution, ServerError
<1>2. req[p].pc \in {"serve", "relay", "fetch"} /\ data' = data /\ Marked' = Marked
  BY DEF Serve, RelayDistribution, ServerError, Marked
<1>3. ExitOf([Exiting(req[p]) EXCEPT !.hcode = h], req[p], req[p].fd, req[p].path, FALSE)
  BY <1>2, JMine, ExitsAs
<1>4. Shrinks
  <2>1. CASE Serve(p)
    <3>1. calm' => calm  BY DEF Remember
    <3>2. calm => Whole(data[req[p].fd])  BY <2>1, JMine DEF Serve, Peaceful
    <3>3. dir \in [Name -> Ino \cup {None}] /\ "doc" \in Name /\ "loading" \in Name
      BY DEF IInv, TypeOK, Name
    <3>4. QED  BY <2>1, <3>1, <3>2, <3>3 DEF Serve, Shrinks
  <2>2. CASE ~Serve(p)  BY <2>2 DEF RelayDistribution, ServerError, Shrinks
  <2>3. QED  BY <2>1, <2>2
<1>5. QED  BY <1>1, <1>2, <1>3, <1>4, JExit

\* Makeshift: in peace the document of cdate is still there to be used.
LEMMA JMakeshift ==
    ASSUME IInv, JInv, Remember, NEW p \in Proc, NEW sized \in BOOLEAN, Makeshift(p, sized),
           req[p].pc = "fetch", req[p].cdate
    PROVE  JInv'
<1> DEFINE fd == IF Readable("doc") THEN dir["doc"] ELSE req[p].fd
           b == sized /\ Len(data[fd]) = 0
           s == [Exiting(req[p]) EXCEPT !.path = "doc", !.fd = fd, !.hcode = "ok", !.remove = b]
<1>1. /\ Becomes(p, s) /\ dir' = [dir EXCEPT !["loading"] = None]
      /\ data' = data /\ Marked' = Marked
  BY DEF Makeshift, Marked
<1>2. dir \in [Name -> Ino \cup {None}] /\ "doc" \in Name /\ "loading" \in Name
  BY DEF IInv, TypeOK, Name
<1>3. fd \in Ino \cup {None} /\ b \in BOOLEAN  BY <1>2, JMine
<1>4. calm' => ~b
  <2>1. ASSUME calm' PROVE ~b
    <3>1. calm /\ Named("doc")  BY <2>1, JMine DEF Remember, Peaceful
    <3>2. Readable("doc") /\ Len(data[dir["doc"]]) > 0  BY <3>1, DocInPeace
    <3>3. data[dir["doc"]] \in Seq(Block) /\ fd = dir["doc"]
      BY <1>2, <3>1, <3>2 DEF Named, IInv, TypeOK
    <3>4. QED  BY <3>2, <3>3
  <2>2. QED  BY <2>1
<1>5. Shrinks  BY <1>1, <1>2 DEF Shrinks
<1> HIDE DEF fd, b
<1>6. ExitOf(s, req[p], fd, "doc", b)  BY <1>2, <1>3, JMine, ExitsAs
<1> HIDE DEF s
<1>7. QED  BY <1>1, <1>4, <1>5, <1>6, JExit

\* CantConnect, EmptyResponse: a request with a file removes the name "loading".
LEMMA JEmpty ==
    ASSUME IInv, JInv, Remember, NEW p \in Proc, CantConnect(p) \/ EmptyResponse(p)
    PROVE  JInv'
<1>1. req[p].pc = "fetch"  BY DEF CantConnect, EmptyResponse
<1>2. ASSUME NEW b \in BOOLEAN, UNCHANGED <<dir, data, Marked>>, b => req[p].fd # None,
             \/ Becomes(p, [Exiting(req[p]) EXCEPT !.remove = b])
             \/ Becomes(p, [Exiting(req[p]) EXCEPT !.hcode = "ok", !.remove = b])
      PROVE  JInv'
  <2> DEFINE s1 == [Exiting(req[p]) EXCEPT !.remove = b]
             s2 == [Exiting(req[p]) EXCEPT !.hcode = "ok", !.remove = b]
  <2>1. /\ ExitOf(s1, req[p], req[p].fd, req[p].path, b)
        /\ ExitOf(s2, req[p], req[p].fd, req[p].path, b)
    BY JMine, ExitsAs
  <2>2. b => req[p].path = "loading"  BY <1>1, <1>2, JMine DEF Paths
  <2>3. Shrinks  BY <1>2 DEF Shrinks
  <2>4. Becomes(p, s1) \/ Becomes(p, s2)  BY <1>2
  <2> HIDE DEF s1, s2
  <2>5. QED  BY <1>1, <1>2, <2>1, <2>2, <2>3, <2>4, JExit
<1>3. CASE CantConnect(p)
  <2>1. CASE req[p].cdate /\ Makeshift(p, TRUE)  BY <1>1, <2>1, JMakeshift
  <2>2. CASE ~(req[p].cdate /\ Makeshift(p, TRUE))
    <3>1. /\ Becomes(p, [Exiting(req[p]) EXCEPT
                            !.remove = req[p].fd # None /\ Len(data[req[p].fd]) = 0])
          /\ UNCHANGED <<dir, data, lock, Marked>>
      BY <1>3, <2>2 DEF CantConnect, Marked
    <3>2. (req[p].fd # None /\ Len(data[req[p].fd]) = 0) \in BOOLEAN  OBVIOUS
    <3>3. QED  BY <1>2, <3>1, <3>2
  <2>3. QED  BY <2>1, <2>2
<1>4. CASE EmptyResponse(p)
  <2>1. CASE req[p].cdate /\ Makeshift(p, FALSE)  BY <1>1, <2>1, JMakeshift
  <2>2. CASE ~(req[p].cdate /\ Makeshift(p, FALSE))
    <3>1. /\ Becomes(p, [Exiting(req[p]) EXCEPT !.hcode = "ok", !.remove = req[p].fd # None])
          /\ UNCHANGED <<dir, data, lock, Marked>>
      BY <1>4, <2>2 DEF EmptyResponse, Marked
    <3>2. (req[p].fd # None) \in BOOLEAN  OBVIOUS
    <3>3. QED  BY <1>2, <3>1, <3>2
  <2>3. QED  BY <2>1, <2>2
<1>5. QED  BY <1>3, <1>4

\* A 304: a document that is used in peace is not broken.
LEMMA JNotModified ==
    ASSUME IInv, JInv, Remember, NEW p \in Proc, NotModified(p)
    PROVE  JInv'
<1> DEFINE r == req[p]
           popped == r.path = "loading" /\ Readable("doc")
           fd == IF popped THEN dir["doc"] ELSE r.fd
           ok == fd # None /\ data[fd] # <<>>
           broken == ok /\ ~Whole(data[fd])
           n == IF broken THEN "doc" ELSE r.path
           i == IF ok THEN fd ELSE None
           S(h) == [Exiting(r) EXCEPT !.fd = fd, !.hcode = h, !.path = n, !.remove = broken]
<1>1. /\ r \in Request /\ TypeOK /\ r.fd \in Ino \cup {None} /\ r.path \in Name
      /\ "doc" \in Name /\ "loading" \in Name /\ Exiting(r).path = r.path
  BY JMine DEF Exiting, Request
<1>2. fd \in Ino \cup {None} /\ broken \in BOOLEAN /\ n \in Name
  BY <1>1, Files
<1>3. PICK h \in {"ok", "err"} : BecomesTouching(p, S(h), i)
  BY <1>1 DEF NotModified
<1>4. /\ dir' \in {dir, [dir EXCEPT !["loading"] = None]} /\ data' = data
      /\ Marked' = Marked \/ (ok /\ ~popped /\ Marked' = Marked \cup {fd})
      /\ ok /\ ~popped => Marked' = Marked \cup {fd}
      /\ r.pc = "fetch"
  BY DEF NotModified, Marked
<1>5. calm' => ~broken
  <2>1. ASSUME calm', broken PROVE FALSE
    <3>1. calm /\ Marked = {} /\ Marked' = {}
      BY <2>1 DEF Remember, JInv, Peace, Marked
    <3>2. popped  BY <1>4, <2>1, <3>1
    <3>3. Named("doc") /\ fd = dir["doc"]  BY <3>2 DEF Readable
    <3>4. QED  BY <2>1, <3>1, <3>3, DocInPeace
  <2>2. QED  BY <2>1
<1>6. Shrinks  BY <1>1, <1>4 DEF Shrinks, TypeOK
<1> HIDE DEF fd, broken, n, i, ok, popped
<1>7. ExitOf(S(h), r, fd, n, broken)  BY <1>1, <1>2, ExitsAs
<1> HIDE DEF S
<1>8. QED  BY <1>3, <1>4, <1>5, <1>6, <1>7, JExit

\* A response begins: in a locked file, where nobody else writes, nothing is written yet.
LEMMA JRespond ==
    ASSUME IInv, JInv, Remember, NEW p \in Proc, Respond(p)
    PROVE  JInv'
<1> DEFINE r == req[p]
           L(h, n) == [r EXCEPT !.pc = "load", !.hcode = h, !.cdate = FALSE,
                                !.touched = FALSE, !.size = n, !.mine = r.fd]
<1>1. /\ r \in Request /\ TypeOK /\ Holds(p) /\ r.fd \in Ino \cup {None} /\ r.path \in Name
      /\ Fills(p) /\ Paths(p) /\ r.remove = FALSE /\ r.pc = "fetch"
  BY JMine DEF Respond
<1>2. UNCHANGED <<dir, data, Marked>>  BY DEF Respond, Marked
<1>3. PICK h \in {"ok", "err"}, n \in 1 .. MaxBlocks :
        \/ Becomes(p, [Exiting(r) EXCEPT !.hcode = h])
        \/ r.fd # None /\ Becomes(p, L(h, n))
        \/ /\ Named(r.path)
           /\ Becomes(p, [Exiting(r) EXCEPT !.hcode = h, !.fd = dir[r.path]])
  BY DEF Respond
<1>4. Shrinks  BY <1>2 DEF Shrinks
<1>5. CASE Becomes(p, [Exiting(r) EXCEPT !.hcode = h])
  <2>1. ExitOf([Exiting(r) EXCEPT !.hcode = h], r, r.fd, r.path, FALSE)  BY <1>1, ExitsAs
  <2>2. QED  BY <1>1, <1>2, <1>4, <1>5, <2>1, JExit
<1>6. CASE /\ Named(r.path)
           /\ Becomes(p, [Exiting(r) EXCEPT !.hcode = h, !.fd = dir[r.path]])
  <2>1. dir[r.path] \in Ino  BY <1>1, <1>6, Files
  <2>2. ExitOf([Exiting(r) EXCEPT !.hcode = h, !.fd = dir[r.path]], r, dir[r.path], r.path, FALSE)
    BY <1>1, <2>1, ExitsAs
  <2>3. QED  BY <1>1, <1>2, <1>4, <1>6, <2>2, JExit
<1>7. CASE r.fd # None /\ Becomes(p, L(h, n))
  <2> DEFINE s == L(h, n)
  <2>1. "load" \in PC  BY DEF PC
  <2>2. /\ s \in Request /\ s.pc = "load" /\ s.fd = r.fd /\ s.mine = r.fd /\ s.cdate = FALSE
        /\ s.off = r.off /\ s.size = n /\ s.path = r.path /\ s.remove = r.remove
    BY <1>1, <2>1 DEF Request
  <2>3. Becomes(p, s)  BY <1>7
  <2> HIDE DEF s, L
  <2>4. req'[p] = s /\ \A q \in Proc \ {p} : Same(req'[q], req[q])
    BY <2>2, <2>3, OthersStay DEF IInv, TypeOK
  <2>5. Modest(p, s)  BY <1>1, <1>2, <2>2 DEF Modest, Writes
  <2>6. s.off = 0 /\ s.fd \in Ino  BY <1>1, <1>7, <2>2 DEF Fills
  <2>7. \A q \in Proc \ {p} : ~Writes(q, req[p].mine)'
    <3>1. \A q \in Proc \ {p} : ~Writes(q, r.fd)
      BY <1>1, <1>7 DEF IInv, Holds, Writes
    <3>2. QED  BY <2>2, <2>4, <3>1 DEF Writes, Same
  <2>8. Fills(p)'
    <3>1. data'[s.fd] \in Seq(Block)  BY <1>1, <1>2, <2>6 DEF TypeOK
    <3>2. Len(data'[s.fd]) \in Nat /\ 0 <= Len(data'[s.fd])  BY <3>1
    <3>3. Written(p, req[p].fd)'  BY <2>4, <2>6, <3>2 DEF Written
    <3>4. 0 <= s.size  BY <2>2, CacheAssumption
    <3>5. QED  BY <2>2, <2>4, <2>6, <2>7, <3>3, <3>4 DEF Fills, Publishes
  <2>9. Paths(p)'  BY <1>1, <1>7, <2>2, <2>4 DEF Paths
  <2>10. Peaceful(p)'  BY <2>2, <2>4 DEF Peaceful
  <2>11. QED  BY <1>4, <2>2, <2>3, <2>5, <2>8, <2>9, <2>10, JKept
<1>8. QED  BY <1>3, <1>5, <1>6, <1>7

\* A block: the beginning of the response grows.
LEMMA JLoadBlock ==
    ASSUME IInv, JInv, Remember, NEW p \in Proc, LoadBlock(p)
    PROVE  JInv'
<1> DEFINE r == req[p]
           old == data[r.fd]
           len == IF Len(old) > r.off THEN Len(old) ELSE r.off + 1
           block == [by |-> p, nth |-> r.off + 1, size |-> r.size]
           new == [Resized(old, len) EXCEPT ![r.off + 1] = block]
           M(n) == [r EXCEPT !.off = n]
<1>1. /\ r \in Request /\ TypeOK /\ Holds(p) /\ Fills(p) /\ Paths(p)
      /\ r.off \in 0 .. MaxBlocks /\ r.size \in 1 .. MaxBlocks
      /\ calm => Peaceful(p)
  BY JMine
<1>2. r.pc = "load" /\ r.off < r.size /\ r.fd \in Ino /\ r.mine = r.fd /\ Writes(p, r.fd)
  BY <1>1 DEF LoadBlock, Holds, Fills, Writes
<1>3. r.off + 1 \in 1 .. MaxBlocks /\ r.off + 1 \in 0 .. MaxBlocks /\ r.off \in Nat
  BY <1>1, <1>2, CacheAssumption
<1>4. /\ BecomesTouching(p, M(r.off + 1), r.fd) /\ data' = [data EXCEPT ![r.fd] = new]
      /\ UNCHANGED <<dir, lock, Marked>>
  BY DEF LoadBlock, Marked
<1>5. ASSUME NEW n \in 0 .. MaxBlocks
      PROVE  /\ M(n) \in Request /\ M(n).pc = "load" /\ M(n).fd = r.fd /\ M(n).off = n
             /\ M(n).size = r.size /\ M(n).mine = r.mine /\ M(n).path = r.path
             /\ M(n).remove = r.remove /\ M(n).cdate = r.cdate
  BY <1>1, <1>2 DEF Request
<1> DEFINE s == M(r.off + 1)
<1>6. /\ s \in Request /\ s.pc = "load" /\ s.fd = r.fd /\ s.off = r.off + 1
      /\ s.size = r.size /\ s.mine = r.mine /\ s.path = r.path
      /\ s.remove = r.remove /\ s.cdate = r.cdate
  BY <1>3, <1>5
<1>7. old \in Seq(Block)  BY <1>1, <1>2 DEF TypeOK
<1>8. Written(p, r.fd) => Len(new) >= r.off + 1
                          /\ \A n \in 1 .. r.off + 1 : new[n] = Response(p, r.size)[n]
  <2>1. SUFFICES ASSUME Written(p, r.fd)
                 PROVE  Len(new) >= r.off + 1
                        /\ \A n \in 1 .. r.off + 1 : new[n] = Response(p, r.size)[n]
    OBVIOUS
  <2>2. len \in Nat /\ r.off + 1 \in 1 .. len /\ len >= Len(old) /\ Len(old) \in Nat
    BY <1>3, <1>7
  <2>3. Resized(old, len) \in Seq(Block) /\ DOMAIN Resized(old, len) = 1 .. len
    BY <1>7, <2>2, Blocks
  <2>4. DOMAIN new = 1 .. len  BY <2>3
  <2>5. Len(new) = len
    <3>1. QED  BY <2>2, <2>4
  <2>6. ASSUME NEW n \in 1 .. r.off + 1 PROVE new[n] = Response(p, r.size)[n]
    <3>1. n \in 1 .. len /\ n \in 1 .. r.size  BY <1>1, <1>2, <1>3, <2>2
    <3>2. CASE n = r.off + 1
      BY <2>3, <3>1, <3>2 DEF Response
    <3>3. CASE n # r.off + 1
      <4>1. n \in 1 .. r.off /\ n <= Len(old)
        BY <1>3, <1>7, <2>1, <2>2, <3>3 DEF Written
      <4>2. new[n] = old[n]  BY <2>3, <3>1, <3>3, <4>1 DEF Resized
      <4>3. QED  BY <2>1, <4>1, <4>2 DEF Written
    <3>4. QED  BY <3>2, <3>3
  <2>7. QED  BY <2>2, <2>5, <2>6
<1> HIDE DEF M, s, old, block, len, new
<1>9. req'[p] = s /\ \A q \in Proc \ {p} : Same(req'[q], req[q])
  BY <1>4, <1>6, OthersStay DEF IInv, TypeOK, s
<1>10. Modest(p, s)
  <2>1. \A j \in Ino : data'[j] = data[j] \/ j = r.fd
    BY <1>1, <1>4 DEF TypeOK
  <2>2. QED  BY <1>2, <1>4, <1>6, <2>1 DEF Modest
<1>11. Shrinks  BY <1>4 DEF Shrinks
<1>12. Fills(p)'
  <2>1. data'[r.fd] = new  BY <1>1, <1>2, <1>4 DEF TypeOK
  <2>2. ASSUME r.mine \notin Marked'
        PROVE  Written(p, r.mine)' /\ \A q \in Proc \ {p} : ~Writes(q, r.mine)'
    <3>1. Written(p, r.mine) /\ \A q \in Proc \ {p} : ~Writes(q, r.mine)
      BY <1>1, <1>2, <1>4, <2>2 DEF Fills
    <3>2. Written(p, r.mine)'
      BY <1>2, <1>6, <1>8, <1>9, <2>1, <3>1 DEF Written
    <3>3. QED  BY <1>6, <1>9, <3>1, <3>2 DEF Writes, Same
  <2>3. s.off <= s.size  BY <1>1, <1>2, <1>3, <1>6
  <2>4. QED  BY <1>2, <1>6, <1>9, <2>2, <2>3 DEF Fills, Publishes
<1>13. Paths(p)'  BY <1>1, <1>2, <1>6, <1>9 DEF Paths
<1>14. calm' => Peaceful(p)'
  BY <1>1, <1>2, <1>4, <1>6, <1>9 DEF Peaceful, Remember, Named
<1>15. BecomesTouching(p, s, r.fd)  BY <1>4 DEF s
<1>16. QED  BY <1>6, <1>10, <1>11, <1>12, <1>13, <1>14, <1>15, JKept

\* LoadEnd, LoadFail: what is not removed is the response, cut where it ends.
LEMMA JLoadEnd ==
    ASSUME IInv, JInv, Remember, NEW p \in Proc, LoadEnd(p) \/ LoadFail(p)
    PROVE  JInv'
<1> DEFINE r == req[p]
           s(b) == [Exiting(r) EXCEPT !.remove = b]
<1>1. /\ r \in Request /\ TypeOK /\ Holds(p) /\ Fills(p) /\ Paths(p)
      /\ r.off \in 0 .. MaxBlocks /\ r.size \in 1 .. MaxBlocks
  BY JMine
<1>2. r.pc = "load" /\ r.fd \in Ino /\ r.mine = r.fd /\ Writes(p, r.fd) /\ r.path = "loading"
  BY <1>1, CacheAssumption DEF LoadEnd, LoadFail, Holds, Fills, Writes, Paths
<1>3. PICK b \in BOOLEAN :
        /\ Becomes(p, s(b))
        /\ ~b => r.off = r.size
        /\ data' = IF b THEN data ELSE [data EXCEPT ![r.fd] = Resized(@, r.off)]
  BY DEF LoadEnd, LoadFail
<1>4. UNCHANGED <<dir, lock, Marked>>  BY DEF LoadEnd, LoadFail, Marked
<1>5. ExitOf(s(b), r, r.fd, r.path, b)  BY JMine, ExitsAs
<1> HIDE DEF s
<1>6. s(b) \in Request /\ req'[p] = s(b) /\ \A q \in Proc \ {p} : Same(req'[q], req[q])
  BY <1>3, <1>5, OthersStay DEF IInv, TypeOK, ExitOf
<1>7. Modest(p, s(b))
  <2>1. \A j \in Ino : data'[j] = data[j] \/ j = r.fd  BY <1>1, <1>3 DEF TypeOK
  <2>2. QED  BY <1>2, <1>4, <1>5, <2>1 DEF Modest, ExitOf
<1>8. Shrinks  BY <1>4 DEF Shrinks
<1>9. Fills(p)'
  <2>1. ASSUME r.mine \notin Marked'
        PROVE  /\ ~b => Whole(data'[r.mine])
               /\ \A q \in Proc \ {p} : ~Writes(q, req[p].mine)'
    <3>1. Written(p, r.mine) /\ \A q \in Proc \ {p} : ~Writes(q, r.mine)
      BY <1>1, <1>2, <1>4, <2>1 DEF Fills
    <3>2. ASSUME ~b PROVE Whole(data'[r.mine])
      <4>1. data'[r.mine] = Resized(data[r.mine], r.size)  BY <1>1, <1>2, <1>3, <3>2 DEF TypeOK
      <4>2. \A n \in 1 .. r.size : n <= Len(data[r.mine]) /\ data[r.mine][n] = Response(p, r.size)[n]
        <5>1. data[r.mine] \in Seq(Block)  BY <1>1, <1>2 DEF TypeOK
        <5>2. Len(data[r.mine]) \in Nat  BY <5>1
        <5>3. QED  BY <1>1, <1>3, <3>1, <3>2, <5>2, CacheAssumption DEF Written
      <4>3. Resized(data[r.mine], r.size) = Response(p, r.size)
        BY <4>2 DEF Resized, Response
      <4>4. [by |-> p, nth |-> r.size, size |-> r.size] \in Block  BY <1>1 DEF Block
      <4>5. QED  BY <4>1, <4>3, <4>4 DEF Whole
    <3>3. QED  BY <1>5, <1>6, <3>1, <3>2 DEF Writes, Same, ExitOf
  <2>2. QED  BY <1>2, <1>5, <1>6, <2>1 DEF Fills, Publishes, Good, ExitOf
<1>10. Paths(p)'  BY <1>5, <1>6 DEF Paths, ExitOf
<1>11. Peaceful(p)'  BY <1>2, <1>5, <1>6 DEF Peaceful, ExitOf
<1>12. QED  BY <1>3, <1>6, <1>7, <1>8, <1>9, <1>10, <1>11, JKept

\* Discard: the file is empty, so it will not be published.
LEMMA JDiscard ==
    ASSUME IInv, JInv, Remember, NEW p \in Proc, Discard(p)
    PROVE  JInv'
<1> DEFINE r == req[p]
           s(b) == [Exiting(r) EXCEPT !.remove = b]
<1>1. r \in Request /\ TypeOK /\ Holds(p) /\ Fills(p) /\ Paths(p)  BY JMine
<1>2. r.pc = "load" /\ r.fd \in Ino /\ r.mine = r.fd /\ Writes(p, r.fd) /\ r.path = "loading"
  BY <1>1, CacheAssumption DEF Discard, Holds, Fills, Writes, Paths
<1>3. PICK b \in BOOLEAN : BecomesTouching(p, s(b), r.fd)  BY DEF Discard
<1>4. UNCHANGED <<dir, lock, Marked>> /\ data' = [data EXCEPT ![r.fd] = <<>>]
  BY DEF Discard, Marked
<1>5. ExitOf(s(b), r, r.fd, r.path, b)  BY JMine, ExitsAs
<1> HIDE DEF s
<1>6. s(b) \in Request /\ req'[p] = s(b) /\ \A q \in Proc \ {p} : Same(req'[q], req[q])
  BY <1>3, <1>5, OthersStay DEF IInv, TypeOK, ExitOf
<1>7. Modest(p, s(b))
  <2>1. \A j \in Ino : data'[j] = data[j] \/ j = r.fd  BY <1>1, <1>4 DEF TypeOK
  <2>2. QED  BY <1>2, <1>4, <1>5, <2>1 DEF Modest, ExitOf
<1>8. Shrinks  BY <1>4 DEF Shrinks
<1>9. Fills(p)'
  <2>1. data'[r.mine] = <<>>  BY <1>1, <1>2, <1>4 DEF TypeOK
  <2>2. ASSUME r.mine \notin Marked' PROVE \A q \in Proc \ {p} : ~Writes(q, req[p].mine)'
    <3>1. \A q \in Proc \ {p} : ~Writes(q, r.mine)  BY <1>1, <1>2, <1>4, <2>2 DEF Fills
    <3>2. QED  BY <1>5, <1>6, <3>1 DEF Writes, Same, ExitOf
  <2>3. QED  BY <1>2, <1>5, <1>6, <2>1, <2>2 DEF Fills, Publishes, Good, ExitOf
<1>10. Paths(p)'  BY <1>5, <1>6 DEF Paths, ExitOf
<1>11. Peaceful(p)'  BY <1>2, <1>5, <1>6 DEF Peaceful, ExitOf
<1>12. QED  BY <1>3, <1>6, <1>7, <1>8, <1>9, <1>10, <1>11, JKept

\* What a request that is over has.
LEMMA Over ==
    /\ Ended \in Request /\ Ended.pc = "end" /\ Ended.mine = None /\ Ended.off = 0
    /\ Ended.cdate = FALSE /\ Ended.remove = FALSE
<1>1. Ended \in Request /\ Ended.pc = "end"  BY Requests
<1>2. Started \in Request /\ Started.mine = None /\ Started.off = 0
      /\ Started.cdate = FALSE /\ Started.remove = FALSE
  BY CacheAssumption DEF Started, Request, PC, Name
<1>3. QED  BY <1>1, <1>2 DEF Ended, Request

\* A request is over, and names are taken away, or none.
LEMMA JOver ==
    ASSUME IInv, JInv, Remember, NEW p \in Proc, NEW i,
           Becomes(p, Ended) \/ BecomesTouching(p, Ended, i),
           \A j \in Ino : data'[j] = data[j] \/ Writes(p, j),
           Marked \subseteq Marked', Shrinks
    PROVE  JInv'
<1>1. Ended \in Request /\ req'[p] = Ended  BY Over, OthersStay DEF IInv, TypeOK
<1>2. Modest(p, Ended)  BY Over DEF Modest
<1>3. Fills(p)' /\ Paths(p)' /\ Peaceful(p)'
  BY <1>1, Over, CacheAssumption DEF Fills, Paths, Peaceful
<1>4. QED  BY <1>1, <1>2, <1>3, JKept

\* CacheClose, Done: what a request is going to do with the name is decided.
LEMMA JClose ==
    ASSUME IInv, JInv, Remember, NEW p \in Proc, CacheClose(p) \/ Done(p)
    PROVE  JInv'
<1> DEFINE r == req[p]
           C(x) == [r EXCEPT !.pc = x, !.fd = None]
           D(x) == [r EXCEPT !.pc = x, !.hcode = "none", !.remove = FALSE]
<1>1. /\ r \in Request /\ TypeOK /\ Fills(p) /\ Paths(p) /\ r.path \in Name
      /\ calm => Peaceful(p)
  BY JMine
<1>2. UNCHANGED <<dir, data, Marked>> /\ Shrinks  BY DEF CacheClose, Done, Shrinks, Marked
<1>3. ASSUME NEW x \in PC
      PROVE  /\ C(x) \in Request /\ C(x).pc = x /\ C(x).mine = r.mine /\ C(x).off = r.off
             /\ C(x).cdate = r.cdate /\ C(x).remove = r.remove /\ C(x).path = r.path
             /\ D(x) \in Request /\ D(x).pc = x /\ D(x).mine = r.mine /\ D(x).off = r.off
             /\ D(x).cdate = r.cdate /\ D(x).remove = FALSE /\ D(x).path = r.path
  BY <1>1 DEF Request
<1>4. \/ r.pc = "exit" /\ Becomes(p, C("closed"))
      \/ r.pc = "closed" /\ Outcome(r) = "unlink" /\ Becomes(p, D("unlink"))
      \/ r.pc = "closed" /\ Outcome(r) = "rename" /\ Becomes(p, D("rename"))
      \/ Becomes(p, Ended)
  BY DEF CacheClose, Done, Outcome
<1>5. "closed" \in PC /\ "unlink" \in PC /\ "rename" \in PC  BY DEF PC
<1> HIDE DEF C, D
<1>6. ASSUME NEW s \in Request, Becomes(p, s), s.pc \in {"closed", "unlink", "rename"},
             r.pc \in {"exit", "closed"},
             s.mine = r.mine, s.off = r.off, s.cdate = r.cdate, s.path = r.path,
             s.pc = "closed" => s.remove = r.remove,
             s.pc # "closed" => s.remove = FALSE,
             s.pc = "rename" => ~r.remove /\ FileSize("loading") # 0 /\ Named("loading"),
             s.pc = "unlink" /\ calm => r.path = "loading"
      PROVE  JInv'
  <2>1. req'[p] = s /\ \A q \in Proc \ {p} : Same(req'[q], req[q])
    BY <1>6, OthersStay DEF IInv, TypeOK
  <2>2. Modest(p, s)  BY <1>2, <1>6 DEF Modest
  <2>3. Fills(p)'
    <3>1. Publishes(p)' => Publishes(p)  BY <1>6, <2>1 DEF Publishes
    <3>2. ASSUME r.mine \in Ino \ Marked
          PROVE  \A q \in Proc \ {p} : ~Writes(q, req[p].mine)'
      BY <1>1, <1>6, <2>1, <3>2 DEF Fills, Writes, Same
    <3>3. ASSUME r.mine \in Ino \ Marked, Publishes(p)' PROVE Good(p)'
      <4>1. Good(p)  BY <1>1, <3>1, <3>3 DEF Fills
      <4>2. CASE Whole(data[r.mine])  BY <1>2, <1>6, <2>1, <4>2 DEF Good
      <4>3. CASE ~Whole(data[r.mine])
        <5>1. data[r.mine] = <<>>  BY <4>1, <4>3 DEF Good
        <5>2. s.pc = "rename" => dir["loading"] # r.mine
          BY <1>6, <5>1 DEF FileSize
        <5>3. QED  BY <1>2, <1>6, <2>1, <5>1, <5>2 DEF Good
      <4>4. QED  BY <4>2, <4>3
    <3>4. QED  BY <1>1, <1>2, <1>6, <2>1, <3>2, <3>3 DEF Fills
  <2>4. Paths(p)'  BY <1>1, <1>6, <2>1 DEF Paths
  <2>5. calm' => Peaceful(p)'
    BY <1>1, <1>2, <1>6, <2>1 DEF Peaceful, Remember, Named
  <2>6. QED  BY <1>2, <1>6, <2>2, <2>3, <2>4, <2>5, JKept
<1>7. CASE r.pc = "exit" /\ Becomes(p, C("closed"))
  BY <1>3, <1>5, <1>6, <1>7
<1>8. CASE r.pc = "closed" /\ Outcome(r) = "unlink" /\ Becomes(p, D("unlink"))
  <2>1. ASSUME calm PROVE r.path = "loading"
    <3>1. SUFFICES ASSUME r.path = "doc" PROVE FALSE  BY <1>1 DEF Name
    <3>2. ~r.remove  BY <1>1, <1>8, <2>1, <3>1 DEF Peaceful
    <3>3. FileSize("doc") = 0  BY <1>8, <3>1, <3>2 DEF Outcome
    <3>4. Named("doc") /\ Len(data[dir["doc"]]) = 0  BY <3>3 DEF FileSize
    <3>5. QED  BY <2>1, <3>4, DocInPeace
  <2>2. QED  BY <1>3, <1>5, <1>6, <1>8, <2>1
<1>9. CASE r.pc = "closed" /\ Outcome(r) = "rename" /\ Becomes(p, D("rename"))
  <2>1. ~r.remove /\ FileSize("loading") # 0 /\ Named("loading")  BY <1>9 DEF Outcome
  <2>2. QED  BY <1>3, <1>5, <1>6, <1>9, <2>1
<1>10. CASE Becomes(p, Ended)
  BY <1>2, <1>10, JOver
<1>11. QED  BY <1>4, <1>7, <1>8, <1>9, <1>10

\* Unlink, Crash, Abort: in peace the name of the document is not the one taken away.
LEMMA JEnd ==
    ASSUME IInv, JInv, Remember, NEW p \in Proc, Unlink(p) \/ Crash(p) \/ Abort(p)
    PROVE  JInv'
<1>1. /\ TypeOK /\ req[p].path \in Name /\ "doc" \in Name /\ "loading" \in Name
      /\ calm => Peaceful(p)
  BY JMine
<1>2. /\ Becomes(p, Ended) \/ BecomesTouching(p, Ended, req[p].fd)
      /\ Marked' = Marked
  BY DEF Unlink, Crash, Abort, Marked
<1>3. \A j \in Ino : data'[j] = data[j] \/ Writes(p, j)
  BY <1>1 DEF Unlink, Crash, Abort, Writes, TypeOK
<1>4. Shrinks
  <2>1. CASE Unlink(p)
    <3>1. calm' => req[p].path = "loading"  BY <1>1, <2>1 DEF Peaceful, Remember, Unlink
    <3>2. QED  BY <1>1, <2>1, <3>1 DEF Unlink, Shrinks, TypeOK, Name
  <2>2. CASE ~Unlink(p)  BY <2>2 DEF Crash, Abort, Shrinks
  <2>3. QED  BY <2>1, <2>2
<1>5. QED  BY <1>2, <1>3, <1>4, JOver

\* Rename: what was downloaded whole and is in no other hand, or a stray one.
LEMMA JRename ==
    ASSUME IInv, JInv, Remember, NEW p \in Proc, Rename(p)
    PROVE  JInv'
<1>1. CASE ~Named("loading")
  <2>1. Becomes(p, Ended) /\ UNCHANGED <<dir, data, Marked>>  BY <1>1 DEF Rename, Marked
  <2>2. Shrinks  BY <2>1 DEF Shrinks
  <2>3. QED  BY <2>1, <2>2, JOver
<1>2. CASE Named("loading")
  <2> DEFINE i == dir["loading"]
  <2>1. /\ req[p].pc = "rename" /\ dir' = [doc |-> i, loading |-> None] /\ data' = data
        /\ Marked' = IF req[p].mine # i THEN Marked \cup {i} ELSE Marked
        /\ Becomes(p, Ended)
    BY <1>2 DEF Rename, Marked
  <2>2. i \in Ino  BY <1>2 DEF IInv, TypeOK, Name, Named
  <2>3. Ended \in Request /\ req'[p] = Ended /\ \A q \in Proc \ {p} : Same(req'[q], req[q])
    BY <2>1, Over, OthersStay DEF IInv, TypeOK
  <2>4. Modest(p, Ended)  BY <2>1, Over DEF Modest
  <2>5. /\ \A q \in Proc \ {p} : Fills(q)' /\ Paths(q)'
        /\ \A q \in Proc, j \in Ino : Writes(q, j)' => Writes(q, j)
    <3>1. dir'["loading"] = None  BY <2>1
    <3>2. QED  BY <2>1, <2>3, <2>4, <3>1, OthersKept
  <2>6. Fills(p)' /\ Paths(p)' /\ Peaceful(p)'
    BY <2>3, Over, CacheAssumption DEF Fills, Paths, Peaceful
  <2>7. dir'["doc"] = i /\ dir'["loading"] = None /\ Named("doc")'
    BY <2>1, <2>2, CacheAssumption DEF Named
  <2>8. DocQuiet'
    <3>1. ASSUME i \notin Marked'
          PROVE  Whole(data'[i]) /\ \A q \in Proc : ~Writes(q, dir["doc"])'
      <4>1. req[p].mine = i /\ i \notin Marked  BY <2>1, <3>1
      <4>2. Whole(data[i]) /\ \A q \in Proc \ {p} : ~Writes(q, i)
        BY <2>1, <2>2, <4>1 DEF JInv, Fills, Publishes, Good
      <4>3. ~Writes(p, i)  BY <2>1 DEF Writes
      <4>4. \A q \in Proc : ~Writes(q, i)  BY <4>2, <4>3
      <4>5. QED  BY <2>1, <2>2, <2>5, <2>7, <4>2, <4>4 DEF Writes
    <3>2. QED  BY <2>2, <2>7, <3>1, CacheAssumption DEF DocQuiet
  <2>9. Peace'
    <3>1. SUFFICES ASSUME calm' PROVE Marked' = {} /\ \A q \in Proc : Peaceful(q)'
      BY DEF Peace
    <3>2. calm /\ Marked = {} /\ Marked' = {}  BY <3>1 DEF Remember, JInv, Peace, Marked
    <3>3. ASSUME NEW q \in Proc \ {p} PROVE Peaceful(q)'
      <4>1. Peaceful(q) /\ Same(req'[q], req[q])  BY <2>3, <3>2 DEF JInv, Peace
      <4>2. ASSUME req'[q].pc = "serve"
            PROVE  /\ Whole(data'[req'[q].fd]) /\ dir'["loading"] # req'[q].fd
                   /\ \A x \in Proc : ~Writes(x, req[q].fd)'
        <5>1. req[q].fd \in Ino /\ req'[q].fd = req[q].fd
          BY <4>1, <4>2 DEF IInv, Holds, Same
        <5>2. Whole(data[req[q].fd]) /\ \A x \in Proc : ~Writes(x, req[q].fd)
          BY <4>1, <4>2 DEF Peaceful, Same
        <5>3. \A x \in Proc : ~Writes(x, req[q].fd)'  BY <2>5, <5>1, <5>2 DEF Writes
        <5>4. QED  BY <2>1, <2>7, <5>1, <5>2, <5>3, CacheAssumption
      <4>3. QED  BY <2>7, <4>1, <4>2 DEF Peaceful, Same
    <3>4. QED  BY <2>6, <3>2, <3>3
  <2>10. QED  BY <2>5, <2>6, <2>8, <2>9 DEF JInv
<1>3. QED  BY <1>1, <1>2

\* A step of a request that has no file of its own, and opens none to write to.
LEMMA JBefore ==
    ASSUME IInv, JInv, Remember, NEW p \in Proc, NEW s \in Request, Becomes(p, s),
           UNCHANGED <<dir, data, Marked>>,
           s.mine = None, s.off = 0, s.remove = FALSE,
           s.pc \in {"read", "serve", "make", "make2", "lock", "recv", "relay", "fetch"},
           s.pc = "fetch" /\ s.fd # None => Writes(p, s.fd),
           s.pc \in {"lock", "recv", "fetch"} /\ s.fd # None => s.path = "loading",
           s.cdate /\ calm => Named("doc"),
           s.pc = "serve" => Named("doc") /\ s.fd = dir["doc"]
    PROVE  JInv'
<1>1. req'[p] = s /\ \A q \in Proc \ {p} : Same(req'[q], req[q])
  BY OthersStay DEF IInv, TypeOK
<1>2. Modest(p, s)  BY DEF Modest
<1>3. Shrinks  BY DEF Shrinks
<1>4. Fills(p)'  BY <1>1, CacheAssumption DEF Fills
<1>5. Paths(p)'  BY <1>1 DEF Paths
<1>6. ASSUME calm' PROVE Peaceful(p)'
  <2>1. calm  BY <1>6 DEF Remember
  <2>2. ASSUME s.pc = "serve"
        PROVE  /\ Whole(data'[s.fd]) /\ dir'["loading"] # s.fd
               /\ \A q \in Proc : ~Writes(q, req[p].fd)'
    <3>1. /\ Whole(data[dir["doc"]]) /\ dir["doc"] # dir["loading"]
          /\ \A q \in Proc : ~Writes(q, dir["doc"])
      BY <2>1, <2>2, DocInPeace
    <3>2. QED  BY <1>1, <2>2, <3>1 DEF Writes, Same
  <2>3. QED  BY <1>1, <2>1, <2>2 DEF Peaceful, Named
<1>7. QED  BY <1>1, <1>2, <1>3, <1>4, <1>5, <1>6, JKept

\* The fields that Fetching leaves alone.
LEMMA Fetches ==
    ASSUME NEW r \in Request
    PROVE  /\ Fetching(r) \in Request /\ Fetching(r).pc = "fetch" /\ Fetching(r).fd = r.fd
           /\ Fetching(r).mine = r.mine /\ Fetching(r).off = r.off
           /\ Fetching(r).remove = r.remove /\ Fetching(r).path = r.path
           /\ Fetching(r).cdate = r.cdate
<1>1. Fetching(r) \in Request /\ Fetching(r).pc = "fetch" /\ Fetching(r).fd = r.fd
  BY Requests
<1>2. QED  BY <1>1 DEF Fetching, Request

\* retry_read: the document that is seen is there.
LEMMA JRetryRead ==
    ASSUME IInv, JInv, Remember, NEW p \in Proc, RetryRead(p)
    PROVE  JInv'
<1> DEFINE r == [req[p] EXCEPT !.path = "doc", !.fd = None, !.cdate = FALSE]
           m == r.cretry + 1
           A == [r EXCEPT !.pc = "make", !.cretry = m]
           B == [r EXCEPT !.pc = "serve", !.fd = dir["doc"], !.cretry = m, !.cdate = TRUE]
           C == [r EXCEPT !.pc = "make", !.fd = None, !.cretry = m, !.cdate = TRUE]
<1>1. /\ req[p] \in Request /\ TypeOK /\ Fills(p) /\ "doc" \in Name
      /\ req[p].pc = "read" /\ req[p].remove = FALSE
  BY JMine DEF RetryRead
<1>2. /\ r \in Request /\ r.fd = None /\ r.cdate = FALSE /\ r.remove = FALSE
      /\ r.mine = None /\ r.off = 0
  <2>1. r \in Request /\ r.fd = None /\ r.cdate = FALSE /\ r.remove = req[p].remove
        /\ r.mine = req[p].mine /\ r.off = req[p].off
    BY <1>1 DEF Request
  <2>2. QED  BY <1>1, <2>1 DEF Fills
<1>3. UNCHANGED <<dir, data, Marked>>  BY DEF RetryRead, Marked
<1>4. \/ Becomes(p, Fetching(r))
      \/ r.cretry <= 1 /\ Becomes(p, A)
      \/ r.cretry <= 1 /\ Readable("doc") /\ (Becomes(p, B) \/ Becomes(p, C))
  BY DEF RetryRead
<1> HIDE DEF r
<1>5. r.cretry <= 1 => m \in 0 .. 2  BY <1>2 DEF Request
<1> HIDE DEF m
<1>6. "make" \in PC /\ "serve" \in PC  BY DEF PC
<1>7. /\ Readable("doc") => Named("doc")
      /\ dir["doc"] \in Ino \cup {None} /\ None \in Ino \cup {None}
  BY <1>1, Files DEF Readable
<1>8. ASSUME r.cretry <= 1
      PROVE  /\ A \in Request /\ A.pc = "make" /\ A.mine = None /\ A.off = 0
             /\ A.remove = FALSE /\ A.cdate = FALSE
             /\ B \in Request /\ B.pc = "serve" /\ B.mine = None /\ B.off = 0
             /\ B.remove = FALSE /\ B.fd = dir["doc"]
             /\ C \in Request /\ C.pc = "make" /\ C.mine = None /\ C.off = 0
             /\ C.remove = FALSE
  BY <1>2, <1>5, <1>6, <1>7, <1>8 DEF Request
<1>9. CASE Becomes(p, Fetching(r))
  <2> DEFINE s == Fetching(r)
  <2>1. /\ s \in Request /\ s.pc = "fetch" /\ s.fd = None /\ s.mine = None /\ s.off = 0
        /\ s.remove = FALSE /\ s.cdate = FALSE
    BY <1>2, Fetches
  <2>2. Becomes(p, s)  BY <1>9
  <2> HIDE DEF s
  <2>3. QED  BY <1>3, <2>1, <2>2, JBefore
<1> HIDE DEF A, B, C
<1>10. CASE r.cretry <= 1 /\ Becomes(p, A)  BY <1>3, <1>8, <1>10, JBefore
<1>11. CASE r.cretry <= 1 /\ Readable("doc") /\ Becomes(p, B)
  BY <1>3, <1>7, <1>8, <1>11, JBefore
<1>12. CASE r.cretry <= 1 /\ Readable("doc") /\ Becomes(p, C)
  BY <1>3, <1>7, <1>8, <1>12, JBefore
<1>13. QED  BY <1>4, <1>9, <1>10, <1>11, <1>12

\* Make, CantMake, RecvDistribution, and a lock that is not got.
LEMMA JMake ==
    ASSUME IInv, JInv, Remember, NEW p \in Proc,
           \/ Make(p) \/ CantMake(p) \/ RecvDistribution(p)
           \/ LockWr(p) /\ lock[req[p].fd] # None
    PROVE  JInv'
<1> DEFINE r == req[p]
           A == [r EXCEPT !.pc = "lock", !.path = "loading", !.fd = dir["loading"]]
           B == [r EXCEPT !.pc = "make2"]
           C == [Fetching(r) EXCEPT !.cdate = FALSE]
           D == [r EXCEPT !.pc = "relay", !.distrib = TRUE]
           G == [r EXCEPT !.pc = "read", !.fd = None]
           H == [Fetching(r) EXCEPT !.fd = None]
           K == [r EXCEPT !.pc = "recv"]
<1>1. /\ r \in Request /\ TypeOK /\ Fills(p) /\ Paths(p) /\ Holds(p) /\ "loading" \in Name
      /\ r.pc \in {"make", "recv", "lock"} /\ r.remove = FALSE
      /\ r.fd \in Ino \cup {None}
      /\ calm => Peaceful(p)
  BY JMine DEF Make, CantMake, RecvDistribution, LockWr
<1>2. r.mine = None /\ r.off = 0 /\ (r.cdate /\ calm => Named("doc"))
  BY <1>1 DEF Fills, Peaceful
<1>3. UNCHANGED <<dir, data, Marked>>
  BY DEF Make, CantMake, RecvDistribution, LockWr, Marked
<1>4. \/ Named("loading") /\ Becomes(p, A)
      \/ r.pc = "make" /\ (Becomes(p, B) \/ Becomes(p, C))
      \/ Becomes(p, D) \/ Becomes(p, G) \/ Becomes(p, H)
      \/ r.pc = "lock" /\ Becomes(p, K)
  BY DEF Make, CantMake, RecvDistribution, LockWr
<1>5. /\ "lock" \in PC /\ "make2" \in PC /\ "relay" \in PC /\ "read" \in PC /\ "recv" \in PC
      /\ dir["loading"] \in Ino \cup {None}
  BY <1>1, Files DEF PC
<1>6. /\ Fetching(r) \in Request /\ Fetching(r).pc = "fetch" /\ Fetching(r).fd = r.fd
      /\ Fetching(r).mine = None /\ Fetching(r).off = 0 /\ Fetching(r).remove = FALSE
      /\ Fetching(r).cdate = r.cdate
  BY <1>1, <1>2, Fetches
<1>7. /\ A \in Request /\ A.mine = None /\ A.off = 0 /\ A.remove = FALSE /\ A.pc = "lock"
      /\ A.cdate = r.cdate /\ A.path = "loading"
  BY <1>1, <1>2, <1>5 DEF Request
<1>8. /\ B \in Request /\ B.mine = None /\ B.off = 0 /\ B.remove = FALSE /\ B.pc = "make2"
      /\ B.cdate = r.cdate
  BY <1>1, <1>2, <1>5 DEF Request
<1>9. /\ C \in Request /\ C.mine = None /\ C.off = 0 /\ C.remove = FALSE /\ C.pc = "fetch"
      /\ C.cdate = FALSE /\ C.fd = r.fd
  BY <1>6 DEF Request
<1>10. /\ D \in Request /\ D.mine = None /\ D.off = 0 /\ D.remove = FALSE /\ D.pc = "relay"
       /\ D.cdate = r.cdate
  BY <1>1, <1>2, <1>5 DEF Request
<1>11. /\ G \in Request /\ G.mine = None /\ G.off = 0 /\ G.remove = FALSE /\ G.pc = "read"
       /\ G.cdate = r.cdate
  BY <1>1, <1>2, <1>5 DEF Request
<1>12. /\ H \in Request /\ H.mine = None /\ H.off = 0 /\ H.remove = FALSE /\ H.pc = "fetch"
       /\ H.cdate = r.cdate /\ H.fd = None
  BY <1>6 DEF Request
<1>13. /\ K \in Request /\ K.mine = None /\ K.off = 0 /\ K.remove = FALSE /\ K.pc = "recv"
       /\ K.cdate = r.cdate /\ K.fd = r.fd /\ K.path = r.path
  BY <1>1, <1>2, <1>5 DEF Request
<1>14. /\ r.pc = "make" => r.fd = None
       /\ r.pc = "lock" /\ r.fd # None => r.path = "loading"
  BY <1>1 DEF Holds, Paths
<1> HIDE DEF A, B, C, D, G, H, K
<1>15. CASE Becomes(p, A)  BY <1>2, <1>3, <1>7, <1>15, JBefore
<1>16. CASE Becomes(p, B)  BY <1>2, <1>3, <1>8, <1>16, JBefore
<1>17. CASE r.pc = "make" /\ Becomes(p, C)  BY <1>2, <1>3, <1>9, <1>14, <1>17, JBefore
<1>18. CASE Becomes(p, D)  BY <1>2, <1>3, <1>10, <1>18, JBefore
<1>19. CASE Becomes(p, G)  BY <1>2, <1>3, <1>11, <1>19, JBefore
<1>20. CASE Becomes(p, H)  BY <1>2, <1>3, <1>12, <1>20, JBefore
<1>21. CASE r.pc = "lock" /\ Becomes(p, K)  BY <1>2, <1>3, <1>13, <1>14, <1>21, JBefore
<1>22. QED  BY <1>4, <1>15, <1>16, <1>17, <1>18, <1>19, <1>20, <1>21

(***************************************************************************)
(* A request comes to a file i, opened anew or locked: either the file is  *)
(* counted as one that has been in two hands, or it is neither the         *)
(* document, nor served, nor one that another request has filled.          *)
(***************************************************************************)
LEMMA JTakes ==
    ASSUME IInv, JInv, Remember, NEW p \in Proc, NEW s \in Request, NEW i \in Ino,
           Becomes(p, s) \/ BecomesTouching(p, s, i),
           req[p].pc \in {"make2", "lock"},
           s.pc \in {"lock", "fetch"}, s.fd = i, s.path = "loading",
           s.mine = None, s.off = 0, s.remove = FALSE, s.cdate = req[p].cdate,
           dir'["doc"] = dir["doc"], Named("doc") => dir'["loading"] # dir["doc"],
           dir'["loading"] \in {dir["loading"], i},
           \A j \in Ino \ {i} : data'[j] = data[j],
           \/ Marked' = Marked \cup {i}
           \/ /\ Marked' \in {Marked, Marked \ {i}}
              /\ dir["doc"] # i /\ \A q \in Proc \ {p} : req[q].mine # i,
           calm' => \A q \in Proc : req[q].pc = "serve" => i # req[q].fd /\ dir'["loading"] # req[q].fd
    PROVE  JInv'
<1>1. req'[p] = s /\ \A q \in Proc \ {p} : Same(req'[q], req[q])
  BY OthersStay DEF IInv, TypeOK
<1>2. \A q \in Proc, j \in Ino \ {i} : Writes(q, j)' => Writes(q, j)
  BY <1>1 DEF Writes, Same
<1>3. dir \in [Name -> Ino \cup {None}] /\ "doc" \in Name  BY DEF IInv, TypeOK, Name
<1>4. ASSUME NEW q \in Proc \ {p} PROVE Fills(q)' /\ Paths(q)'
  <2>1. Fills(q) /\ Paths(q) /\ Same(req'[q], req[q])  BY <1>1 DEF JInv
  <2>2. ASSUME req'[q].mine \in Ino \ Marked'
        PROVE  /\ req'[q].pc = "load" => Written(q, req[q].mine)'
               /\ Publishes(q)' => Good(q)'
               /\ \A x \in Proc \ {q} : ~Writes(x, req[q].mine)'
    <3>1. req[q].mine \in Ino \ Marked /\ req[q].mine # i /\ req'[q].mine = req[q].mine
      BY <2>1, <2>2 DEF Same
    <3>2. \A x \in Proc \ {q} : ~Writes(x, req[q].mine)  BY <2>1, <3>1 DEF Fills
    <3>3. data'[req[q].mine] = data[req[q].mine]  BY <3>1
    <3>4. \A x \in Proc \ {q} : ~Writes(x, req[q].mine)'
      BY <1>2, <3>1, <3>2 DEF Writes
    <3>5. Good(q) => Good(q)'  BY <2>1, <3>1, <3>3 DEF Good, Same
    <3>6. QED  BY <2>1, <3>1, <3>3, <3>4, <3>5 DEF Fills, Same, Written, Publishes
  <2>3. Fills(q)'  BY <2>1, <2>2 DEF Fills, Same
  <2>4. Paths(q)'  BY <2>1 DEF Paths, Same
  <2>5. QED  BY <2>3, <2>4
<1>5. Fills(p)' /\ Paths(p)'  BY <1>1, CacheAssumption DEF Fills, Paths
<1>6. DocQuiet'
  <2>1. CASE ~Named("doc")'  BY <2>1 DEF DocQuiet
  <2>2. CASE Named("doc")'
    <3>1. Named("doc") /\ dir["doc"] \in Ino  BY <2>2, <1>3 DEF Named
    <3>2. ASSUME dir'["doc"] \notin Marked'
          PROVE  Whole(data'[dir'["doc"]]) /\ \A q \in Proc : ~Writes(q, dir["doc"])'
      <4>1. dir["doc"] \notin Marked /\ dir["doc"] # i  BY <3>2
      <4>2. Whole(data[dir["doc"]]) /\ \A q \in Proc : ~Writes(q, dir["doc"])
        BY <3>1, <4>1 DEF JInv, DocQuiet
      <4>3. data'[dir["doc"]] = data[dir["doc"]]  BY <3>1, <4>1
      <4>4. QED  BY <1>2, <3>1, <4>1, <4>2, <4>3 DEF Writes
    <3>3. QED  BY <3>1, <3>2 DEF DocQuiet
  <2>3. QED  BY <2>1, <2>2
<1>7. Peace'
  <2>1. SUFFICES ASSUME calm' PROVE Marked' = {} /\ \A q \in Proc : Peaceful(q)'
    BY DEF Peace
  <2>2. calm /\ Marked = {} /\ Marked' = {}  BY <2>1 DEF Remember, JInv, Peace, Marked
  <2>3. ASSUME NEW q \in Proc \ {p} PROVE Peaceful(q)'
    <3>1. Peaceful(q) /\ Same(req'[q], req[q])  BY <1>1, <2>2 DEF JInv, Peace
    <3>2. ASSUME req'[q].pc = "serve"
          PROVE  /\ Whole(data'[req'[q].fd]) /\ dir'["loading"] # req'[q].fd
                 /\ \A x \in Proc : ~Writes(x, req[q].fd)'
      <4>1. req[q].fd \in Ino /\ req'[q].fd = req[q].fd /\ req[q].fd # i
            /\ dir'["loading"] # req[q].fd
        BY <2>1, <3>1, <3>2 DEF IInv, Holds, Same
      <4>2. Whole(data[req[q].fd]) /\ \A x \in Proc : ~Writes(x, req[q].fd)
        BY <3>1, <3>2 DEF Peaceful, Same
      <4>3. \A x \in Proc : ~Writes(x, req[q].fd)'  BY <1>2, <4>1, <4>2 DEF Writes
      <4>4. QED  BY <4>1, <4>2, <4>3
    <3>3. QED  BY <3>1, <3>2 DEF Peaceful, Same, Named
  <2>4. Peaceful(p)'
    <3>1. Peaceful(p)  BY <2>2 DEF JInv, Peace
    <3>2. QED  BY <1>1, <3>1 DEF Peaceful, Named
  <2>5. QED  BY <2>2, <2>3, <2>4
<1>8. QED  BY <1>4, <1>5, <1>6, <1>7 DEF JInv

\* A file that is not Taken is neither the document nor filled by another request.
LEMMA NobodyElse ==
    ASSUME IInv, JInv, NEW p \in Proc, NEW i \in Ino, ~Taken(p, i)
    PROVE  /\ dir["loading"] = i /\ (Named("doc") => dir["doc"] # i)
           /\ \A q \in Proc \ {p} : req[q].mine # i
<1>1. dir["loading"] = i  BY DEF Taken
<1>2. \A q \in Proc \ {p} : req[q].mine # i
  BY CacheAssumption DEF Taken, JInv, Fills
<1>3. QED  BY <1>1, <1>2 DEF JInv, DocQuiet

\* LockWr when it is got.
LEMMA JLock ==
    ASSUME IInv, JInv, Remember, NEW p \in Proc, LockWr(p), lock[req[p].fd] = None
    PROVE  JInv'
<1> DEFINE r == req[p]  i == req[p].fd  s == Fetching(r)
<1>1. /\ r \in Request /\ Holds(p) /\ Fills(p) /\ Paths(p) /\ r.pc = "lock"
      /\ r.remove = FALSE
  BY JMine DEF LockWr
<1>2. i \in Ino /\ r.mine = None /\ r.off = 0 /\ r.path = "loading"
  BY <1>1, CacheAssumption DEF Holds, Fills, Paths
<1>3. /\ s \in Request /\ s.pc = "fetch" /\ s.fd = i /\ s.path = "loading" /\ s.mine = None
      /\ s.off = 0 /\ s.remove = FALSE /\ s.cdate = r.cdate
  BY <1>1, <1>2, Fetches
<1>4. /\ Becomes(p, s) /\ UNCHANGED <<dir, data>>
      /\ Marked' = IF Taken(p, i) THEN Marked \cup {i} ELSE Marked
  BY DEF LockWr, Marked
<1>5. Named("doc") => dir'["loading"] # dir["doc"]  BY <1>4 DEF JInv, DocQuiet
<1>6. ASSUME calm', NEW q \in Proc, req[q].pc = "serve"
      PROVE  i # req[q].fd /\ dir'["loading"] # req[q].fd
  <2>1. calm /\ Marked = {} /\ Marked' = {}  BY <1>6 DEF Remember, JInv, Peace, Marked
  <2>2. ~Taken(p, i)  BY <1>4, <2>1
  <2>3. dir["loading"] # req[q].fd  BY <1>6, <2>1 DEF JInv, Peace, Peaceful
  <2>4. QED  BY <1>2, <1>4, <2>2, <2>3, NobodyElse
<1>7. dir["doc"] # i \/ Named("doc")  BY <1>2, CacheAssumption DEF Named
<1>8. \/ Marked' = Marked \cup {i}
      \/ /\ Marked' \in {Marked, Marked \ {i}}
         /\ dir["doc"] # i /\ \A q \in Proc \ {p} : req[q].mine # i
  BY <1>2, <1>4, <1>7, NobodyElse
<1> HIDE DEF s, i
<1>9. QED  BY <1>1, <1>2, <1>3, <1>4, <1>5, <1>6, <1>8, JTakes

\* MakeAnew: the file of the name is truncated, or a free one is taken.
LEMMA JMakeAnew ==
    ASSUME IInv, JInv, Remember, NEW p \in Proc, MakeAnew(p)
    PROVE  JInv'
<1> DEFINE r == req[p]
           i == IF Named("loading") THEN dir["loading"] ELSE CHOOSE j \in Free : TRUE
           s == [r EXCEPT !.pc = "lock", !.path = "loading", !.fd = i]
<1>1. /\ r \in Request /\ TypeOK /\ Fills(p) /\ "loading" \in Name /\ "doc" \in Name
      /\ r.pc = "make2" /\ r.remove = FALSE
  BY JMine DEF MakeAnew
<1>2. r.mine = None /\ r.off = 0  BY <1>1 DEF Fills
<1>3. ~Named("loading") => i \in Free
  BY DEF MakeAnew
<1>4. i \in Ino  BY <1>1, <1>3, Files DEF Free
<1>5. /\ dir' = [dir EXCEPT !["loading"] = i] /\ data' = [data EXCEPT ![i] = <<>>]
      /\ Marked' = IF Named("loading") /\ Taken(p, i)
                        THEN Marked \cup {i} ELSE Marked \ {i}
      /\ BecomesTouching(p, s, i)
  BY DEF MakeAnew, Marked
<1>6. i \in Free => /\ dir["doc"] # i
                    /\ \A q \in Proc : req[q].mine # i /\ req[q].fd # i
  BY <1>1 DEF Free, InUse
<1>7. Named("doc") => dir["doc"] # i
  BY <1>3, <1>6 DEF JInv, DocQuiet
<1>8. dir["doc"] # i  BY <1>4, <1>7, CacheAssumption DEF Named
<1>9. ASSUME ~(Named("loading") /\ Taken(p, i)), NEW q \in Proc \ {p}
      PROVE  req[q].mine # i
  BY <1>3, <1>4, <1>6, <1>9, NobodyElse
<1>10. ASSUME calm', NEW q \in Proc, req[q].pc = "serve" PROVE i # req[q].fd
  <2>1. calm  BY <1>10 DEF Remember
  <2>2. dir["loading"] # req[q].fd  BY <1>10, <2>1 DEF JInv, Peace, Peaceful
  <2>3. QED  BY <1>3, <1>6, <2>2
<1> HIDE DEF i
<1>11. "lock" \in PC  BY DEF PC
<1>12. /\ s \in Request /\ s.pc = "lock" /\ s.fd = i /\ s.path = "loading" /\ s.mine = None
       /\ s.off = 0 /\ s.remove = FALSE /\ s.cdate = r.cdate
  BY <1>1, <1>2, <1>4, <1>11 DEF Request
<1> HIDE DEF s
<1>13. /\ dir'["doc"] = dir["doc"] /\ dir'["loading"] = i
       /\ \A j \in Ino \ {i} : data'[j] = data[j]
  BY <1>1, <1>5 DEF TypeOK
<1>14. \/ Marked' = Marked \cup {i}
       \/ /\ Marked' \in {Marked, Marked \ {i}}
          /\ dir["doc"] # i /\ \A q \in Proc \ {p} : req[q].mine # i
  BY <1>5, <1>8, <1>9
<1>15. Named("doc") => dir'["loading"] # dir["doc"]  BY <1>7, <1>13
<1>16. calm' => \A q \in Proc : req[q].pc = "serve" =>
                  i # req[q].fd /\ dir'["loading"] # req[q].fd
  BY <1>10, <1>13
<1>17. QED  BY <1>1, <1>4, <1>5, <1>12, <1>13, <1>14, <1>15, <1>16, JTakes

\* The second invariant holds when the server is started.
LEMMA JStart == Init => JInv
<1> SUFFICES ASSUME Init PROVE JInv  OBVIOUS
<1>1. Ino0 \in Ino /\ Ino1 \in Ino /\ Ino0 # Ino1
  <2>1. Ino0 \in Ino  BY CacheAssumption DEF Ino0
  <2>2. Ino \ {Ino0} # {}  BY CacheAssumption
  <2>3. Ino1 \in Ino \ {Ino0}  BY <2>2 DEF Ino1
  <2>4. QED  BY <2>1, <2>3
<1>2. ASSUME NEW p \in Proc
      PROVE  /\ req[p].pc = "read" /\ req[p].mine = None /\ req[p].off = 0
             /\ req[p].remove = FALSE /\ req[p].cdate = FALSE
  <2>1. PICK x \in BOOLEAN, y \in BOOLEAN : req[p] = NewRequest(x, y)  BY DEF Init
  <2>2. /\ Started \in Request /\ Started.mine = None /\ Started.off = 0
        /\ Started.cdate = FALSE /\ Started.remove = FALSE /\ Started.pc = "read"
    BY CacheAssumption DEF Started, Request, PC, Name
  <2>3. QED  BY <2>1, <2>2 DEF NewRequest, Request
<1>3. \A p \in Proc : Fills(p) /\ Paths(p) /\ Peaceful(p)
  BY <1>2, CacheAssumption DEF Fills, Paths, Peaceful
<1>4. DocQuiet
  <2>1. PICK d \in {None, Ino0}, l \in {None, Ino1} :
          /\ dir = [n \in Name |-> IF n = "doc" THEN d ELSE l]
          /\ d # None => Whole(data[d])
    BY DEF Init
  <2>2. dir["doc"] = d /\ dir["loading"] = l  BY <2>1 DEF Name
  <2>3. \A q \in Proc : ~Writes(q, dir["doc"])  BY <1>2 DEF Writes
  <2>4. QED  BY <1>1, <2>1, <2>2, <2>3, CacheAssumption DEF DocQuiet, Named
<1>5. QED  BY <1>3, <1>4 DEF JInv, Peace, Init, Marked

\* Every step keeps it.
LEMMA JSteps == IInv /\ JInv /\ [Next]_vars => JInv'
<1> SUFFICES ASSUME IInv, JInv, [Next]_vars PROVE JInv'  OBVIOUS
<1>1. ASSUME NEW p \in Proc, Own(p), Remember PROVE JInv'
  BY <1>1, JRetryRead, JRelay, JMake, JMakeAnew, JLock, JClose, JEnd, JRename
     DEF Own
<1>2. ASSUME NEW p \in Proc, Server(p), Remember PROVE JInv'
  BY <1>2, JRelay, JEmpty, JNotModified, JRespond, JLoadBlock, JLoadEnd, JDiscard
     DEF Server
<1>3. ASSUME NEW p \in Proc, Crash(p) \/ Abort(p), Remember PROVE JInv'
  BY <1>3, JEnd
<1>4. CASE UNCHANGED vars
  BY <1>4 DEF vars, JInv, Fills, Paths, DocQuiet, Peace, Peaceful, Writes, Written,
              Publishes, Good, Marked, Named
<1>5. QED  BY <1>1, <1>2, <1>3, <1>4 DEF Next

\* It holds in every reachable state.
THEOREM InductiveToo == Spec => []JInv
  BY JStart, JSteps, Inductive, PTL DEF Spec

(***************************************************************************)
(* A document published by the process that downloaded it, in a file that  *)
(* nobody else has taken meanwhile, is one whole response, whatever fails, *)
(* is given up or killed.  Nothing is said of a file that a process has    *)
(* renamed without having downloaded it (Rename).                          *)
(***************************************************************************)
THEOREM PublishedIsWhole == Spec => []PublishedWhole
<1>1. JInv => PublishedWhole  BY DEF JInv, DocQuiet, PublishedWhole, Marked
<1>2. QED  BY <1>1, InductiveToo, PTL

(***************************************************************************)
(* No request loses the document while no file has been in two hands and   *)
(* none was renamed by a process that had not downloaded it.               *)
(***************************************************************************)
THEOREM DocumentStays == Spec => DocStays
<1>1. IInv /\ JInv /\ [Next]_vars => [Named("doc") /\ calm => Named("doc")']_vars
  <2> SUFFICES ASSUME IInv, JInv, Next, Named("doc"), calm PROVE Named("doc")'
    BY DEF vars
  <2>1. dir \in [Name -> Ino \cup {None}] /\ "doc" \in Name /\ "loading" \in Name
    BY DEF IInv, TypeOK, Name
  <2>2. PICK p \in Proc : Own(p) \/ Server(p) \/ Crash(p) \/ Abort(p)  BY DEF Next
  <2>3. Peaceful(p)  BY DEF JInv, Peace
  <2>4. CASE Serve(p)  BY <2>3, <2>4 DEF Serve, Peaceful, Named
  <2>5. CASE Unlink(p)  BY <2>1, <2>3, <2>5 DEF Unlink, Peaceful, Named
  <2>6. CASE Rename(p)  BY <2>6 DEF Rename, Named
  <2>7. CASE MakeAnew(p)  BY <2>1, <2>7 DEF MakeAnew, Named
  <2>8. CASE CantConnect(p) \/ EmptyResponse(p) \/ NotModified(p)
    BY <2>1, <2>8 DEF CantConnect, EmptyResponse, NotModified, Makeshift, Named
  <2>9. CASE UNCHANGED dir  BY <2>9 DEF Named
  <2>10. QED
    BY <2>2, <2>4, <2>5, <2>6, <2>7, <2>8, <2>9
       DEF Own, Server, RetryRead, Make, CantMake, LockWr, RecvDistribution, CacheClose,
           Done, RelayDistribution, ServerError, Respond, LoadBlock, LoadEnd, LoadFail,
           Discard, Crash, Abort
<1>2. QED  BY <1>1, Inductive, InductiveToo, PTL DEF Spec, DocStays

=============================================================================

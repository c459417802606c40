----------------------------- MODULE HttpCache -----------------------------
(***************************************************************************)
(* The cache of one HTTP document, as the requests for it share it         *)
(* (src/delegate/src/http.cpp, cache.cpp, rary/lock.cpp).  Every request   *)
(* is served by a process of its own.  They share the directory of the     *)
(* cache, where the document has the name "doc" and the file that somebody *)
(* downloads it to has the name "loading" (the path with #LOADING), and    *)
(* the flock() locks of the files behind these names.                      *)
(*                                                                         *)
(* A step is what a process does between two calls that another process    *)
(* can come in between: an open, a lock, the response of the server, a     *)
(* block written, a stat, an unlink or a rename.                           *)
(***************************************************************************)
EXTENDS Integers, Sequences

CONSTANTS
    Proc,       \* the requests, one process each
    Ino,        \* files (inodes)
    None,       \* no process, no file
    MaxBlocks   \* bound: the blocks of the longest response

ASSUME CacheAssumption ==
    /\ MaxBlocks \in Nat \ {0}
    /\ None \notin Proc \cup Ino
    /\ \E i, j \in Ino : i # j

Name == {"doc", "loading"}

(***************************************************************************)
(* A block of a response: who downloaded it, its number and the number of  *)
(* blocks of the response, as Content-Length tells it.  A write past the   *)
(* end of a file leaves holes.                                             *)
(***************************************************************************)
Block == [by : Proc \cup {None}, nth : 1 .. MaxBlocks, size : 1 .. MaxBlocks]
Hole == [by |-> None, nth |-> 1, size |-> 1]
Response(p, size) ==
    [n \in 1 .. size |-> [by |-> p, nth |-> n, size |-> size]]
Resized(s, len) == [n \in 1 .. len |-> IF n <= Len(s) THEN s[n] ELSE Hole]
Whole(s) == \E b \in Block : s = Response(b.by, b.size)

VARIABLES
    dir,        \* the directory: the file behind each name
    data,       \* the blocks in each file
    lock,       \* the process that holds the exclusive lock of each file
    req,        \* the request of each process, its QueryContext
    disturbed,  \* history: the files that have come into two hands
    stray,      \* history: the files published by who did not download them
    calm        \* history: there were none of either, until now

vars == <<dir, data, lock, req, disturbed, stray, calm>>

(***************************************************************************)
(* A request.  path is QX_cpath, fd is QX_cachefp, cdate is QX_cdate != -1,*)
(* reload is DontReadCache, nowait is DontWaitCache, remove is             *)
(* QX_cacheRemove.  hcode stands for QX_hcode with QX_rcode: "none" is -1  *)
(* with R_BEFORE_RESPONSE, "err" is 400 <=, "ok" all the rest.             *)
(* distrib is PF_IS_DISTRIB.  touched: the file has been modified since    *)
(* CacheMtime was noted.  mine is history: the file the response of this   *)
(* request was written to.  A field that is not read any more gets its     *)
(* first value back (Fetching, Exiting, Ended).                            *)
(***************************************************************************)
PC == {"read", "serve", "make", "make2", "lock", "recv", "relay", "fetch",
       "load", "exit", "closed", "unlink", "rename", "end"}
Request ==
    [pc : PC, path : Name, fd : Ino \cup {None}, cretry : 0 .. 2,
     cdate : BOOLEAN, reload : BOOLEAN, nowait : BOOLEAN, remove : BOOLEAN,
     hcode : {"none", "ok", "err"}, distrib : BOOLEAN, touched : BOOLEAN,
     off : 0 .. MaxBlocks, size : 1 .. MaxBlocks, mine : Ino \cup {None}]

Started == [pc |-> "read", path |-> "doc", fd |-> None, cretry |-> 0,
            cdate |-> FALSE, remove |-> FALSE, hcode |-> "none",
            distrib |-> FALSE, touched |-> FALSE, off |-> 0, size |-> 1,
            mine |-> None, reload |-> FALSE, nowait |-> FALSE]
NewRequest(reload, nowait) ==
    [Started EXCEPT !.reload = reload, !.nowait = nowait]

Fetching(r) == [r EXCEPT !.pc = "fetch", !.cretry = 0,
                         !.reload = FALSE, !.nowait = FALSE]
Exiting(r) == [r EXCEPT !.pc = "exit", !.cretry = 0, !.cdate = FALSE,
                        !.reload = FALSE, !.nowait = FALSE,
                        !.touched = FALSE, !.off = 0, !.size = 1]
Ended == [Started EXCEPT !.pc = "end"]

Named(n) == dir[n] # None
FileSize(n) == IF Named(n) THEN Len(data[dir[n]]) ELSE -1
Readable(n) == Named(n) /\ FileSize(n) > 0
InUse == {dir[n] : n \in Name} \cup {req[p].fd : p \in Proc} \cup {req[p].mine : p \in Proc}
Free == Ino \ InUse    \* mine counts, too, so that history is not mixed up;
                       \* Ino is meant to be so large that some is free

(***************************************************************************)
(* A process goes on with its request; touching a file is what changes its *)
(* modification time for the processes that hold it open.                  *)
(***************************************************************************)
Becomes(p, r) == req' = [req EXCEPT ![p] = r]
BecomesTouching(p, r, i) ==
    req' = [q \in Proc |->
              IF q = p THEN r
              ELSE IF req[q].fd = i /\ req[q].pc = "fetch"
                THEN [req[q] EXCEPT !.touched = TRUE] ELSE req[q]]
Released(p) == [i \in Ino |-> IF lock[i] = p THEN None ELSE lock[i]]

(***************************************************************************)
(* The file is, or has been, in the hands of another process than p: it is *)
(* locked, or it is not yet, or no more, the file that p should load.      *)
(***************************************************************************)
Taken(p, i) ==
    \/ lock[i] \notin {p, None}
    \/ dir["loading"] # i
    \/ \E q \in Proc \ {p} : req[q].mine = i /\ req[q].pc # "end"

(***************************************************************************)
(* The states in which the server is started: with or without the document *)
(* in the cache, and with what a killed process has left behind.           *)
(***************************************************************************)
Ino0 == CHOOSE i \in Ino : TRUE
Ino1 == CHOOSE i \in Ino \ {Ino0} : TRUE

Init ==
    /\ \E d \in {None, Ino0}, l \in {None, Ino1} :
         /\ dir = [n \in Name |-> IF n = "doc" THEN d ELSE l]
         /\ data \in [Ino -> {<<>>} \cup
                {Response(None, n) : n \in 1 .. MaxBlocks}
                \cup {SubSeq(Response(None, MaxBlocks), 1, n) : n \in 1 .. MaxBlocks - 1}]
         /\ \A i \in Ino : data[i] # <<>> => i \in {d, l}
         /\ d # None => data[d] # <<>> /\ Whole(data[d])
    /\ disturbed = {} /\ stray = {} /\ calm = TRUE
    /\ lock = [i \in Ino |-> None]
    /\ req \in [Proc -> {NewRequest(r, w) : r, w \in BOOLEAN}]

-----------------------------------------------------------------------------
(* doCache. *)

\* mutant: the number of attempts is not counted
RetryReadUncounted(p) ==
    LET r == [req[p] EXCEPT !.path = "doc", !.fd = None, !.cdate = FALSE]
    IN  /\ req[p].pc = "read"
        /\ \E fresh \in {Readable("doc") /\ ~r.reload} :
             Becomes(p, [r EXCEPT !.pc = IF fresh THEN "serve" ELSE "make",
                                  !.fd = IF fresh THEN dir["doc"] ELSE None])
        /\ UNCHANGED <<dir, data, lock, disturbed, stray>>

(***************************************************************************)
(* retry_read: from the document in the cache if it is there, not empty,   *)
(* not expired and not to be reloaded.  The lock of a file that was opened *)
(* before was not got.                                                     *)
(***************************************************************************)
RetryRead(p) ==
    LET r == [req[p] EXCEPT !.path = "doc", !.fd = None, !.cdate = FALSE]
    IN  /\ req[p].pc = "read"
        /\ \/ /\ r.cretry > 1
              /\ Becomes(p, Fetching(r))
           \/ /\ r.cretry <= 1 /\ (r.reload \/ ~Readable("doc"))
              /\ Becomes(p, [r EXCEPT !.pc = "make", !.cretry = @ + 1])
           \/ /\ r.cretry <= 1 /\ ~r.reload /\ Readable("doc")
              /\ \E fresh \in BOOLEAN :
                   Becomes(p, [r EXCEPT !.pc = IF fresh THEN "serve" ELSE "make",
                                        !.fd = IF fresh THEN dir["doc"] ELSE None,
                                        !.cretry = @ + 1, !.cdate = TRUE])
        /\ UNCHANGED <<dir, data, lock, disturbed, stray>>

(***************************************************************************)
(* relay_response_fromCache: the document is relayed without a lock; when  *)
(* it turns out to be broken its name is removed.                          *)
(***************************************************************************)
Serve(p) ==
    /\ req[p].pc = "serve"
    /\ Becomes(p, [Exiting(req[p]) EXCEPT !.hcode = "ok"])
    /\ IF Whole(data[req[p].fd]) THEN UNCHANGED dir
       ELSE dir' = [dir EXCEPT !["doc"] = None]
    /\ UNCHANGED <<data, lock, disturbed, stray>>

\* mutant: QX_cpath keeps the name of the document
MakeKeepsPath(p) ==
    /\ req[p].pc = "make"
    /\ Becomes(p, IF Named("loading")
                    THEN [req[p] EXCEPT !.pc = "lock", !.fd = dir["loading"]]
                    ELSE [req[p] EXCEPT !.pc = "make2"])
    /\ UNCHANGED <<dir, data, lock, disturbed, stray>>

(***************************************************************************)
(* HTcache_make with cache_fopen_rw: "loading" is opened if it exists, and *)
(* if it did not, it is opened once more and created or truncated.  A file *)
(* that cannot be made leaves the request without a cache.                 *)
(***************************************************************************)
Make(p) ==
    /\ req[p].pc = "make"
    /\ Becomes(p, IF Named("loading")
                    THEN [req[p] EXCEPT !.pc = "lock", !.path = "loading",
                                        !.fd = dir["loading"]]
                    ELSE [req[p] EXCEPT !.pc = "make2"])
    /\ UNCHANGED <<dir, data, lock, disturbed, stray>>

MakeAnew(p) ==
    LET i == IF Named("loading") THEN dir["loading"] ELSE CHOOSE j \in Free : TRUE
    IN  /\ req[p].pc = "make2" /\ (Named("loading") \/ Free # {})
        /\ dir' = [dir EXCEPT !["loading"] = i]
        /\ data' = [data EXCEPT ![i] = <<>>]
        /\ BecomesTouching(p, [req[p] EXCEPT !.pc = "lock", !.path = "loading",
                                             !.fd = i], i)
        /\ disturbed' = IF Named("loading") /\ Taken(p, i)
                          THEN disturbed \cup {i} ELSE disturbed \ {i}
        /\ stray' = stray \ {i}
        /\ UNCHANGED lock

CantMake(p) ==
    /\ req[p].pc = "make"
    /\ Becomes(p, [Fetching(req[p]) EXCEPT !.cdate = FALSE])
    /\ UNCHANGED <<dir, data, lock, disturbed, stray>>

\* mutant: a failed lock is ignored
LockWrIgnored(p) ==
    /\ req[p].pc = "lock"
    /\ lock' = [lock EXCEPT ![req[p].fd] = p]
    /\ Becomes(p, Fetching(req[p]))
    /\ UNCHANGED <<dir, data, disturbed, stray>>

(***************************************************************************)
(* file_lock_wr: whoever gets the lock downloads.  A file that has lost    *)
(* the name "loading" since it was opened is locked all the same, and so   *)
(* is one that another process has unlocked and not renamed yet.           *)
(***************************************************************************)
LockWr(p) ==
    LET i == req[p].fd
    IN  /\ req[p].pc = "lock"
        /\ IF lock[i] = None
             THEN /\ lock' = [lock EXCEPT ![i] = p]
                  /\ Becomes(p, Fetching(req[p]))
                  /\ disturbed' = IF Taken(p, i) THEN disturbed \cup {i} ELSE disturbed
             ELSE /\ Becomes(p, [req[p] EXCEPT !.pc = "recv"])
                  /\ UNCHANGED <<lock, disturbed>>
        /\ UNCHANGED <<dir, data, stray>>

(***************************************************************************)
(* recvDistribution, from the process that downloads: it sends what it     *)
(* receives; or it closes the connection, as it has finished ("updated");  *)
(* or it does not answer.                                                  *)
(***************************************************************************)
RecvDistribution(p) ==
    /\ req[p].pc = "recv"
    /\ \/ /\ \E q \in Proc \ {p} : req[q].pc = "load"
          /\ Becomes(p, [req[p] EXCEPT !.pc = "relay", !.distrib = TRUE])
       \/ Becomes(p, [req[p] EXCEPT !.pc = "read", !.fd = None])
       \/ /\ req[p].reload \/ req[p].nowait
          /\ Becomes(p, [Fetching(req[p]) EXCEPT !.fd = None])
    /\ UNCHANGED <<dir, data, lock, disturbed, stray>>

\* relay_response of what the distributor sends
RelayDistribution(p) ==
    /\ req[p].pc = "relay"
    /\ Becomes(p, [Exiting(req[p]) EXCEPT !.hcode = "ok"])
    /\ UNCHANGED <<dir, data, lock, disturbed, stray>>

-----------------------------------------------------------------------------
(* The server, and the responses of it. *)

(***************************************************************************)
(* makeshift: "loading" is given up, whatever file it names, and the old   *)
(* document, if there still is one, takes the place of the open file, the  *)
(* lock of which is lost.  (With an open file the path is "loading".)      *)
(***************************************************************************)
Makeshift(p, sized) ==
    LET fd == IF Readable("doc") THEN dir["doc"] ELSE req[p].fd
    IN  /\ dir' = [dir EXCEPT !["loading"] = None]
        /\ lock' = IF fd # req[p].fd THEN Released(p) ELSE lock
        /\ Becomes(p, [Exiting(req[p]) EXCEPT !.path = "doc", !.fd = fd, !.hcode = "ok",
                                              !.remove = sized /\ Len(data[fd]) = 0])
        /\ UNCHANGED <<data, disturbed, stray>>

\* tryConnects: no connection, or the client has left meanwhile
CantConnect(p) ==
    LET r == req[p]
    IN  /\ r.pc = "fetch"
        /\ \/ r.fd # None /\ r.cdate /\ Makeshift(p, TRUE)
           \/ /\ Becomes(p, [Exiting(r) EXCEPT
                                !.remove = r.fd # None /\ Len(data[r.fd]) = 0])
              /\ UNCHANGED <<dir, data, lock, disturbed, stray>>

\* R_EMPTY_RESPONSE, and a 5xx while there is an old document to use instead
EmptyResponse(p) ==
    LET r == req[p]
    IN  /\ r.pc = "fetch"
        /\ IF r.fd # None /\ r.cdate THEN Makeshift(p, FALSE)
           ELSE /\ Becomes(p, [Exiting(r) EXCEPT !.hcode = "ok",
                                                 !.remove = r.fd # None])
                /\ UNCHANGED <<dir, data, lock, disturbed, stray>>

\* a 5xx that is relayed, and not put into the cache
ServerError(p) ==
    LET r == req[p]
    IN  /\ r.pc = "fetch" /\ (r.fd = None \/ ~r.cdate)
        /\ Becomes(p, [Exiting(r) EXCEPT !.hcode = "err"])
        /\ UNCHANGED <<dir, data, lock, disturbed, stray>>

(***************************************************************************)
(* 304: popCurrentCache gives "loading" up and takes the document for the  *)
(* open file; without a document what is in the open file will do          *)
(* (cacheReadOK).  It is touched, relayed, and when it is broken the       *)
(* document is removed at the end (foundBrokenCache).  path is left as it  *)
(* is otherwise.                                                           *)
(***************************************************************************)
NotModified(p) ==
    LET r == req[p]
        popped == r.path = "loading" /\ Readable("doc")
        fd == IF popped THEN dir["doc"] ELSE r.fd
        ok == fd # None /\ data[fd] # <<>>
        broken == ok /\ ~Whole(data[fd])
    IN  /\ r.pc = "fetch"
        /\ dir' = IF r.fd # None THEN [dir EXCEPT !["loading"] = None] ELSE dir
        /\ lock' = IF popped /\ r.fd # fd THEN Released(p) ELSE lock
        /\ \E h \in {"ok", "err"} :
             /\ h = "err" => ok
             /\ BecomesTouching(p, [Exiting(r) EXCEPT !.fd = fd, !.hcode = h,
                                      !.path = IF broken THEN "doc" ELSE @,
                                      !.remove = broken],
                                IF ok THEN fd ELSE None)
        /\ disturbed' = IF ok /\ ~popped THEN disturbed \cup {fd} ELSE disturbed
        /\ UNCHANGED <<data, stray>>

(***************************************************************************)
(* Any other response begins.  A process that notices by the time in the   *)
(* file that somebody has changed it takes the file of the name "loading"  *)
(* instead, to read only, and what it writes is lost.                      *)
(***************************************************************************)
Respond(p) ==
    LET r == req[p]
    IN  /\ r.pc = "fetch"
        /\ \E h \in {"ok", "err"}, n \in 1 .. MaxBlocks :
             \/ /\ r.fd = None /\ n = 1
                /\ Becomes(p, [Exiting(r) EXCEPT !.hcode = h])
                /\ UNCHANGED lock
             \/ /\ r.fd # None
                /\ Becomes(p, [r EXCEPT !.pc = "load", !.hcode = h, !.cdate = FALSE,
                                !.touched = FALSE, !.size = n, !.mine = r.fd])
                /\ UNCHANGED lock
             \/ /\ r.fd # None /\ r.touched /\ Named(r.path) /\ n = 1
                /\ Becomes(p, [Exiting(r) EXCEPT !.hcode = h,
                                        !.fd = dir[r.path]])
                /\ lock' = Released(p)
        /\ UNCHANGED <<dir, data, disturbed, stray>>

\* mutant: more is written than the response has
LoadBlockTooFar(p) ==
    /\ req[p].pc = "load"
    /\ data' = [data EXCEPT ![req[p].fd] = Append(@, Hole)]
    /\ BecomesTouching(p, [req[p] EXCEPT !.off = @ + 1], req[p].fd)
    /\ UNCHANGED <<dir, lock, disturbed, stray>>

\* relay_response: a block is written to the file, at the offset of its own
LoadBlock(p) ==
    LET r == req[p]
        old == data[r.fd]
        block == [by |-> p, nth |-> r.off + 1, size |-> r.size]
    IN  /\ r.pc = "load" /\ r.off < r.size
        /\ data' = [data EXCEPT ![r.fd] =
                      [Resized(old, IF Len(old) > r.off THEN Len(old) ELSE r.off + 1)
                         EXCEPT ![r.off + 1] = block]]
        /\ BecomesTouching(p, [r EXCEPT !.off = @ + 1], r.fd)
        /\ UNCHANGED <<dir, lock, disturbed, stray>>

(***************************************************************************)
(* The response is complete: doTruncateCache cuts the file where the       *)
(* writing has come to.  A response not to be cached (no-cache, private,   *)
(* no Last-Modified) is removed.                                           *)
(***************************************************************************)
LoadEnd(p) ==
    LET r == req[p]
    IN  /\ r.pc = "load" /\ r.off = r.size
        /\ \E remove \in BOOLEAN :
             /\ data' = IF remove THEN data
                        ELSE [data EXCEPT ![r.fd] = Resized(@, r.off)]
             /\ Becomes(p, [Exiting(r) EXCEPT !.remove = remove])
        /\ UNCHANGED <<dir, lock, disturbed, stray>>

\* mutant: the broken download is not marked to be removed
LoadFailKept(p) ==
    /\ req[p].pc = "load" /\ req[p].off < req[p].size
    /\ Becomes(p, Exiting(req[p]))
    /\ UNCHANGED <<dir, data, lock, disturbed, stray>>

(***************************************************************************)
(* The connection breaks before the end: R_TRUNCATED, R_UNSATISFIED.  The  *)
(* response has a Content-Length or is chunked; of any other the end is    *)
(* where the connection breaks (respSutisfied), which is LoadEnd.          *)
(***************************************************************************)
LoadFail(p) ==
    /\ req[p].pc = "load" /\ req[p].off < req[p].size
    /\ Becomes(p, [Exiting(req[p]) EXCEPT !.remove = TRUE])
    /\ UNCHANGED <<dir, data, lock, disturbed, stray>>

(***************************************************************************)
(* The file is given up (RX_cachefp = NULL) and emptied: the disk is full, *)
(* the response is too large, or it sets a cookie (R_PRIVATE).  The rest   *)
(* is for the client only, and the lock is kept until the end.             *)
(***************************************************************************)
Discard(p) ==
    /\ req[p].pc = "load"
    /\ data' = [data EXCEPT ![req[p].fd] = <<>>]
    /\ \E remove \in BOOLEAN :
         BecomesTouching(p, [Exiting(req[p]) EXCEPT !.remove = remove], req[p].fd)
    /\ UNCHANGED <<dir, lock, disturbed, stray>>

-----------------------------------------------------------------------------
(* The end of a request. *)

(***************************************************************************)
(* CacheClose: the lock is given back first, then the distribution is      *)
(* stopped, which may take long, and the file closed.                      *)
(***************************************************************************)
CacheClose(p) ==
    /\ req[p].pc = "exit"
    /\ lock' = Released(p)
    /\ Becomes(p, [req[p] EXCEPT !.pc = "closed", !.fd = None])
    /\ UNCHANGED <<dir, data, disturbed, stray>>

(***************************************************************************)
(* What to do with the name: nothing, unlink it, or, in HTcache_done,      *)
(* rename "loading" to "doc".                                              *)
(***************************************************************************)
Outcome(r) ==
    LET remove == r.remove \/ FileSize(r.path) = 0
    IN  IF r.hcode = "none" \/ r.distrib THEN "end"
        ELSE IF remove THEN "unlink"
        ELSE IF r.path = "doc" \/ ~Named("loading") THEN "end"
        ELSE IF FileSize("loading") = 0 THEN "unlink"
        ELSE IF r.hcode = "err" /\ Named("doc") THEN "unlink"
        ELSE "rename"

Done(p) ==
    /\ req[p].pc = "closed"
    /\ Becomes(p, IF Outcome(req[p]) = "end" THEN Ended
                  ELSE [req[p] EXCEPT !.pc = Outcome(req[p]), !.hcode = "none",
                                      !.remove = FALSE])
    /\ UNCHANGED <<dir, data, lock, disturbed, stray>>

Unlink(p) ==
    /\ req[p].pc = "unlink"
    /\ dir' = [dir EXCEPT ![req[p].path] = None]
    /\ Becomes(p, Ended)
    /\ UNCHANGED <<data, lock, disturbed, stray>>

(***************************************************************************)
(* The file named "loading" is not always what p has downloaded: p may     *)
(* have relayed a response that it did not write to the file (a 5xx, or a  *)
(* reload without the lock), or the name may have come to another file.    *)
(* It is renamed all the same, also the part of a response that a killed   *)
(* process has left or another one is still downloading.                   *)
(***************************************************************************)
Rename(p) ==
    /\ req[p].pc = "rename"
    /\ dir' = IF Named("loading")
                THEN [doc |-> dir["loading"], loading |-> None] ELSE dir
    /\ stray' = IF Named("loading") /\ req[p].mine # dir["loading"]
                  THEN stray \cup {dir["loading"]} ELSE stray
    /\ Becomes(p, Ended)
    /\ UNCHANGED <<data, lock, disturbed>>

(***************************************************************************)
(* A process is killed, or stops on a signal; then abortCache empties the  *)
(* file it is downloading to.  Its files are closed, so its lock is gone.  *)
(***************************************************************************)
Crash(p) ==
    /\ req[p].pc # "end"
    /\ lock' = Released(p)
    /\ Becomes(p, Ended)
    /\ UNCHANGED <<dir, data, disturbed, stray>>

Abort(p) ==
    /\ req[p].pc \in {"fetch", "load"} /\ req[p].fd # None
    /\ data' = [data EXCEPT ![req[p].fd] = <<>>]
    /\ lock' = Released(p)
    /\ BecomesTouching(p, Ended, req[p].fd)
    /\ UNCHANGED <<dir, disturbed, stray>>

(***************************************************************************)
(* What a process does by itself, and what it does as the server, or a     *)
(* signal, makes it.                                                       *)
(***************************************************************************)
Own(p) ==
    \/ RetryRead(p) \/ Serve(p) \/ Make(p) \/ MakeAnew(p) \/ CantMake(p)
    \/ LockWr(p) \/ RecvDistribution(p)
    \/ CacheClose(p) \/ Done(p) \/ Unlink(p) \/ Rename(p)
Server(p) ==
    \/ RelayDistribution(p) \/ CantConnect(p) \/ EmptyResponse(p)
    \/ ServerError(p) \/ NotModified(p) \/ Respond(p)
    \/ LoadBlock(p) \/ LoadEnd(p) \/ LoadFail(p) \/ Discard(p)

Remember == calm' = (calm /\ disturbed' \subseteq disturbed /\ stray' \subseteq stray)
Next == \E p \in Proc : (Own(p) \/ Server(p) \/ Crash(p) \/ Abort(p)) /\ Remember

Spec == Init /\ [][Next]_vars
LiveSpec == Spec /\ \A p \in Proc : WF_vars(Own(p) /\ Remember)

-----------------------------------------------------------------------------
(* What is claimed. *)

\* Every variable keeps its type.
TypeOK ==
    /\ dir \in [Name -> Ino \cup {None}]
    /\ data \in [Ino -> Seq(Block)]
    /\ lock \in [Ino -> Proc \cup {None}]
    /\ req \in [Proc -> Request]
    /\ disturbed \subseteq Ino /\ stray \subseteq Ino /\ calm \in BOOLEAN

(***************************************************************************)
(* Whatever the order of opens, locks, renames and dup2()s, two processes  *)
(* never download into the same file at the same time (file_lock_wr).      *)
(***************************************************************************)
OneWriter ==
    \A p, q \in Proc :
        req[p].pc = "load" /\ req[q].pc = "load" /\ req[p].fd = req[q].fd => p = q

(***************************************************************************)
(* A document that was published by the process that downloaded it, and    *)
(* whose file nobody else has taken meanwhile (truncated while it was      *)
(* locked, locked between unlock and rename or after it), is one whole     *)
(* response: who fails, gives the file up, is stopped or must not cache    *)
(* the response does not publish a part of it, and what a longer leftover  *)
(* had behind its end is cut off.  Files that are published by a process   *)
(* that did not download them (stray) are excepted, for they need not be   *)
(* whole: a process that was killed leaves a part under the name           *)
(* "loading", and the next request renames it to the document when the     *)
(* server answers it with a 5xx and there is no document.                  *)
(***************************************************************************)
PublishedWhole ==
    Named("doc") /\ dir["doc"] \notin disturbed \cup stray => Whole(data[dir["doc"]])

(***************************************************************************)
(* No request loses the document: an error, a failed download or a         *)
(* response that must not be cached leaves the old one in place (the path  *)
(* that is removed is the one of "loading"), as long as no file of the     *)
(* cache has been in two hands and none was published by a process that    *)
(* did not download it (which may be a part, and is removed when it is     *)
(* found to be broken).                                                    *)
(***************************************************************************)
DocStays ==
    [][Named("doc") /\ calm => Named("doc")']_vars

(***************************************************************************)
(* A request never waits for ever for what another one downloads: it comes *)
(* to be served from the cache or by its distributor, or asks the server   *)
(* itself, even when the process that holds the lock never goes on         *)
(* (cretry, and the time limits of recvDistribution).                      *)
(***************************************************************************)
NeverStuck ==
    \A p \in Proc : <>(req[p].pc \in {"relay", "fetch", "load", "end"})
=============================================================================

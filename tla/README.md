# DeleGate in TLA+: SockMux, the document cache, the server's processes

DeleGate 9.9.13 is a proxy for many protocols. Most of its 190,000 lines of C++ are
sequential per client: a child process is forked, parses a request, rewrites it and relays
the answer. This project is about the parts that are not: those where processes or
connections meet and share something.

* **SockMux** (`src/delegate/src/sox.cpp`): two DeleGates keep one persistent connection, the
  *comm connection*, and forward ports to each other over it, by a protocol of its own with
  acknowledgements, a window, identifiers that are reused, keep-alives and recovery.
* **The document cache** (`http.cpp`, `cache.cpp`, `distrib.cpp`, `rary/lock.cpp`): processes that
  serve requests for the same document share one cache file, lock it, and hand each other a
  download that is still running.
* **The processes of the server** (`delegated.cpp`, `ccache.cpp`): the main process accepts,
  forks, counts, signals and restarts itself, next to children that accept on the same port
  and children that stay as connection caches.

No test in `src/tests` touches these interactions. The project specifies them, model-checks
them with TLC, and proves the most important invariants, and a refinement, with TLAPS.

## 1. Inventory

### 1.1 SockMux: state and operations

Each of the two processes (the *ends*, called `near` and `far` in the models) keeps a table
`Agentpv[0..Agents-1]` of *agents*. Agent 0 writes to the comm connection (`COMMOUT`), agent
1 reads from it (`COMMIN`), one agent per `PORT` listens (`LISTEN`), and every forwarded
connection has one agent at each end, which owns a non-blocking local socket, a buffer for
output that the socket did not take (`a_lbuf`), its own 8-bit id (`a_Laid`), the id of its
partner (`a_Xaid`), the count of bytes sent and not yet acknowledged (`a_rpend`) and a status
(`a_stat`).

| Part of `sox.cpp` | State | Operations | What makes it hard | What makes it correct |
|---|---|---|---|---|
| Relaying of one connection | `a_stat`, `a_rpend`, `a_lbuf`, `a_ltCLOSED`, packets under way | `sox_relay1`, `sock2comm`, `writeb`, `PS_OUT` of `sox_clock1`; SEND, SENT, SENDOOB, SENTOOB, CLOSE, CLOSED in `sox_COMMIN`; release in `sox_fdset` | short and failing writes, both directions at once, CLOSE crossing CLOSE and data, urgent data, linger time | bytes in order, bounded buffer, exact credit, orderly close, no stopped connection, release |
| Table and ids | `Agentpv`, `s_aidactive`, `s_nlaid`, `Qfdset`, `Qcxv` | `newAgent`, `newlaid`, `sweepAgents`, `delAgent`, `sox_fdset`, `sox_accept1`; CONNECT, CONNECTED and the lookup in `sox_COMMIN` | ids are reused while packets are under way, the table is changed while it is scanned, it may be full, UDP agents time out | unique ids, packets reach their own connection, the tunnel's agents stay intact, clients get an answer |
| Session | options, `PackSize`, clocks `s_time`, `s_rtime`, `s_wtime` | `sox_setupX`, HELLO, SETOPT, PING, `commInactive`, `shutdownAgents` | silent loss of the comm connection, restart of one side, connections left in the accept queue, negotiation | both sides agree on the size, nothing of an old session enters the new one, dead connections are found out and only those, the tunnel comes back |
| Encryption, authentication, BIND | keys, `a_authstat`, remote ports | `set_CRYPT`, `recv_AUTH`, `recv_BIND` | - | - |

The ends interact only through packets on the comm connection. Within one end everything
happens in one thread, in *turns* of `sox_clock1`: recompute what is polled (`sox_fdset`, only
when `Qfdset` was cleared), poll, then handle the events agent by agent. What makes
this hard is what is remembered from one turn to the next and between the two ends:
statuses that gate polling, indices into a table that shrinks, ids in packets under way.

### 1.2 The document cache: state and operations

| Part | State | Operations | What makes it hard | What makes it correct |
|---|---|---|---|---|
| Cache file of an HTTP document | the names *path* and *path*`#LOADING`, the files behind them, their `flock` locks; per request the `QueryContext` (`QX_cpath`, `QX_cachefp`, `QX_cdate`, `QX_cacheRemove`, `QX_rcode`) | `doCache`, `HTcache_make`, `file_lock_wr`, `relay_response`, `makeshift`, `popCurrentCache`, `doTruncateCache`, `CacheClose`, `HTcache_done`, `CTX_cache_remove`, `abortCache` | opens, locks, unlinks and renames of several processes in any order, kills, broken downloads, leftovers | one writer, what is published is whole, the old document is not lost, nobody waits for ever |
| Distribution of a download | `ca_receptors`, `ca_putoff`, `ca_curoff`, the Unix socket | `makeDistribution`, `recvDistribution`, `sendDistribution`, `flushDistribution`, `stopDistribution` | non-blocking sockets, short writes, slow or vanished readers, the fork in the middle of a response | everyone gets the response from its beginning without gap; slow readers hold nobody up |

### 1.3 The processes of the server: state and operations

| Part | State | Operations | What makes it hard | What makes it correct |
|---|---|---|---|---|
| Main process | `NUM_CHILDREN`, `StickyProcs`, the lock of the port file, its modification time | main loop, `AcceptByMain`, `locked_out`, `breakStickies`, `cleanup_zombis`, `dec_nproc`, `sigHUPX` | clients taken by Stickies between poll and accept, frozen children that hold the lock, pids that are reused, exec with children alive | exact count, limit kept, own children signalled only, clients accepted |
| Onetime and Sticky servers | served count, pending SIGHUP, shared lock | `StickyServer`, `AcceptBySticky1`, `stopStickyServer`, `sigHUPforAbort` | hang in accept, signals blocked during service | they end when told |
| Connection caches | `CC_Procs`, the socket pair `CC_Report` | `sayStartCC`, `sayFinishCC`, `num_CC`, `del_CC` | messages lost, or read after the process is gone | they make room for exactly as many servers |

### 1.4 The rest of the repository

`PROJECT.json` lists the other components with the reason why each is not modelled. In
short: protocol gateways, MOUNT, access lists and the MIME library are sequential data
transformations, most of the 260,000 lines; TLS, PAM and the like are libraries; the UDP relay,
ICP, the resolver cache and the shutter have small state machines of their own and are left for
later. Teleport is an older tunnel outside the build.

### 1.5 Hazards

`PROJECT.json` lists them with their lines. The main groups. *SockMux*: credit accounting between
two ends (an unsigned counter decremented by numbers the other side sends); the window against
the buffer; the close handshake; reuse of ids; the table at its limit; the scan of
`sox_fdset` that deletes from what it iterates over; stopped input, closing agents and clients in
`SOX_CONNECT`; loss and restart of the session. *Cache*: names and locks that refer to different
files by the time they are used; kills between any two steps; errors in the middle of a
download; waiting for somebody who never goes on. *Distribution*: short writes; the fork; readers that stop; a file that is
discarded under its receptors; lengths that change between being counted and being written.
*Processes*: pids and counts that outlive what they stand for; the client between poll and
accept; frozen holders of a lock; restart. Hazards without a property have a note.

## 2. Modules

| Module | Content |
|---|---|
| `SockMuxFlow` | one connection: two agents, the packets between them, both windows and buffers, the close handshake; its inductive invariant `IInv` |
| `SockMuxFlowLemmas`, `SockMuxFlowProofs` | lemmas on the channel, on sums over it and on each part of the invariant; one lemma per action; the theorems |
| `Pipe`, `SockMuxFlowPipe`, `SockMuxPipeProofs` | what a connection promises, a duplex byte stream; the refinement mapping; the proof that `SockMuxFlow` implements it, and what follows from it |
| `MCSockMuxFlow` | bounds for TLC |
| `SockMuxTable` | many connections: tables, ids, the scan, the turn, lookup of packets, UDP timeouts |
| `SockMuxTableProofs` | `TypeOK` and `IdsMatch` are inductive; with room in the tables, packets find their agents and the tunnel stays intact |
| `SockMuxSession`, `MCSockMuxSession` | the comm connection itself: setup, options, keep-alive, loss, restart |
| `SockMuxSessionProofs` | the two ends of a session keep in step: its safety properties |
| `HttpCache`, `MCHttpCache` | requests for one document and its cache file |
| `HttpCacheProofs` | there is one writer; what is published is whole, and stays |
| `Distribution`, `MCDistribution` | a running download handed to several processes |
| `DistributionProofs` | everyone gets the response in order, and an end is the end |
| `Children`, `MCChildren` | the main server, Onetime and Sticky servers, connection caches |
| `ChildrenProofs` | the count is exact, signals hit own Stickies, main gets its client, and the limit is kept |
| `MCSockMuxTable` | bounds and symmetry for TLC |

How they fit together: `SockMuxSession` brings the comm connection up and down, and `SockMuxFlow`
and `SockMuxTable` describe what happens while it is up (`SizesAgree` is what `SockMuxFlow` assumes when
it gives both ends one `PackSize`; `Paired` is why their initial states are empty). `HttpCache` treats what
`recvDistribution` gets as a nondeterministic outcome, and `Distribution` says which outcomes there are. `Children`
is the life of the processes that the other modules take as given.

The two views of SockMux while it is up are complementary. `SockMuxFlow` keeps every byte count and every status but
has one connection; `SockMuxTable` has many connections and the whole table, but reduces
data to units of one SEND that never fill the window. Where they meet they agree:
`FreedIsQuiet`, proved of one connection, is the reason why `Addressed` can hold of many; and
the exception it allows, late SENTs, is exactly how finding 3 comes about.

### 2.1 SockMuxFlow

State: `stat` is `a_stat` (`"NONE"`, `"REFUSED"` and `"FREE"` say that there is no agent yet,
that none was made, or that it was given back), `rpend` is `a_rpend`, `lbuf` the length of
`a_lbuf`, `ltClosed` whether `a_ltCLOSED` is set, `rev` the events of the current poll that are
still to be handled, `chan[e]` the packets on their way to end `e`. Bytes are their positions in
the sender's stream. The remaining variables are history: `seq`, `got` and `gack` are positions;
`leak` is the credit lost by failed urgent sends, `extra` the bytes sent over the window because
a flush or SENTOOB had overwritten the waiting status, `oob` the number of urgent bytes, `urgent` the positions
that were read as urgent and `lost` those of them that `sendOOB` of the other end did not take; `expired` says that
the linger time is over. Packets carry the positions at which they were sent.

| Action | Code |
|---|---|
| `Poll` | `sox_fdset`'s event masks, `PollInsOuts` (external: reports any subset of what is ready, the comm connection included, whose packets may still be under way); COMM alone is the short cut through `ready_cc` |
| `Flush` | `PS_OUT`: `writesock(NULL)`, SENT for what went out, status SENT |
| `Relay`, `RelayOOB`, `PushOOB`, `NoOOB`, `RelayAgain`, `RelayEof`, `RelayIgnored` | the outcomes of `sox_relay1` and `sock2comm` |
| `RecvConnect` ... `RecvClosed`, `RecvIgnored` | the cases of `sox_COMMIN`, with the filter for closing agents and for missing ones |
| `Free`, `LingerExpires` | the first loop of `sox_fdset`, and the passing of `Llinger` seconds |

A turn handles its events in the order of the code: comm connection (agent 1), then this
agent's output, urgent input, input, pushed urgent data. Data that `get_conndata` attaches to CONNECT
and CONNECTED goes straight to the socket before any SEND and is not counted (`put_conndata` sends it with one `send()` and only logs a short count, `sox.cpp:857`).

Urgent bytes go round the buffer: SENDOOB is handed to `sendOOB` at once, also when ordinary bytes wait in `a_lbuf`, which it
overtakes, and what `sendOOB` does not take is never tried again (`sox.cpp:2829-2834`). `InOrder` is therefore about the order in
which payloads are received, not the order at the socket; `Settled` counts an urgent byte as dealt with when it was offered to `sendOOB`,
and `NothingLost` says which bytes that leaves unwritten.

`Pipe` is what the two ends promise together, without packets, windows and statuses: each end takes
bytes from its socket, each byte taken is written at the other end once and in order, or thrown away
there, an end closes on its own or after its peer, and it is not gone with bytes missing unless it
is *excused*. `Pipe` does not tell bytes written from bytes thrown away; `NothingLost` does. `SockMuxFlowPipe` maps `SockMuxFlow` onto it: `phase` is read off `stat`, `sent` is `seq`,
`done` is `Settled`, what was received less what is still in `a_lbuf` (a refused urgent byte counts as thrown away), and `excused` is `a_ltCLOSED` or the
end of the linger time. A CLOSE with data behind it in the buffer, or CLOSEs that cross, are steps of
`Pipe` like any other; polling, acknowledgements and refilled windows are stutters.

### 2.2 SockMuxTable

State: `pv[e]` is the sequence `Agentpv[0..Agents-1]` of records with the fields the lookup and
the lifecycle depend on, `aidactive` the set of ids marked in `s_aidactive`, `nlaid`, `qfdset` as
in the code, `qin` and `qout` the places polled (`Qcxv`, `Qqev`), `scan` the index of a running
`sox_fdset`, `pos` the progress of a turn, `chan` as above. An agent's `conn` is history: the
connection it was made for; packets carry it along, so that a property can say who a packet was
meant for.

| Action | Code |
|---|---|
| `FdsetFree`, `FdsetDone` | the two loops of `sox_fdset`, with `delAgent`; the index goes on after a deletion as in the code |
| `Accept` | `sox_accept1` with `newAgent` (`MakeAgent`, `Sweep`, `Newlaid`) |
| `Flush`, `Relay`, `RelayEof`, `RelayIgnored` | `PS_OUT` and `sox_relay1` |
| `RecvConnect`, `RecvConnectFail`, ... , `RecvIgnored` | `sox_COMMIN` |
| `Age` | 180 seconds (`SOXMUX_UDP_TIMEOUT`) without a packet for a UDP agent |

`MakeAgent` has both outcomes: a full table yields the static dummy with id 0, and `newlaid`
without a free id yields -1, stored in an `unsigned char` as 255, which is also the value of a
cleared id. The write `s_aidactive[255]` at the release of such an agent lies outside the array,
within `s_qfdv`, which `sox_fdset` fills anew right after: it has no effect on the model's state.
When a packet has overwritten the status of a comm agent (possible only with id 0 in a CONNECT),
what the process then does is not modelled: that end stops (`Sound`).

### 2.3 SockMuxSession

One end, `con`, connects to the port of the other, `acc`; `stat` says where each is (`down` in the RETRY
of `sox_mainX`, `hello` in the loop of `sox_setupX`, `up` in `sox_clock1`), `conn` what its comm
socket is, `pend` and `stale` what waits in the accept queue of `acc`. One client and one server
connection stand for everything that is relayed, with the number of unanswered SENDs (`out`) and of those that
wait for a server that does not read (`buf`).

| Action | Code |
|---|---|
| `Connect`, `Accept`, `AcceptStale` | `sox_setupX`, up to the HELLO it writes; `stale` is a connection that `con` has given up and `acc` finds later, HELLO included |
| `SetupHello`, `SetupDone`, `SetupTimeout` | the loop that waits for HELLOOK, the options and the first PING, the 15 seconds |
| `RecvOption`, `RecvEcho`, `RecvNothing` | SETOPT with `set_PACKSIZE`, ECHO, ECHOOK and HELLOOK in `sox_COMMIN` |
| `Ping`, `Inactive`, `Eof` | the idle turn of `sox_clock1` with `commInactive`; end of file and POLL_HUP; `Shutdown` is `shutdownAgents` and what RETRY closes |
| `Client` ... `RecvSent`, `Flush` | the packets of a client, as far as they set the clocks |
| `Restart`, `Reset`, `Cut`, `Tick` | faults, `MaxFaults` of them, and 15 seconds |

Time is counted in units of 15 seconds. The code compares stamps that are taken at different moments: packets
read and written carry `s_time`, the time at which the *turn* began (`sox.cpp:2161`), PINGs the time of
now (`sox.cpp:2257`). So the model keeps three ages per end: `since` of the last read, `idle` of the turn,
and `lag`, the difference that `commInactive` computes. Whatever can be read is read before the next tick
(`Busy`). The pauses of RETRY are not timed: a retry may come at any moment, in the code 15 seconds later. `stale` is one connection
given up by `con`; in the code several may wait in the queue, since `con` tries again every 15 seconds while `acc` may notice only after 60 to 90, and
`acc` finds them one after the other, each with its own HELLO and its own end of file, as the model's one. `PackSize` is a global that outlives a session, `Size` the
value of `SOXCONF=packsize` the process was started with; a restart may change it.

### 2.4 HttpCache

`dir` is the directory with the two names, `data` and `lock` belong to the files behind them, so that a name may
be renamed or removed under a process that holds the file. `req[p]` is the request of a process; its fields are named
after `QueryContext`. A step is what lies between two calls that another process can come in between.

| Action | Code |
|---|---|
| `RetryRead`, `Serve` | `retry_read` of `doCache`; `relay_response_fromCache` |
| `Make`, `MakeAnew`, `CantMake` | `HTcache_make`, `cache_fopen_rw`: open `r+`, else `w+` |
| `LockWr`, `RecvDistribution`, `RelayDistribution` | `file_lock_wr`, and what `recvDistribution` brings when it fails |
| `CantConnect`, `EmptyResponse`, `ServerError`, `NotModified`, `Respond` | the first answer of the server, with `makeshift` and `popCurrentCache` |
| `LoadBlock`, `LoadEnd`, `LoadFail`, `Discard` | `relay_response`: writing at the own offset, `doTruncateCache`, a broken download, a file that is emptied and given up (disk full, too large, Set-Cookie) |
| `CacheClose`, `Done`, `Unlink`, `Rename` | `CacheClose`, `CTX_cache_remove`, `HTcache_done`: unlock first, then look at the name, then remove or rename it |
| `Crash`, `Abort` | a kill; a signal with `abortCache` |

Whether a document has expired, and which answer the server gives, is a free choice. `disturbed`, `stray` and `calm` are history:
the files that two processes have had in hand at once, the files that were published by a process that had not downloaded them, and that
there has been neither. The code excludes neither (section 4). They say where `PublishedWhole` and `DocStays` hold: for everything
that a process does with its own download, failures and kills included. `stray` files can be parts of a response (finding 11).

### 2.5 Distribution

The downloader has for each receptor an offset (`ca_putoff`) and a non-blocking socket that holds `Room` units. `Load` is
the whole of `sendDistribution` for one piece of the response: `DistribTo` for those that have everything so far,
`FlushTo` (`flushDistribution`, from the file) for the others, then perhaps the accept of one more (`AcceptTo`, `accept1`)
with the fork that makes the downloader's own client a receptor (`ForkTo`). A unit is a position in the cache file; `resp` counts those
that came, `curoff` is `ca_curoff`, the sum of the lengths given to `sendDistribution`. They differ after a header line whose length was changed
between the two (`Load` with `m # n`, `http.cpp:6313-6349`; `Skewed` names the receptors concerned), and the file itself may be cut to nothing (`Truncate`): `Discard` when the
response is too large or has a cookie, `DiskFull` when it cannot be written. A downloader that has forked then stops with the receptors it has; one that has not goes on for its own
client (`LoadAlone`). `StopThread` and `Sweep` are the end of the distribution when a thread decodes the body. `Stop`, `StopRound` and
`StopTimeout` are `stopDistribution`; `Connect`, `Read` and `Leave` are the other side; `Crash` is a kill. The receptors do not
depend on one another, so they are a function and not the array of the code, whose limit of 64 is not modelled.

### 2.6 Children

`proc` is what the system knows of each pid: free, alive in some phase, or dead and not waited for. What main
believes is `NUM_CHILDREN`, `StickyProcs` and `CC_Procs`; what makes it hard is that the two differ. `quiet`
stands for the age of the port file being over `SERVER_DEFREEZE`. A child of the server before a restart is `old`: it has the listening
port, but its lock is on a file that is removed.

| Action | Code |
|---|---|
| `Reap`, `Reaped`, `ReadCC`, `NumTest`, `FullTest`, `FullWait`, `FullLog` | `cleanup_zombis` with `dec_nproc` and `num_CC` (`ReadCC` reads one of its messages); every `Cleanup(l)` in another action is a call of it |
| `AcceptTimeout`, `AcceptAlone`, `AcceptLock`, `LockedOut`, `AcceptYield`, `AcceptClient` | `AcceptByMain`, `locked_out` |
| `ForkServer`, `ForkReap`, `ForkFails` | the fork in the main loop, `ForkY` |
| `BreakWait`, `BreakHup`, `BreakKill` | `breakStickies`, `StickyKill` |
| `Sighup`, `Hup`, `Exec` | `sigHUPX`, `HUPENV`, `Execvp` |
| `ServeEnd`, `ServeNext`, `Detach`, `StickyLock`, `StickyAccept`, `StickyUnlock`, `StickyTimeout`, `sigHUPforAbort` | a server process, Onetime or Sticky |
| `StartCC`, `FinishCC`, `AbortCC` | a connection cache, `putCCinfo` |
| `Freeze`, `Thaw`, `Abort`, `Arrive`, `Defreeze` | the outside: hang in `accept`, kill, clients, time |

## 3. Runs

The runs of `session`, `children` and `children_live` check for deadlock. The others say `CHECK_DEADLOCK FALSE`: clients and
servers owe the tunnel nothing, so a silent tunnel is a legal state, and a cache file whose
requests are all answered is at rest.

| Run | Result | What it shows |
|---|---|---|
| `flow` | pass | `TypeOK`, `InOrder`, `BufferBound`, `CleanClose`, `FreedIsQuiet`, `CreditLedger`, and the refinement `IsPipe`, with data both ways |
| `flow_urgent` | pass | with urgent bytes that may be refused: `NothingLost`, which bytes are missing in the end, `CreditLedger`, and `Resumed`, also where credit is lost |
| `flow_live` | pass | `Released`, and `PipeRuns`: the fair connection is a fair pipe |
| `flow_overrun` | violation of `BufferFits` | finding 1 |
| `table` | pass | `Addressed`, `TunnelIntact`, TCP clients at both ends, reuse of ids |
| `table_limit` | pass | `TypeOK`, `IdsMatch` in a table of four, with UDP |
| `table_live` | pass | `Answered` |
| `session` | pass | the setup keeps both ends in step (`HelloFirst`), both use one size (`SizesAgree`), nothing outlives a session (`Paired`), `commInactive` gives up dead connections only (`NoFalseAlarm`), an agent whose connection was cut is released (`Released`, but see 3.2), and the tunnel comes back (`Recovered`) |
| `cache` | pass | `OneWriter`, `PublishedWhole`, `DocStays`, `NeverStuck` |
| `distrib` | pass | `InSequence`, `Complete`, `GetsAll`, `Stops`, with discarded files and changed header lines |
| `children` | pass | `Counted`, `KillsOwn`, `NotTaken`, `Limited` |
| `children_live` | pass | `Accepted` |

### 3.1 Bounds

*Flow.* `MaxSend` and `MaxOOB` bound the bytes an end reads. With `PackSize` 2, header 1 and
`MAXPENDING` 1 the window is two bytes and the payload one: four bytes from the near end fill
the window, exceed it by one packet, stop the input and resume it; two bytes the other way make
both directions interact. `flow_live` and
`flow_urgent` use the smallest sizes (window 1, payload 1, the boundary case of the resume threshold), `flow_live` with one byte in each direction. In
`flow_urgent` the near end has two ordinary bytes and an urgent one: the window is filled and resumed by ordinary bytes, and one refused urgent byte uses
it up. With a window of two bytes and three ordinary bytes, where one refused byte leaves a credit of one to go on with, `Resumed` holds as well (248,258 states;
too long for a run of the project).
`flow_overrun` needs more bytes, since only a flush lets a stopped agent read again and the
buffer has room for `MAXPENDING + 2` packets. The proofs remove all these bounds.

*Table.* Two connections suffice for one to meet the other's ids; a connection may come again
once all its agents and packets are gone (`Seen`), so ids are reused without end. `NSOCK` 6 leaves
two free ids beside COMMOUT, COMMIN and LISTEN, so that `newlaid` wraps around; `NSOCK` 4, with
three ids, is full after one connection and reaches the dummy and the id 255. `Addressed` is
checked with 6, where no end runs out of ids: with 5 and clients at both ends it fails, since an
agent that got 255 is found by the packets for nobody, such as CONNECT. Data matters to
the table only where it outlives a connection, in the buffer of a CLOSED agent: one unit from
the far end is enough for that. Clients are symmetric when all are TCP and only safety is
checked.

*Session.* The sizes lie on the three sides of what `set_PACKSIZE` tells apart: its minimum, below and above the
initial `PackSize`. A window of three SENDs is enough for a client to keep an end from being
idle for 60 seconds, which it takes to reach the false alarm that `NoFalseAlarm` excepts. Two faults are enough for a
restart to meet the remains of a cut, and for a connection to become stale in the queue and be found by a restarted
end. The proofs hold for any sizes, window and number of faults.

*Cache.* Two requests, four files (each may hold one without a name, besides the two that have one), responses of one
and two blocks: a shorter response over a longer leftover, a broken one, and one of another length by another
process are all there. That more requests, files and blocks add nothing is shown by proof for the three safety
properties.

*Distribution.* Five units against a room of two make every receptor fall behind and catch up, in `distrib` and from the
file; one of two receivers, besides the client, is slow. Pieces of one or two units, and one header line that becomes a unit longer or
shorter, give both signs of the skew; a discard or a full disk may come at every point. The proofs hold for any number of receivers, units and room.

*Children.* Three pids against `MAX_DELEGATE` 2 let a connection cache make room for another server and let a pid be used
again; one freeze, one restart and one lost message each meet all the others. In `children_live` restarts are left out,
since a restart accepts nothing by itself. The proofs remove these bounds from all safety properties. For `Accepted`,
`MaxFrozen < MAX_DELEGATE` (`FreezeAssumption`) is needed, not convenient: see section 4.

### 3.2 Fairness

`SockMuxFlow!FairSpec`: weak fairness of `Handle` is the endless loop of `sox_mainX`. A poll need not report a packet that was written; strong
fairness of the polls that do says that what is written to the comm connection arrives, while the processes poll without end. Strong fairness of polls that find the
socket writable, and of an effective flush, says that the reader of the local socket lives; without
that nothing would resume. Strong fairness of `Free` says that the tunnel does not fall silent for
ever: `sox_fdset` runs only after something cleared `Qfdset`, and any traffic does. It is an
assumption on the tunnel's other connections: see the peculiarities of `sox_fdset` in section 4.

`SockMuxTable!FairSpec`: weak fairness of `sox_fdset`'s steps and strong fairness of the handling
of packets, as a waiting packet is handled at the next turn, before anything else. `Local`,
which stands for clients and servers, has none.

`SockMuxSession!LiveSpec`: each process goes on, and so does time. Nobody need connect, send or read, and faults are
bounded. The model has one client, whose local events come to an end after a cut, since its window fills. In the code `commInactive` is asked only when both polls
of a turn (`sox.cpp:2195`, `2240`) found nothing: clients that keep coming to the `PORT` postpone it for as long as they come, and `Released` then rests on TCP giving
the cut connection up.

`HttpCache!LiveSpec`: a process goes on where it is on its own (`Own`). The server of the document, and so the process that
holds the lock, may be silent for ever; that is why `NeverStuck` is worth stating.

`Distribution!LiveSpec`: the downloader comes to an end, and receivers that are not `Slow` read.

`Children!LiveSpec`: main and every child go on; strong fairness of `StickyTimeout`, because a Sticky's time runs although each
poll of `StickyTIMEOUT1` seconds is an attempt of its own; `Defreeze`, because time passes. Frozen children need not thaw.

## 4. Findings

The first is shown by the run `flow_overrun` and quoted in `PROJECT.json`; the others came up in modelling and are
described here without a run. The properties of the models are worded so that they hold with them: each exception
in a property is one of these. The models reach them: without the exception `stray` in `PublishedWhole`, or `Skewed` in `InSequence`, for instance, TLC shows the
run of finding 11 or 12.

SockMux:

1. **Window overrun.** A flush sets the status SENT (`sox.cpp:2317`) also when it was
   `SOX_SENDING`; each flush of an agent lets it read one packet over its window, and the peer
   appends it to `b_buf` unchecked. `BufferBound` states, and the proof confirms, that this and urgent
   data are the only ways over the bound.
2. **Linger lost.** EAGAIN sets `a_ltCLOSED` (`sox.cpp:780`).
3. **Late SENT.** SENTs of a flushing CLOSED agent reach the next owner of the id, whose
   `a_rpend` wraps (`sox.cpp:2876`).
4. **Silent sweep.** UDP agents are closed without telling the remote (`sox.cpp:1202`).
5. **Fresh agent swept.** `s_time` is 0 until the first packet (`sox.cpp:1194`).
6. **Dummy agent.** In a full table CONNECT goes out with the id of COMMOUT (`sox.cpp:1223`).
7. **Deaf end.** `commInactive` returns 0 as long as nothing was read in `sox_clock1` (`sox.cpp:1148`): an end whose
   first connection is cut right after the setup sends PINGs until TCP gives up. `Deaf` names the state, which
   `Recovered` and `Released` except.
8. **False alarm.** SENDs that wait at a server that does not read are not answered; when the client sends one more now and then,
   the session is given up after 60 seconds although the connection lives (`NoFalseAlarm`).
9. **Smallest packet.** `set_PACKSIZE` never takes 128 (`sox.cpp:946`), which the manual names as the minimum. `SizesAgree` is stated for
   sizes above it.
10. **Clients left behind.** Some error paths of `sox_clock1` and `sox_COMMIN` return without `shutdownAgents` (`sox.cpp:2261`, `2265`,
    `2706`); the model takes the paths that call it.

Two more peculiarities are in the models. An urgent byte that `sendOOB` refuses is lost, and its credit never comes back
(`sox.cpp:2834`). `NothingLost` says that no other byte is lost, `CreditLedger` accounts for the credit with the history variable `leak`, and
`Resumed` excepts an agent whose whole window has leaked away: it may stop for good. And `delAgent`
inside the scan of `sox_fdset` (`sox.cpp:2555`) makes it pass over the agent behind the released
one (`FdsetFree` moves `scan` accordingly): if that one is CLOSED, too, it stays until something
clears `Qfdset` again, which the PING and ECHO of an idle tunnel do not.

Document cache and distribution:

11. **Leftover published.** A process that is killed while it downloads leaves a part of the response under `#LOADING`. The next request locks that file; when
    it is answered with a 5xx and there is no document yet, it writes nothing to the file (`http.cpp:5535`), neither `removeTruncated` (`4954`) nor `doTruncateCache` (`11256`)
    touches it, and `HTcache_done` renames it to the document (`10724`). A request that reloads, or does not wait, without the lock can
    publish the half download of another process in the same way. `stray` marks these files.
12. **Skewed offsets.** A header line that gets a blank behind its colon, or loses some, is written with its new length and counted with its old one
    (`http.cpp:6313-6349`). `ca_curoff` and the offsets taken from the file (`distrib.cpp:354`, `491`) then differ: a receptor may be taken for synchronized when it is not and miss a
    piece (`373`), get a byte from beyond the line, or be waited for until the timeout at the end. `Skewed` in the properties excepts the
    receptors of such a response.
13. **Discarded under the receptors.** When the cache file is given up (`http.cpp:3309`, `6519`, `2907`) the receptors it has are sent no more and see an end of the stream that is
    not the end of the response. `Complete` and `GetsAll` except them (`failed`).

A lock belongs to a file, while decisions are made by name. Between the two opens of `cache_fopen_rw` (`r+`, then `w+`)
another process can create and fill the file that is then truncated; between the unlock of `CacheClose` and the
rename of `HTcache_done` another process can lock the file that is about to get the document's name, and go on writing
to it. The remark in `http.cpp` that the file has become read-only and needs no lock is not true then. `disturbed` marks these files.

Processes: when all of `MAX_DELEGATE` children are frozen, main waits in `cleanup_zombis` and does not come to `breakStickies`
(`FreezeAssumption`). A connection cache that dies after its message and before `num_CC` has read it stays in `CC_Procs`
for good, and makes room for one more server (`losts` in `Limited`). `CC_Procs[256]` and `ca_receptors[64]` are filled without a check.
With the option `-Ecc` there is one more child, the CCSV. `sigHUPX` waits for it in `killChildren` (`delegated.cpp:1303`) and drops whatever pid that wait returns, so that a
counted child may be gone without `dec_nproc`; and when the CCSV dies by itself, `dec_nproc` (`1115-1149`) has no case for it and counts it down though it was never counted. The model, and
`Counted` and `KillsOwn` with it, are of a server without `-Ecc`.

## 5. Proofs

The assumptions on the constants, which TLC evaluates in every run:

* `SizeAssumption`, `BoundAssumption` (`SockMuxFlow`): a header smaller than a packet, a packet not larger than `PWSIZE`, at
  least one packet of window;
* `TableAssumption`: a table of 4 to 255 agents; the code's is 64, and beyond 255 ids would not fit into an `Aid`;
* `SizesAssumption` (`SockMuxSession`): the smallest size is below the initial one, which is at most `PWSIZE`;
* `CacheAssumption`: two files, a response of at least one block, and a value that is neither process nor file;
* `DistAssumption`: the client is not one of the receivers, and sockets and responses have room for one unit at least;
* `LimitAssumption` (`Children`): finitely many pids, and a `MAX_DELEGATE` of at least one. `FreezeAssumption`, fewer frozen children
  than `MAX_DELEGATE` (section 4), is for `Accepted` only; no proof uses it.

Each inductive invariant was checked by TLC before it was proved.

**One connection.** `InOrder`, `BufferBound`, `CleanClose` and `FreedIsQuiet` are not inductive.
`IInv` strengthens them by:
`Chain` - the packets under way to a live end continue, position by position, from what it has
received and seen acknowledged up to the sender's own positions, so that nothing can be missing
between; `Packets` - acknowledgements never exceed what they answer; `Counts` - `a_rpend` is the
distance between the own position and the acknowledged one plus the leak, and how far that
distance may exceed the window; `Opening` - before the connection is made the near end is
silent; `Handshake` and `LastWords` - who may still have CLOSE or CLOSED under way in which
status, and that nothing but SENT follows them; `Polled` - an end without an agent has no local
events. `Inductive` proves `Spec => []IInv` with one lemma per action; `TypeCorrect`,
`StreamInOrder`, `BufferBounded`, `ClosedCleanly` and `ReleasedIsQuiet` follow.

`CreditKept` needs no further invariant, but a fact about sums. By `Chain` each packet starts at the position where the one before it
ended, so that the bytes of all packets of a direction are the distance between the first and the last position,
however long the channel is (`Telescope`, `InFlightSums`). The provers have no induction over data; `LeastNumber` takes its place: a set of
numbers that is not empty has a least one, from the library's theorem on well-founded relations. A sum that was wrong somewhere would be wrong at
a least place, and right just before it. With the sums replaced by distances, `CreditLedger` is `Counts`.

`WaitIsAwaited` is the safety half of `Resumed`. `AlwaysFull` shows that whoever is in `SOX_SENDING` has `a_rpend` at the window or above; by `CreditKept` that
is the sum of what is under way, what is buffered and what has leaked. If the leak is smaller than the window, something of the rest is not zero: the
agent waits for packets or a flush that exist. That these come is fairness, and left to TLC.

**Tables.** `TypeOK /\ IdsMatch` is inductive as it stands. The interesting step is `newAgent`: when
`newlaid` finds nothing, the agent gets id 255, and this is new because a table that holds all
`NSOCK - 1` ids and 255 has `NSOCK` agents by the pigeonhole principle (`FullTable`), which
`newAgent` has excluded before. `TablesTyped` and `IdsUnique` are the results.

`Addressed` and `TunnelIntact` need to know the handshake of every connection. `AInv` has five parts, for each end: `Shape` - the permanent
agents come first, with the ids from 0 on, and all others have larger ids of their own; `Distinct` - a connection has at most one agent in
a table; `Waits` - the turn does not poll an agent that waits for CONNECTED; `Mail` - packets name no permanent
agent, and those of a connection, SENT aside, are CONNECT alone, or CONNECTED, SENDs and one CLOSE or CLOSED, in this order; and `Shake` - what the agents of a
connection are at the two ends fits the packets between them: who is waited for is there under the id the packets carry, a CLOSED
agent has nothing but SENT on its way, and the ids that two connected agents have of each other are right. `Shake` is symmetric in the
ends and speaks of one connection at a time, as a record (`View`) and a set of packets (`Post`) for each end, so that the steps of the handshake are
proved without tables (`ShakeAccept` to `ShakeFree`), and one lemma per action brings them into the tables. SENT
is the exception throughout: it may find an agent of another connection (finding 3), and the proof of `RecvSent` shows
that this touches `a_rpend` only, never the handshake.

`PacketsAddressed` and `TunnelStays` are for TCP (`UDP = {}`: `sweepAgents` closes UDP agents without a word to the peer) and have the
hypothesis `[]HasRoom`: no table reaches `NSOCK` agents. This is where they stop to be true, not where the proof stops: the
last agent of a full table has id 255, which the packets for nobody carry (section 3.1). `FewFindRoom`
replaces the hypothesis by one on the constants, `Cardinality(Conn) + 4 <= NSOCK`: a table holds at most
three permanent agents and one for each connection. The run `table` is the smallest instance of it with two connections.

**Refinement.** `Refines` proves `Spec => IsPipe`, for all sizes and without bounds on the bytes: initial states map to
initial states, and each step of `SockMuxFlow` to a step of `Pipe` or a stutter. It rests on `Inductive`: that a byte delivered was sent
is `Chain`; that an end closes after its peer only if the peer has closed is `Handshake`; that none is gone with
bytes missing is `CleanClose`. There is one lemma per group of actions with the same image.

`AllPassedOn` shows what the refinement is good for: `NothingLost` says that an agent which is released without an end of file of its own
and before its time to linger is over has dealt with all that its peer ever read, and that what it has not *written* of it are urgent bytes that `sendOOB` refused;
`CleanClose` speaks of what was received, and of empty buffers only. The first part reads nothing but `Pipe`: `PInv` says that no end has more than was sent, that an end without
excuse closes after its peer, which sends no more then, and that it leaves with everything. `Refines` carries it over to `SockMuxFlow`. The second part follows the urgent bytes: `OnlyUrgent` says that the positions
in SENDOOB packets, and so those that are lost, were read as urgent.

**Document cache.** `OneWriter` is not inductive: nothing in it says why the second process did not get so far. `IInv` of
`HttpCacheProofs` adds `Holds`: a request that is about to fetch or is downloading, with a file open, holds the lock of *that*
file, and a request has no file open before it has made one. The interesting steps are those that exchange the open
file for another one (`Makeshift`, `NotModified`, and the third case of `Respond`), after which the lock is gone and nothing
is written, and `LockWr`, which takes free locks only.

`PublishedWhole` and `DocStays` need a second invariant on top, `JInv`: `Fills` - as long as a file has been in one hand only (it is
neither in `disturbed` nor in `stray`), it holds what its process has downloaded so far, it is whole when that process is about to publish it, and nobody else
writes to it; `Paths` - who downloads does so under the name `#LOADING`; `DocQuiet` - the published file does
not have that name as well, and nobody writes to it; `Peace` - as long as nothing was disturbed and nothing published by a stranger (`calm`), no request is on
a way that takes it away. One step lemma (`JKept`) treats all the actions that write to their own
record only; the others, which write, truncate or rename, have a lemma each. `SingleWriter`,
`PublishedIsWhole` and `DocumentStays` (an action property) are the results, for any number of requests, files and blocks.

**Session.** `HelloFirst`, `Paired`, `SizesAgree` and `NoFalseAlarm` are each about one end, and depend on what is on its way from
the other one. `IInv` of `SockMuxSessionProofs` says this in six parts: `LinkInv` - which ends share a connection, and that
nothing arrives over one that is cut; `HelloInv` - a sequence of packets to an end in `sox_setupX` begins with HELLO, then HELLOOK, and no
HELLO is left for one that is up; `AgentInv` - an agent exists only in the session it was made in, and each type
of packet meets the agent that knows it; `CreditInv` - SENDs under way, SENDs held by the server and SENTs under way add up to what
the client has unanswered; `SizeInv` - an end that is up has its SETOPT under way or the other one has taken it;
`ClockInv` - an end that has waited for `LostTime` still awaits something: an answer under way, the question that
asks for it, or a SEND that the server does not read. The last one carries `AlarmIsTrue`: it
ties three clocks of each end to the contents of both channels. Counts of packets in a channel are cardinalities of sets of places, so
that no recursion is needed.

**Distribution.** `InSequence` and `Complete` follow from `Sound`, which says for each receiver that its data, read or in
the socket, are the first units of the response, that `ca_putoff` counts exactly them (as long as no header line was changed and the file is not cut), and that a client served directly has
all there is. It is joined by `Queued` and `Own` - who waits in the backlog is there once and the client
is not in it, without which an accept could start a receptor that has begun already -, `Level` - without a changed line `ca_curoff` is the length of the file
while anything is distributed -, and `Late` - a
connection is closed only when nothing comes any more, and who is connected to a cut file is counted as left behind. A turn of `sendDistribution` is a composition of operators on one
connection (`DistribTo`, `FlushTo`, `AcceptTo`, `ForkTo`, `DirectTo`), and each has its lemma; for receptors with skewed offsets the lemmas keep types and ranges only.

**Processes.** `Counted` is nearly inductive: each `fork` and `wait` changes the set of children by one. `KillsOwn` and `NotTaken` are not.
`KillsOwn` needs `Sound`: main knows every live Sticky of its own. `NotTaken` says that no Sticky takes the client that main has seen;
within one server the lock ensures it (`LockInv`: main's exclusive lock excludes every holder of the shared
one), but over a restart the lock is on another file, and it holds only because all Stickies of the server before
were told to stop or are detached. That they were, through `sigHUPX`, the calls of `cleanup_zombis` on the way and the exec, is `Told`
and the fourth line of `Sound`.

`Limited` is about two counts that nobody keeps together: `CC_Active`, the entries of `CC_Procs`, and the connection caches there are. Between
them lie the messages that `num_CC` has not read, in any order with the waits for their senders. `LInv` of `ChildrenProofs` has two parts.
`Ledger` - there are bounds on the entries of each pid, before and after every message that waits in `CC_Report`, such that
each read keeps below the next bound and, at the end, a pid has at most one entry if it is a connection cache, plus its spare ones; and there are at
most `losts` spare entries in all. `num_CC` moves along the bounds, a message sent adds one at the end, and a cache that dies silently turns its own
entry into a spare one. From sigHUPX to exec no server is forked, and nothing is claimed. `Room` - from the
test in `cleanup_zombis` to the fork, fewer than `MAX_DELEGATE` plus `losts` children serve: the children are exactly
counted (`Counted`), and at least `CC_Active - losts` of them are caches. `CC_Active` is a fold over the set of
pids in an order that CHOOSE fixes; that it is a sum along that order, grows by one with an entry and keeps below the sum of the bounds is proved from `LeastNumber`
(`ActiveIsSum`, `ActiveAdd`, `ActiveBound`). `ServersLimited` is the result. The invariant was checked by TLC with two lost messages first.

**Only model-checked**: the liveness properties (`Resumed`, `Released` of both models, `PipeRuns`, `Answered`, `Recovered`, `NeverStuck`,
`GetsAll`, `Stops`, `Accepted`), which need fairness. Every invariant and every action property that a
passing run checks has its theorem; that of `Addressed` and `TunnelIntact` is for TCP and a table with room, which is where they hold.

## 6. Not modelled

*SockMux:* encryption, authentication and remote BIND; comm connections over FIFOs or a process; the CONNDATA and CRYPT
options; data
attached to CONNECT; `PS_HUP` and `PS_ERR` of a client, which are counted and close the socket after a
hundred; `SOX_PARENT` agents; several `PORT`s per end (one LISTEN agent stands for them). The comm
connection is a FIFO queue without a limit while it is up: it is a TCP stream in blocking mode. That two
blocked writers can wait for each other is listed as a hazard without a property. `RelayOOB` is never set by the code, hence
packets themselves never travel as urgent data.

*Cache:* the caches of FTP, NNTP and Gopher, which use the same locks otherwise; Range responses; when a document
expires; the index and the removal of old files (`expire.cpp`). A failing rename: the file then goes to `#DONE` and is taken up by a later request (`http.cpp:10659-10676`, `10726-10733`).
The option `CACHE_SHORT`, which keeps truncated responses. Responses without a Content-Length: `respSutisfied` (`4015-4029`) takes their end of file for their end, so that one that
breaks off is complete for the code; in the models a break is one that is noticed. A write to the cache file that takes a part of a piece only: `DiskFull` takes none of it.

*Processes:* the children of other kinds than servers and connection caches, which `dec_nproc` tells apart by their pids (Sox, private MASTER, Teleport, sudo, cron), and the CCSV of `-Ecc`, which it does not (section 4); a fixed number of servers (`FixedNumServers`), threads instead of processes (`lSINGLEP`), VSAP, inetd, Windows, and
`killChildren` at the end of the server.

*Everything else:* the map covers a small share of the 260,000 lines. Protocol gateways, MOUNT, MIME, HTML and character sets,
configuration, access lists, file and string libraries transform data within one process, step after step, and share nothing. A
transition system would add only their text. The components with a state machine of their own
that are still missing are in the plan.

## 7. Plan

1. *Done:* `SockMuxFlow` and `SockMuxTable` with their theorems; `Pipe` and the proof that `SockMuxFlow` implements it;
   `SockMuxSession`; `HttpCache` and `Distribution`; `Children`.
2. *Done:* the safety properties of `HttpCache`, `Children`, `Distribution` and `SockMuxSession`, each with its theorem;
   `Addressed` and `TunnelIntact` for TCP, below the limit of the table; `CreditLedger` and `Limited`, which are about sums.
3. Urgent data of several connections in `SockMuxTable` (`oobpushed` surviving within a turn), and remote BIND.
4. `UdpRelay` (`udprelay.cpp`), ICP, the resolver cache and the shutter, which have small state machines of their own.

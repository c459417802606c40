---------------------------- MODULE Children ----------------------------
(***************************************************************************)
(* The processes of a DeleGate server (delegated.cpp, ccache.cpp): the     *)
(* main process accepts clients and forks a child for each of them, either *)
(* a Onetime server, which serves one client, or a Sticky server, which    *)
(* goes on accepting on the same port.  Main and Stickies exclude each     *)
(* other with a lock on the port file: a Sticky polls under a shared lock, *)
(* main accepts under an exclusive one.  Main counts its children          *)
(* (NUM_CHILDREN), remembers its Stickies (StickyProcs) and those children *)
(* that have become connection caches (CC_Procs, which do not count        *)
(* against MAX_DELEGATE), and restarts itself with exec on SIGHUP or when  *)
(* the Stickies are frozen.                                                *)
(***************************************************************************)
EXTENDS Naturals, Sequences, FiniteSets, FiniteSetsExt

CONSTANTS
  Pid,           \* process ids the system gives to children, reused
  MAX_DELEGATE,  \* MAXIMA=delegated
  StickyMAX_PARA,\* most Stickies at a time
  Backlog,       \* bound: clients waiting in the listen queue of the port
  ReportSize,    \* messages that fit in the socket pair CC_Report
  MaxFrozen,     \* bound: how many Stickies freeze in one behaviour
  MaxHups,       \* bound: how many times the administrator restarts the server
  MaxLost        \* bound: how many connection caches end without a word

ASSUME LimitAssumption ==
  /\ IsFiniteSet(Pid)
  /\ MAX_DELEGATE \in Nat \ {0}
  /\ StickyMAX_PARA \in Nat /\ Backlog \in Nat /\ ReportSize \in Nat
  /\ MaxFrozen \in Nat /\ MaxHups \in Nat /\ MaxLost \in Nat
\* A server all of whose children may freeze never leaves cleanup_zombis:
\* breakStickies is called only from AcceptByMain.  Only Accepted needs this.
ASSUME FreezeAssumption == MaxFrozen < MAX_DELEGATE

VARIABLES
  proc,          \* the children, as the system sees them
  NUM_CHILDREN,
  StickyProcs,   \* the pids in StickyProcs
  CC_Procs,      \* how many entries of CC_Procs hold each pid
  CC_Report,     \* what the children have written to CC_Report and main has not read
  pc, ret,       \* where main is; where cleanup_zombis returns to
  xlock,         \* main holds the exclusive lock on the port file
  quiet,         \* SERVER_DEFREEZE seconds have gone by without a sign of a Sticky
  queue,         \* clients waiting to be accepted
  freezes,       \* how many Stickies froze so far
  hups,          \* how many times the server was told to restart
  losts          \* how many connection caches ended without a word

main == <<pc, ret, xlock>>
counts == <<NUM_CHILDREN, StickyProcs, CC_Procs>>
bounds == <<freezes, hups, losts>>
vars == <<proc, counts, CC_Report, main, quiet, queue, bounds>>

\* Where main is: in cleanup_zombis (reap to log), accepting, forking, breaking
\* Stickies or restarting.
PC == {"reap", "num", "full", "fullwait", "log",
       "accept", "locked", "accepting", "fork",
       "break1", "break2", "break3", "hup", "exec"}
\* wait: about to lock, poll: under the shared lock, dead: not yet waited for.
Stat == {"none", "serve", "wait", "poll", "frozen", "cc", "dead"}
\* sticky: a Sticky server; hup: SIGHUP is pending; det: stopStickyServer was
\* called; old: of the previous server.
Proc == [st : Stat, sticky : BOOLEAN, hup : BOOLEAN, det : BOOLEAN, old : BOOLEAN]
NoProc == [st |-> "none", sticky |-> FALSE, hup |-> FALSE, det |-> FALSE, old |-> FALSE]
NewProc(sticky) == [NoProc EXCEPT !.st = "serve", !.sticky = sticky]

Is(S) == {p \in Pid : proc[p].st \in S}
\* Who holds a shared lock on the port file of this server: the file is
\* removed and made anew by a restart.
Holders == {p \in Is({"poll", "frozen"}) : ~proc[p].old}

Init ==
  /\ proc = [p \in Pid |-> NoProc]
  /\ NUM_CHILDREN = 0 /\ StickyProcs = {} /\ CC_Procs = [p \in Pid |-> 0]
  /\ CC_Report = <<>>
  /\ pc = "reap" /\ ret = "accept" /\ xlock = FALSE
  /\ quiet = FALSE /\ queue = 0 /\ freezes = 0 /\ hups = 0 /\ losts = 0

-----------------------------------------------------------------------------
(* What main knows of its children *)

CC_Active(cc) == MapThenSumSet(LAMBDA p : cc[p], Pid)

add_CC(cc, p) == [cc EXCEPT ![p] = @ + 1]
\* mutant: an entry is taken off whether there is one or not.
del_CCAlways(cc, p) == [cc EXCEPT ![p] = @ - 1]
\* del_CC removes one entry, if there is any.
del_CC(cc, p) == [cc EXCEPT ![p] = IF @ > 0 THEN @ - 1 ELSE 0]

\* putCCinfo on a non-blocking socket: what does not fit is lost.  A child of
\* the previous server writes to a socket that nobody reads.
Fits(p) == Len(CC_Report) < ReportSize /\ ~proc[p].old
putCCinfo(p, start) ==
  CC_Report' = IF Fits(p) THEN Append(CC_Report, [pid |-> p, start |-> start])
               ELSE CC_Report

\* mutant: StickyDel is not called.
dec_nprocKeeps(p) ==
  /\ proc' = [proc EXCEPT ![p] = NoProc]
  /\ UNCHANGED <<StickyProcs, quiet>>
  /\ CC_Procs' = del_CC(CC_Procs, p)
  /\ NUM_CHILDREN' = IF NUM_CHILDREN > 0 THEN NUM_CHILDREN - 1 ELSE 0
\* dec_nproc for the child p that wait() returned, a server or a connection
\* cache.  Children of other kinds (Sox, private MASTER, Teleport, sudo, cron,
\* CCSV), which are not counted when they start, are not in the model.
dec_nproc(p) ==
  /\ proc' = [proc EXCEPT ![p] = NoProc]
  /\ StickyProcs' = StickyProcs \ {p}
  /\ quiet' = (quiet /\ p \notin StickyProcs)
  /\ CC_Procs' = del_CC(CC_Procs, p)
  /\ NUM_CHILDREN' = IF NUM_CHILDREN > 0 THEN NUM_CHILDREN - 1 ELSE 0

Goto(l) == pc' = l /\ UNCHANGED <<ret, xlock>>
Cleanup(l) == pc' = "reap" /\ ret' = l /\ xlock' = FALSE

-----------------------------------------------------------------------------
(* cleanup_zombis *)

Reap(p) ==
  /\ pc = "reap" /\ proc[p].st = "dead"
  /\ dec_nproc(p)
  /\ UNCHANGED <<CC_Report, main, queue, bounds>>

\* mutant: off by one.
FullLate(cc) == MAX_DELEGATE + CC_Active(cc) < NUM_CHILDREN
\* There is no room for one more child.
Full(cc) == MAX_DELEGATE + CC_Active(cc) <= NUM_CHILDREN

\* num_CC reads one message after the other, in the order they were written.
ReadCC ==
  /\ pc \in {"num", "full", "log"} /\ CC_Report # <<>>
  /\ LET m == Head(CC_Report) IN
       CC_Procs' = IF m.start THEN add_CC(CC_Procs, m.pid) ELSE del_CC(CC_Procs, m.pid)
  /\ CC_Report' = Tail(CC_Report)
  /\ UNCHANGED <<proc, NUM_CHILDREN, StickyProcs, main, quiet, queue, bounds>>

\* All zombies are gone, and then all messages are read: go on if there is room.
Reaped ==
  /\ pc = "reap" /\ Is({"dead"}) = {}
  /\ Goto("num")
  /\ UNCHANGED <<proc, counts, CC_Report, quiet, queue, bounds>>
NumTest ==
  /\ pc = "num" /\ CC_Report = <<>>
  /\ Goto(IF Full(CC_Procs) THEN "full" ELSE ret)
  /\ UNCHANGED <<proc, counts, CC_Report, quiet, queue, bounds>>

\* The loop; what it logs at its end calls num_CC once more.
FullTest ==
  /\ pc = "full" /\ CC_Report = <<>>
  /\ Goto(IF Full(CC_Procs) THEN "fullwait" ELSE "log")
  /\ UNCHANGED <<proc, counts, CC_Report, quiet, queue, bounds>>
FullLog ==
  /\ pc = "log" /\ CC_Report = <<>>
  /\ Goto(ret)
  /\ UNCHANGED <<proc, counts, CC_Report, quiet, queue, bounds>>

FullWait ==
  /\ pc = "fullwait"
  /\ Goto("full")
  /\ \/ \E p \in Is({"dead"}) : dec_nproc(p)
     \/ Is({"dead"}) = {} /\ UNCHANGED <<proc, counts, quiet>>
  /\ UNCHANGED <<CC_Report, queue, bounds>>

-----------------------------------------------------------------------------
(* The main loop: AcceptByMain and the fork of a server *)

AcceptTimeout ==
  /\ pc = "accept" /\ queue = 0
  /\ Cleanup("accept")
  /\ UNCHANGED <<proc, counts, CC_Report, quiet, queue, bounds>>

\* AcceptByMain1: the port is readable; no Sticky, no lock.
AcceptAlone ==
  /\ pc = "accept" /\ queue > 0 /\ StickyProcs = {}
  /\ Goto("accepting")
  /\ UNCHANGED <<proc, counts, CC_Report, quiet, queue, bounds>>

AcceptLock ==
  /\ pc = "accept" /\ queue > 0 /\ StickyProcs # {} /\ Holders = {}
  /\ pc' = "locked" /\ xlock' = TRUE /\ UNCHANGED ret
  /\ quiet' = FALSE
  /\ UNCHANGED <<proc, counts, CC_Report, queue, bounds>>

\* mutant: frozen Stickies are waited for.
LockedOutWaits ==
  /\ pc = "accept" /\ queue > 0 /\ StickyProcs # {} /\ Holders # {}
  /\ Cleanup("accept")
  /\ UNCHANGED <<proc, counts, CC_Report, quiet, queue, bounds>>
\* locked_out: breakStickies when nothing was heard of them for long.
LockedOut ==
  /\ pc = "accept" /\ queue > 0 /\ StickyProcs # {} /\ Holders # {}
  /\ Cleanup(IF quiet THEN "break1" ELSE "accept")
  /\ UNCHANGED <<proc, counts, CC_Report, quiet, queue, bounds>>

\* Under the lock: a Sticky may have taken the client before.
AcceptYield ==
  /\ pc = "locked"
  /\ IF queue > 0 THEN Goto("accepting") ELSE Cleanup("accept")
  /\ UNCHANGED <<proc, counts, CC_Report, quiet, queue, bounds>>

\* ACCEPT1, and the unlock.
AcceptClient ==
  /\ pc = "accepting" /\ queue > 0
  /\ queue' = queue - 1
  /\ pc' = "fork" /\ xlock' = FALSE /\ UNCHANGED ret
  /\ UNCHANGED <<proc, counts, CC_Report, quiet, bounds>>

\* A port may be one that is not for Stickies (isNotStickyPort).
ForkServer(p, sticky) ==
  /\ pc = "fork" /\ proc[p].st = "none"
  /\ sticky => Cardinality(StickyProcs) < StickyMAX_PARA
  /\ proc' = [proc EXCEPT ![p] = NewProc(sticky)]
  /\ StickyProcs' = IF sticky THEN StickyProcs \cup {p} ELSE StickyProcs
  /\ NUM_CHILDREN' = NUM_CHILDREN + 1
  /\ Cleanup("accept")
  /\ UNCHANGED <<CC_Procs, CC_Report, quiet, queue, bounds>>

\* ForkY waits for children between its attempts.
ForkReap(p) ==
  /\ pc = "fork" /\ proc[p].st = "dead"
  /\ dec_nproc(p)
  /\ UNCHANGED <<CC_Report, main, queue, bounds>>

\* The client is closed without service.
ForkFails ==
  /\ pc = "fork"
  /\ Cleanup("accept")
  /\ UNCHANGED <<proc, counts, CC_Report, quiet, queue, bounds>>

-----------------------------------------------------------------------------
(* breakStickies and the restart *)

\* Those that are not known to be detached: the report of stopStickyServer may
\* have been read or not.
Targets(known) == StickyProcs \ known
Known == SUBSET {p \in StickyProcs : proc[p].det}

\* The lock is free, or somebody has been active meanwhile: all is well.
BreakWait ==
  /\ pc = "break1"
  /\ IF quiet /\ Holders # {} THEN Cleanup("break2") /\ UNCHANGED quiet
                             ELSE Cleanup("accept") /\ quiet' = FALSE
  /\ UNCHANGED <<proc, counts, CC_Report, queue, bounds>>

\* StickyKill with a signal that Stickies block while they serve.
StickyKill(T) ==
  proc' = [p \in Pid |-> IF p \in T /\ proc[p].st # "dead"
                          THEN [proc[p] EXCEPT !.hup = TRUE] ELSE proc[p]]

BreakHup(known) ==
  /\ pc = "break2" /\ known \in Known
  /\ StickyKill(Targets(known))
  /\ IF Targets(known) = {} THEN Goto("break3") ELSE Cleanup("break3")
  /\ UNCHANGED <<counts, CC_Report, quiet, queue, bounds>>

\* The signal that cannot be blocked.
Dead == [NoProc EXCEPT !.st = "dead"]

BreakKill(known) ==
  /\ pc = "break3" /\ known \in Known
  /\ IF Holders = {}
     THEN Cleanup("accept") /\ quiet' = FALSE /\ UNCHANGED proc
     ELSE /\ UNCHANGED quiet
          /\ proc' = [p \in Pid |-> IF p \in Targets(known) THEN Dead ELSE proc[p]]
          /\ IF Targets(known) = {} THEN Goto("hup") ELSE Cleanup("hup")
  /\ UNCHANGED <<counts, CC_Report, queue, bounds>>

\* SIGHUP from outside, or getSoftBreak, SERVER_RESTART ..., at the top of the loop.
Sighup ==
  /\ pc = "accept" /\ hups < MaxHups
  /\ Goto("hup")
  /\ hups' = hups + 1
  /\ UNCHANGED <<proc, counts, CC_Report, quiet, queue, freezes, losts>>

\* mutant: the Stickies are not told.
HupSilent(known) ==
  /\ pc = "hup" /\ known \in Known
  /\ Cleanup("exec")
  /\ UNCHANGED <<proc, counts, CC_Report, quiet, queue, bounds>>
\* sigHUPX: the Stickies are told to stop and the port file is removed.
\* killChildren before it is about children of other kinds; with -Ecc only,
\* its wait for the CCSV may return a counted child (README, section 4).
Hup(known) ==
  /\ pc = "hup" /\ known \in Known
  /\ StickyKill(Targets(known))
  /\ Cleanup("exec")
  /\ UNCHANGED <<counts, CC_Report, quiet, queue, bounds>>

\* mutant: HUPENV does not hand on the number of children.
ExecForgets ==
  /\ pc = "exec"
  /\ proc' = [p \in Pid |-> [proc[p] EXCEPT !.old = proc[p].st \notin {"none", "dead"}]]
  /\ StickyProcs' = {} /\ CC_Procs' = [p \in Pid |-> 0]
  /\ CC_Report' = <<>> /\ NUM_CHILDREN' = 0
  /\ quiet' = FALSE
  /\ Cleanup("accept")
  /\ UNCHANGED <<queue, bounds>>
\* Execvp: the new server inherits the listening port and, in HUPENV, the
\* number of children.
Exec ==
  /\ pc = "exec"
  /\ proc' = [p \in Pid |-> [proc[p] EXCEPT !.old = proc[p].st \notin {"none", "dead"}]]
  /\ StickyProcs' = {} /\ CC_Procs' = [p \in Pid |-> 0]
  /\ CC_Report' = <<>> /\ UNCHANGED NUM_CHILDREN
  /\ quiet' = FALSE
  /\ Cleanup("accept")
  /\ UNCHANGED <<queue, bounds>>

-----------------------------------------------------------------------------
(* The children *)

Ends(p) == proc' = [proc EXCEPT ![p] = Dead]
Turns(p, st) == proc' = [proc EXCEPT ![p].st = st]
\* setStickyActive touches the port file of the own server.
Touch(p) == quiet' = (quiet /\ proc[p].old)

\* The service is over.  A Sticky goes on unless it was signalled or detached,
\* or has served long enough.
ServeEnd(p) ==
  /\ proc[p].st = "serve"
  /\ Ends(p)
  /\ UNCHANGED <<counts, CC_Report, main, quiet, queue, bounds>>
ServeNext(p) ==
  /\ proc[p].st = "serve" /\ proc[p].sticky /\ ~proc[p].hup /\ ~proc[p].det
  /\ Turns(p, "wait") /\ Touch(p)
  /\ UNCHANGED <<counts, CC_Report, main, queue, bounds>>

\* stopStickyServer, called before a long service.
Detach(p) ==
  /\ proc[p].st = "serve" /\ proc[p].sticky /\ ~proc[p].det
  /\ proc' = [proc EXCEPT ![p].det = TRUE]
  /\ UNCHANGED <<counts, CC_Report, main, quiet, queue, bounds>>

\* AcceptBySticky1: the shared lock.
StickyLock(p) ==
  /\ proc[p].st = "wait" /\ ~proc[p].hup
  /\ xlock => proc[p].old
  /\ Turns(p, "poll")
  /\ UNCHANGED <<counts, CC_Report, main, quiet, queue, bounds>>
StickyAccept(p) ==
  /\ proc[p].st = "poll" /\ ~proc[p].hup /\ queue > 0
  /\ Turns(p, "serve") /\ Touch(p)
  /\ queue' = queue - 1
  /\ UNCHANGED <<counts, CC_Report, main, bounds>>
\* StickyTIMEOUT1 is over: unlock and try again.
StickyUnlock(p) ==
  /\ proc[p].st = "poll" /\ ~proc[p].hup
  /\ Turns(p, "wait")
  /\ UNCHANGED <<counts, CC_Report, main, quiet, queue, bounds>>
\* StickyTIMEOUT is over, or the lock cannot be had.
StickyTimeout(p) ==
  /\ proc[p].st \in {"wait", "poll"} /\ ~proc[p].hup
  /\ Ends(p)
  /\ UNCHANGED <<counts, CC_Report, main, quiet, queue, bounds>>
sigHUPforAbort(p) ==
  /\ proc[p].st \in {"wait", "poll"} /\ proc[p].hup
  /\ Ends(p)
  /\ UNCHANGED <<counts, CC_Report, main, quiet, queue, bounds>>

\* Hung in accept(): signals are not handled until it thaws.
Freeze(p) ==
  /\ proc[p].st = "poll" /\ freezes < MaxFrozen
  /\ Turns(p, "frozen")
  /\ freezes' = freezes + 1
  /\ UNCHANGED <<counts, CC_Report, main, quiet, queue, hups, losts>>
Thaw(p) ==
  /\ proc[p].st = "frozen"
  /\ Turns(p, "poll")
  /\ UNCHANGED <<counts, CC_Report, main, quiet, queue, bounds>>

\* beBoundProxy: the child keeps the connection to its server for other clients.
StartCC(p) ==
  /\ proc[p].st = "serve"
  /\ Turns(p, "cc")
  /\ putCCinfo(p, TRUE)
  /\ UNCHANGED <<counts, main, quiet, queue, bounds>>
\* sayFinishCC; if it is lost, AbortCC.
FinishCC(p) ==
  /\ proc[p].st = "cc" /\ (Fits(p) \/ proc[p].old)
  /\ Ends(p)
  /\ putCCinfo(p, FALSE)
  /\ UNCHANGED <<counts, main, quiet, queue, bounds>>

\* Killed by a signal.
Abort(p) ==
  /\ proc[p].st \in {"serve", "wait", "poll"}
  /\ Ends(p)
  /\ UNCHANGED <<counts, CC_Report, main, quiet, queue, bounds>>
\* The same, or sigTERM in ccache.cpp, which calls Finish() but not sayFinishCC(),
\* or what sayFinishCC writes does not fit.
AbortCC(p) ==
  /\ proc[p].st = "cc" /\ losts < MaxLost
  /\ Ends(p)
  /\ losts' = losts + 1
  /\ UNCHANGED <<counts, CC_Report, main, quiet, queue, freezes, hups>>

-----------------------------------------------------------------------------
(* The outside *)

Arrive ==
  /\ queue < Backlog
  /\ queue' = queue + 1
  /\ UNCHANGED <<proc, counts, CC_Report, main, quiet, bounds>>

\* A Sticky that is not frozen touches the port file every StickyTIMEOUT
\* seconds, which is less than SERVER_DEFREEZE.
Defreeze ==
  /\ ~quiet /\ queue > 0 /\ Holders # {}
  /\ \A p \in Is({"wait", "poll"}) : proc[p].old
  /\ quiet' = TRUE
  /\ UNCHANGED <<proc, counts, CC_Report, main, queue, bounds>>

Main ==
  \/ \E p \in Pid : Reap(p) \/ ForkReap(p)
  \/ ReadCC \/ Reaped \/ NumTest \/ FullTest \/ FullWait \/ FullLog
  \/ AcceptTimeout \/ AcceptAlone \/ AcceptLock \/ LockedOut
  \/ AcceptYield \/ AcceptClient
  \/ \E p \in Pid, sticky \in BOOLEAN : ForkServer(p, sticky)
  \/ ForkFails
  \/ BreakWait
  \/ \E known \in Known : BreakHup(known) \/ BreakKill(known) \/ Hup(known)
  \/ Exec

\* What a child does in time by itself.
Child(p) ==
  \/ ServeEnd(p) \/ ServeNext(p)
  \/ StickyLock(p) \/ StickyAccept(p) \/ StickyTimeout(p) \/ sigHUPforAbort(p)
  \/ FinishCC(p)

Next ==
  \/ Main
  \/ \E p \in Pid : \/ Child(p) \/ Detach(p) \/ StickyUnlock(p) \/ StartCC(p)
                    \/ Freeze(p) \/ Thaw(p) \/ Abort(p) \/ AbortCC(p)
  \/ Sighup \/ Arrive \/ Defreeze

\* Main, and every child, goes on; polling comes to its timeout although it is
\* interrupted by StickyUnlock; time passes.
Fairness ==
  /\ WF_vars(Main) /\ WF_vars(Defreeze)
  /\ \A p \in Pid : WF_vars(Child(p)) /\ SF_vars(StickyTimeout(p))
Spec == Init /\ [][Next]_vars
LiveSpec == Spec /\ Fairness

-----------------------------------------------------------------------------
(* Properties *)

\* All variables have their types: no step of main or of a child leaves the
\* counters, the lists or the socket pair out of bounds.
TypeOK ==
  /\ proc \in [Pid -> Proc]
  /\ NUM_CHILDREN \in 0..Cardinality(Pid)
  /\ StickyProcs \subseteq Pid
  /\ CC_Procs \in [Pid -> Nat]
  /\ CC_Report \in Seq([pid : Pid, start : BOOLEAN]) /\ Len(CC_Report) <= ReportSize
  /\ pc \in PC /\ ret \in {"accept", "break1", "break2", "break3", "hup", "exec"}
  /\ queue \in 0..Backlog /\ xlock \in BOOLEAN /\ quiet \in BOOLEAN
  /\ freezes \in 0..MaxFrozen /\ hups \in 0..MaxHups /\ losts \in 0..MaxLost

\* NUM_CHILDREN, by which cleanup_zombis decides whether another child may be
\* forked, is the number of children that exist: none is lost or counted twice
\* when a child ends between two waits, while fork is retried, or over a restart
\* of the server, which hands the number on in HUPENV.
Counted == NUM_CHILDREN = Cardinality(Pid \ Is({"none"}))

\* StickyKill signals only Stickies of this server: a pid leaves StickyProcs
\* before the system can give it to another process.
KillsOwn == \A p \in StickyProcs : proc[p].st = "dead" \/ (proc[p].sticky /\ ~proc[p].old)

\* After main saw a client at the port, alone or under the exclusive lock,
\* nobody takes it away: accept() finds it.  No Sticky that main does not know
\* of, as those left by a restart, accepts.
NotTaken == pc = "accepting" => queue > 0

\* When a server is forked, those that serve are at most MAX_DELEGATE: children
\* that became connection caches make room, but only as many as there are.  One
\* that ends without sayFinishCC may leave an entry in CC_Procs for good, when
\* wait() comes before num_CC has read its message, and that makes room, too;
\* nothing else does, not even the pid of it being used again.
Serving == Is({"serve", "wait", "poll", "frozen"})
Limited ==
  [][NUM_CHILDREN' > NUM_CHILDREN => Cardinality(Serving') <= MAX_DELEGATE + losts]_vars

\* A client in the queue of the port is accepted, by main or by a Sticky, also
\* when Stickies freeze while they hold the lock, and when children abort.
Accepted == queue = Backlog ~> queue < Backlog
=============================================================================

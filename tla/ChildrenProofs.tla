-------------------------- MODULE ChildrenProofs --------------------------
(***************************************************************************)
(* For any number of process ids and any limits: the variables of Children *)
(* keep their types, NUM_CHILDREN counts the children exactly, StickyKill  *)
(* hits Stickies of this server only, nobody takes a client away that main *)
(* has seen and is about to accept, and MAX_DELEGATE limits those that     *)
(* serve.                                                                  *)
(***************************************************************************)
EXTENDS Children, FiniteSetTheorems, TLAPS

Alive(p) == proc[p].st \notin {"none", "dead"}

\* What is known of each process id: an unused one has nothing left over; who
\* waits or polls is a Sticky that is not detached; main knows its Stickies,
\* and those of the previous server were told to stop or are detached.
Sound(p) ==
  /\ proc[p].st = "none" => proc[p] = NoProc
  /\ proc[p].st \in {"wait", "poll", "frozen"} => proc[p].sticky /\ ~proc[p].det
  /\ proc[p].sticky /\ Alive(p) /\ ~proc[p].old => p \in StickyProcs
  /\ proc[p].sticky /\ Alive(p) /\ proc[p].old => proc[p].hup \/ proc[p].det
  /\ proc[p].old => Alive(p)

\* The exclusive lock excludes the shared ones of this server, and main accepts
\* under it, or when there are no Stickies.
LockInv ==
  /\ pc = "locked" => xlock
  /\ xlock => Holders = {} /\ pc \in {"locked", "accepting"}
  /\ pc = "accepting" => queue > 0 /\ (xlock \/ StickyProcs = {})

\* On the way from sigHUPX to exec all Stickies are dead, signalled or detached.
Cleaning == {"reap", "num", "full", "fullwait", "log"}
ToExec == pc = "exec" \/ (pc \in Cleaning /\ ret = "exec")
Told == ToExec => \A p \in StickyProcs : proc[p].st = "dead" \/ proc[p].hup \/ proc[p].det

IInv == TypeOK /\ Counted /\ KillsOwn /\ (\A p \in Pid : Sound(p)) /\ LockInv /\ Told

\* The types of what is not about single processes.
Ret == {"accept", "break1", "break2", "break3", "hup", "exec"}
Message == [pid : Pid, start : BOOLEAN]
TypeRest ==
  /\ CC_Procs \in [Pid -> Nat]
  /\ CC_Report \in Seq(Message) /\ Len(CC_Report) <= ReportSize
  /\ pc \in PC /\ ret \in Ret
  /\ queue \in 0..Backlog /\ xlock \in BOOLEAN /\ quiet \in BOOLEAN
  /\ freezes \in 0..MaxFrozen /\ hups \in 0..MaxHups /\ losts \in 0..MaxLost
TypeProc ==
  /\ proc \in [Pid -> Proc]
  /\ NUM_CHILDREN \in 0..Cardinality(Pid)
  /\ StickyProcs \subseteq Pid

\* The type invariant is these two.
LEMMA Types == TypeOK <=> TypeRest /\ TypeProc
  BY DEF TypeOK, TypeRest, TypeProc, Ret, Message

-----------------------------------------------------------------------------
(* Processes and their number. *)

\* The records that the actions build.
LEMMA Records ==
  /\ NoProc \in Proc /\ NoProc.st = "none" /\ NoProc.sticky = FALSE /\ NoProc.old = FALSE
  /\ NoProc.det = FALSE
  /\ Dead \in Proc /\ Dead.st = "dead" /\ Dead.sticky = FALSE /\ Dead.old = FALSE
  /\ \A s \in BOOLEAN : /\ NewProc(s) \in Proc /\ NewProc(s).st = "serve"
                        /\ NewProc(s).sticky = s /\ NewProc(s).old = FALSE
<1>1. /\ NoProc \in Proc /\ NoProc.st = "none" /\ NoProc.sticky = FALSE /\ NoProc.old = FALSE
      /\ NoProc.det = FALSE
  BY DEF NoProc, Proc, Stat
<1>2. Dead \in Proc /\ Dead.st = "dead" /\ Dead.sticky = FALSE /\ Dead.old = FALSE
  BY <1>1 DEF Dead, Proc, Stat
<1>3. ASSUME NEW s \in BOOLEAN
      PROVE  /\ NewProc(s) \in Proc /\ NewProc(s).st = "serve"
             /\ NewProc(s).sticky = s /\ NewProc(s).old = FALSE
  BY <1>1, <1>3 DEF NewProc, Proc, Stat
<1>4. QED  BY <1>1, <1>2, <1>3

\* The children that exist.
Born == Pid \ Is({"none"})
\* Counted in terms of Born: NUM_CHILDREN is the number of children that exist.
LEMMA Counting == Counted <=> NUM_CHILDREN = Cardinality(Born)
  BY DEF Counted, Born

\* Their number is a number, and at most the one of all process ids.
LEMMA Finite ==
  /\ IsFiniteSet(Pid) /\ IsFiniteSet(Born)
  /\ Cardinality(Born) \in Nat /\ Cardinality(Pid) \in Nat
  /\ Cardinality(Born) <= Cardinality(Pid)
<1>1. IsFiniteSet(Pid)  BY LimitAssumption
<1>2. Born \subseteq Pid  BY DEF Born
<1>3. IsFiniteSet(Born) /\ Cardinality(Born) <= Cardinality(Pid)  BY <1>1, <1>2, FS_Subset
<1>4. QED  BY <1>1, <1>3, FS_CardinalityType

\* What the invariant says of one process.
LEMMA Mine ==
  ASSUME IInv, NEW p \in Pid
  PROVE  /\ TypeOK /\ TypeRest /\ TypeProc /\ proc[p] \in Proc /\ Sound(p)
         /\ proc[p].st \in Stat /\ proc[p].sticky \in BOOLEAN /\ proc[p].hup \in BOOLEAN
         /\ proc[p].det \in BOOLEAN /\ proc[p].old \in BOOLEAN
         /\ proc[p].st = "none" => p \notin StickyProcs
<1>1. TypeOK /\ TypeRest /\ TypeProc /\ proc[p] \in Proc /\ Sound(p)
  BY Types DEF IInv, TypeOK
<1>2. proc[p].st = "none" => p \notin StickyProcs
  BY <1>1, Records DEF IInv, KillsOwn, Sound
<1>3. QED  BY <1>1, <1>2 DEF Proc

-----------------------------------------------------------------------------
(* Steps that change no process. *)

\* Main moves, or time passes, and the lock and the way to exec are kept.
LEMMA Moves ==
  ASSUME IInv, UNCHANGED <<proc, NUM_CHILDREN, StickyProcs>>, TypeRest', LockInv',
         ToExec' => ToExec
  PROVE  IInv'
<1>1. TypeOK'  BY Types DEF IInv, TypeOK, TypeRest, TypeProc, Ret, Message
<1>2. Counted' /\ KillsOwn' /\ \A p \in Pid : Sound(p)'
  BY DEF IInv, Counted, KillsOwn, Sound, Is, Alive
<1>3. Told'  BY DEF IInv, Told
<1>4. QED  BY <1>1, <1>2, <1>3 DEF IInv

\* The same without a lock, where main does not come to accepting.
LEMMA MovesUnlocked ==
  ASSUME IInv, UNCHANGED <<proc, NUM_CHILDREN, StickyProcs>>, TypeRest',
         xlock' = FALSE, pc' \notin {"locked", "accepting"}, ToExec' => ToExec
  PROVE  IInv'
<1>1. LockInv'  BY DEF LockInv
<1>2. QED  BY <1>1, Moves


\* A call of cleanup_zombis, or a jump, is typed.
LEMMA Jumps ==
  ASSUME IInv, NEW l \in Ret, Cleanup(l)
  PROVE  pc' = "reap" /\ ret' = l /\ xlock' = FALSE /\ pc' \in PC /\ ret' \in Ret
  BY DEF Cleanup, PC

\* A jump where main has no lock.
LEMMA Gotos ==
  ASSUME IInv, NEW l, Goto(l), pc \notin {"locked", "accepting"}
  PROVE  pc' = l /\ ret' = ret /\ xlock' = FALSE /\ ret' \in Ret
  BY DEF Goto, IInv, LockInv, TypeOK, Ret

\* AcceptTimeout, LockedOut, ForkFails, BreakWait, Sighup.
LEMMA LoopStep ==
  ASSUME IInv, AcceptTimeout \/ LockedOut \/ ForkFails \/ BreakWait \/ Sighup
  PROVE  IInv'
<1>1. TypeRest  BY Types DEF IInv
<1>2. ASSUME NEW l \in {"accept", "break1", "break2"}, Cleanup(l),
             UNCHANGED <<proc, counts, CC_Report, queue, bounds>>, quiet' \in {quiet, FALSE}
      PROVE  IInv'
  <2>1. l \in Ret  BY DEF Ret
  <2>2. pc' = "reap" /\ ret' = l /\ xlock' = FALSE /\ pc' \in PC /\ ret' \in Ret
    BY <1>2, <2>1, Jumps
  <2>3. TypeRest'  BY <1>1, <1>2, <2>2 DEF TypeRest, counts, bounds
  <2>4. QED  BY <1>2, <2>2, <2>3, MovesUnlocked DEF ToExec, counts
<1>3. CASE AcceptTimeout  BY <1>2, <1>3 DEF AcceptTimeout
<1>4. CASE LockedOut  BY <1>2, <1>4 DEF LockedOut
<1>5. CASE ForkFails  BY <1>2, <1>5 DEF ForkFails
<1>6. CASE BreakWait  BY <1>2, <1>6 DEF BreakWait
<1>7. CASE Sighup
  <2>1. pc' = "hup" /\ ret' = ret /\ xlock' = FALSE /\ ret' \in Ret
    BY <1>7, Gotos DEF Sighup
  <2>2. hups' \in 0..MaxHups  BY <1>1, <1>7, LimitAssumption DEF Sighup, TypeRest
  <2>3. "hup" \in PC  BY DEF PC
  <2>4. TypeRest'  BY <1>1, <1>7, <2>1, <2>2, <2>3 DEF TypeRest, Sighup, counts
  <2>5. QED  BY <1>7, <2>1, <2>4, MovesUnlocked DEF Sighup, ToExec, counts, Cleaning
<1>8. QED  BY <1>3, <1>4, <1>5, <1>6, <1>7

\* The tests of cleanup_zombis.
LEMMA TestStep ==
  ASSUME IInv, \/ Reaped \/ NumTest \/ FullTest \/ FullLog
               \/ FullWait /\ UNCHANGED <<proc, counts, quiet>>
  PROVE  IInv'
<1>1. TypeRest  BY Types DEF IInv
<1>2. /\ pc \in Cleaning /\ UNCHANGED <<proc, counts, CC_Report, quiet, queue, bounds>>
      /\ \E l \in Cleaning \cup {ret} : Goto(l)
  BY DEF Reaped, NumTest, FullTest, FullLog, FullWait, Cleaning
<1>3. PICK l \in Cleaning \cup {ret} : Goto(l)  BY <1>2
<1>4. pc \notin {"locked", "accepting"} /\ ret \in Ret  BY <1>1, <1>2 DEF Cleaning, TypeRest
<1>5. pc' = l /\ ret' = ret /\ xlock' = FALSE /\ ret' \in Ret
  BY <1>3, <1>4, Gotos
<1>6. pc' \in PC /\ pc' \notin {"locked", "accepting"}
  BY <1>3, <1>4, <1>5 DEF Cleaning, Ret, PC
<1>7. TypeRest'  BY <1>1, <1>2, <1>5, <1>6 DEF TypeRest, counts, bounds
<1>8. ToExec' => ToExec  BY <1>2, <1>3, <1>5 DEF ToExec, Cleaning
<1>9. QED  BY <1>2, <1>5, <1>6, <1>7, <1>8, MovesUnlocked DEF counts

\* num_CC.
LEMMA ReadStep ==
  ASSUME IInv, ReadCC
  PROVE  IInv'
<1>1. TypeRest  BY Types DEF IInv
<1>2. Head(CC_Report) \in Message /\ Tail(CC_Report) \in Seq(Message)
      /\ Len(Tail(CC_Report)) <= ReportSize
  BY <1>1, LimitAssumption DEF TypeRest, ReadCC
<1>3. Head(CC_Report).pid \in Pid  BY <1>2 DEF Message
<1>4. ASSUME NEW p \in Pid
      PROVE  add_CC(CC_Procs, p) \in [Pid -> Nat] /\ del_CC(CC_Procs, p) \in [Pid -> Nat]
  BY <1>1 DEF TypeRest, add_CC, del_CC
<1>5. CC_Procs' \in [Pid -> Nat]  BY <1>3, <1>4 DEF ReadCC
<1>6. TypeRest'  BY <1>1, <1>2, <1>5 DEF TypeRest, ReadCC, main, bounds
<1>7. LockInv'  BY DEF ReadCC, main, IInv, LockInv, Holders, Is
<1>8. QED  BY <1>6, <1>7, Moves DEF ReadCC, main, ToExec

\* AcceptAlone, AcceptLock, AcceptYield, AcceptClient.
LEMMA AcceptStep ==
  ASSUME IInv, AcceptAlone \/ AcceptLock \/ AcceptYield \/ AcceptClient
  PROVE  IInv'
<1>1. TypeRest /\ LockInv  BY Types DEF IInv
<1>2. queue \in Nat  BY <1>1, LimitAssumption DEF TypeRest
<1>3. "accepting" \in PC /\ "locked" \in PC /\ "fork" \in PC /\ "reap" \in PC /\ "accept" \in Ret
  BY DEF PC, Ret
<1>4. CASE AcceptAlone
  <2>1. TypeRest'  BY <1>1, <1>3, <1>4 DEF TypeRest, AcceptAlone, Goto, counts, bounds
  <2>2. LockInv'  BY <1>1, <1>4 DEF LockInv, AcceptAlone, Goto, counts, Holders, Is
  <2>3. QED  BY <1>4, <2>1, <2>2, Moves DEF AcceptAlone, Goto, counts, ToExec, Cleaning
<1>5. CASE AcceptLock
  <2>1. TypeRest'  BY <1>1, <1>3, <1>5 DEF TypeRest, AcceptLock, counts, bounds
  <2>2. LockInv'  BY <1>1, <1>5 DEF LockInv, AcceptLock, counts, Holders, Is
  <2>3. QED  BY <1>5, <2>1, <2>2, Moves DEF AcceptLock, counts, ToExec, Cleaning
<1>6. CASE AcceptYield
  <2>1. TypeRest'
    BY <1>1, <1>3, <1>6 DEF TypeRest, AcceptYield, Goto, Cleanup, counts, bounds
  <2>2. LockInv'
    BY <1>1, <1>6 DEF LockInv, AcceptYield, Goto, Cleanup, counts, Holders, Is
  <2>3. QED  BY <1>6, <2>1, <2>2, Moves DEF AcceptYield, Goto, Cleanup, counts, ToExec, Cleaning
<1>7. CASE AcceptClient
  <2>1. queue' \in 0..Backlog  BY <1>1, <1>2, <1>7, LimitAssumption DEF TypeRest, AcceptClient
  <2>2. TypeRest'  BY <1>1, <1>3, <1>7, <2>1 DEF TypeRest, AcceptClient, counts, bounds
  <2>3. QED  BY <1>7, <2>2, MovesUnlocked DEF AcceptClient, counts, ToExec, Cleaning
<1>8. QED  BY <1>4, <1>5, <1>6, <1>7

\* Arrive, Defreeze.
LEMMA OutsideStep ==
  ASSUME IInv, Arrive \/ Defreeze
  PROVE  IInv'
<1>1. TypeRest /\ LockInv  BY Types DEF IInv
<1>2. queue \in Nat  BY <1>1, LimitAssumption DEF TypeRest
<1>3. queue' \in 0..Backlog /\ queue' >= queue
  BY <1>1, <1>2, LimitAssumption DEF TypeRest, Arrive, Defreeze
<1>4. TypeRest'
  BY <1>1, <1>3 DEF TypeRest, Arrive, Defreeze, counts, main, bounds
<1>5. LockInv'
  BY <1>1, <1>2, <1>3 DEF LockInv, Arrive, Defreeze, counts, main, Holders, Is
<1>6. QED  BY <1>4, <1>5, Moves DEF Arrive, Defreeze, counts, main, ToExec

-----------------------------------------------------------------------------
(* Steps of a child. *)

(***************************************************************************)
(* A child p goes on as r, and main does not move: r is dead, or still the *)
(* Sticky or Onetime server that it was, with no signal forgotten, and     *)
(* does not take the shared lock while main has the exclusive one.         *)
(***************************************************************************)
LEMMA ChildMoves ==
  ASSUME IInv, NEW p \in Pid, NEW r \in Proc, proc' = [proc EXCEPT ![p] = r],
         UNCHANGED <<NUM_CHILDREN, StickyProcs, pc, ret, xlock>>, TypeRest',
         proc[p].st # "none", r.st # "none",
         \/ r = Dead
         \/ /\ proc[p].st # "dead" /\ r.st # "dead"
            /\ r.sticky = proc[p].sticky /\ r.old = proc[p].old
            /\ proc[p].hup => r.hup
            /\ proc[p].det => r.det
            /\ r.st \in {"wait", "poll", "frozen"} => r.sticky /\ ~r.det
            /\ r.st \in {"poll", "frozen"} => r.old \/ ~xlock \/ p \in Holders,
         pc = "accepting" => queue' > 0
  PROVE  IInv'
<1>1. /\ TypeProc /\ LockInv /\ Told /\ KillsOwn /\ Counted /\ proc[p] \in Proc /\ Sound(p)
      /\ proc \in [Pid -> Proc]
  BY Mine DEF IInv, TypeOK
<1>2. proc'[p] = r /\ \A q \in Pid \ {p} : proc'[q] = proc[q]  BY <1>1
<1>3. proc' \in [Pid -> Proc]  BY <1>1
<1>4. TypeOK'  BY <1>1, <1>3, Types DEF TypeOK, TypeRest, TypeProc, Ret, Message
<1>5. Is({"none"})' = Is({"none"})  BY <1>2 DEF Is
<1>6. Counted'  BY <1>1, <1>5 DEF Counted
<1>7. KillsOwn'
  <2>1. ASSUME NEW q \in StickyProcs
        PROVE  proc'[q].st = "dead" \/ (proc'[q].sticky /\ ~proc'[q].old)
    <3>1. proc[q].st = "dead" \/ (proc[q].sticky /\ ~proc[q].old)  BY <1>1 DEF KillsOwn
    <3>2. CASE q = p  BY <1>2, <3>1, <3>2, Records
    <3>3. CASE q # p  BY <1>1, <1>2, <3>1, <3>3 DEF TypeProc
    <3>4. QED  BY <3>2, <3>3
  <2>2. QED  BY <2>1 DEF KillsOwn
<1>8. ASSUME NEW q \in Pid PROVE Sound(q)'
  <2>1. Sound(q)  BY DEF IInv
  <2>2. CASE q = p  BY <1>1, <1>2, <2>2, Records DEF Sound, Alive
  <2>3. CASE q # p  BY <1>2, <2>1, <2>3 DEF Sound, Alive
  <2>4. QED  BY <2>2, <2>3
<1>9. xlock => Holders' \subseteq Holders
  <2>1. ASSUME xlock, NEW q \in Holders' PROVE q \in Holders
    <3>1. q \in Pid /\ proc'[q].st \in {"poll", "frozen"} /\ ~proc'[q].old
      BY <2>1 DEF Holders, Is
    <3>2. CASE q = p  BY <1>2, <2>1, <3>1, <3>2, Records
    <3>3. CASE q # p  BY <1>2, <3>1, <3>3 DEF Holders, Is
    <3>4. QED  BY <3>2, <3>3
  <2>2. QED  BY <2>1
<1>10. LockInv'  BY <1>1, <1>9 DEF LockInv
<1>11. Told'
  <2>1. ASSUME ToExec, NEW q \in StickyProcs
        PROVE  proc'[q].st = "dead" \/ proc'[q].hup \/ proc'[q].det
    <3>1. proc[q].st = "dead" \/ proc[q].hup \/ proc[q].det  BY <1>1, <2>1 DEF Told
    <3>2. CASE q = p  BY <1>2, <3>1, <3>2, Records
    <3>3. CASE q # p  BY <1>1, <1>2, <3>1, <3>3 DEF TypeProc
    <3>4. QED  BY <3>2, <3>3
  <2>2. ToExec' => ToExec  BY DEF ToExec
  <2>3. QED  BY <2>1, <2>2 DEF Told
<1>12. QED  BY <1>4, <1>6, <1>7, <1>8, <1>10, <1>11 DEF IInv

\* A child that turns to another state keeps all else.
LEMMA Turned ==
  ASSUME IInv, NEW p \in Pid, NEW x \in Stat
  PROVE  LET r == [proc[p] EXCEPT !.st = x] IN
         /\ r \in Proc /\ r.st = x /\ r.sticky = proc[p].sticky /\ r.old = proc[p].old
         /\ r.hup = proc[p].hup /\ r.det = proc[p].det
         /\ Turns(p, x) => proc' = [proc EXCEPT ![p] = r]
<1>1. proc[p] \in Proc /\ proc \in [Pid -> Proc]  BY Mine DEF TypeProc
<1>2. Turns(p, x) => proc' = [proc EXCEPT ![p] = [proc[p] EXCEPT !.st = x]]
  BY DEF Turns
<1>3. QED  BY <1>1, <1>2 DEF Proc

\* ServeEnd, StickyTimeout, sigHUPforAbort, FinishCC, Abort, AbortCC.
LEMMA EndStep ==
  ASSUME IInv, NEW p \in Pid,
         \/ ServeEnd(p) \/ StickyTimeout(p) \/ sigHUPforAbort(p)
         \/ FinishCC(p) \/ Abort(p) \/ AbortCC(p)
  PROVE  IInv'
<1>1. TypeRest /\ LockInv  BY Types DEF IInv
<1>2. /\ proc' = [proc EXCEPT ![p] = Dead] /\ proc[p].st # "none"
      /\ UNCHANGED <<counts, main, quiet, queue, freezes, hups>>
  BY DEF ServeEnd, StickyTimeout, sigHUPforAbort, FinishCC, Abort, AbortCC, Ends, bounds
<1>3. Dead \in Proc /\ Dead.st # "none"  BY Records
<1>4. losts' \in 0..MaxLost
  <2>1. losts' = losts \/ (losts < MaxLost /\ losts' = losts + 1)
    BY DEF ServeEnd, StickyTimeout, sigHUPforAbort, FinishCC, Abort, AbortCC, bounds
  <2>2. QED  BY <1>1, <2>1, LimitAssumption DEF TypeRest
<1>5. CC_Report' \in Seq(Message) /\ Len(CC_Report') <= ReportSize
  <2>1. CASE FinishCC(p)
    <3>1. [pid |-> p, start |-> FALSE] \in Message  BY DEF Message
    <3>2. QED  BY <1>1, <2>1, <3>1, LimitAssumption DEF FinishCC, putCCinfo, Fits, TypeRest
  <2>2. CASE ~FinishCC(p)
    BY <1>1, <2>2 DEF TypeRest, ServeEnd, StickyTimeout, sigHUPforAbort, Abort, AbortCC
  <2>3. QED  BY <2>1, <2>2
<1>6. TypeRest'  BY <1>1, <1>2, <1>4, <1>5 DEF TypeRest, counts, main
<1>7. pc = "accepting" => queue' > 0  BY <1>1, <1>2 DEF LockInv
<1>8. UNCHANGED <<NUM_CHILDREN, StickyProcs, pc, ret, xlock>>  BY <1>2 DEF counts, main
<1>9. QED  BY <1>2, <1>3, <1>6, <1>7, <1>8, ChildMoves

\* A Sticky that goes on waiting was not told to stop, so it is one of this server.
LEMMA Own ==
  ASSUME IInv, NEW p \in Pid, proc[p].st \in {"wait", "poll"}, ~proc[p].hup
  PROVE  ~proc[p].old /\ p \in StickyProcs
  BY Mine DEF Sound, Alive

\* ServeNext, StickyLock, StickyAccept, StickyUnlock, Freeze, Thaw, StartCC.
LEMMA TurnStep ==
  ASSUME IInv, NEW p \in Pid,
         \/ ServeNext(p) \/ StickyLock(p) \/ StickyAccept(p) \/ StickyUnlock(p)
         \/ Freeze(p) \/ Thaw(p) \/ StartCC(p)
  PROVE  IInv'
<1>1. /\ TypeRest /\ LockInv /\ Sound(p) /\ proc[p].old \in BOOLEAN
  BY Mine DEF IInv
<1>2. PICK x \in {"wait", "poll", "serve", "frozen", "cc"} :
        /\ Turns(p, x)
        /\ x \in {"wait", "poll", "frozen"} => proc[p].sticky /\ ~proc[p].det
        /\ x \in {"poll", "frozen"} => proc[p].old \/ ~xlock \/ p \in Holders
  <2>1. CASE ServeNext(p)  BY <2>1 DEF ServeNext
  <2>2. CASE StickyLock(p)  BY <1>1, <2>2 DEF StickyLock, Sound
  <2>3. CASE StickyAccept(p)  BY <2>3 DEF StickyAccept
  <2>4. CASE StickyUnlock(p)  BY <1>1, <2>4 DEF StickyUnlock, Sound
  <2>5. CASE Freeze(p)  BY <1>1, <2>5 DEF Freeze, Sound, Holders, Is
  <2>6. CASE Thaw(p)  BY <1>1, <2>6 DEF Thaw, Sound, Holders, Is
  <2>7. CASE StartCC(p)  BY <2>7 DEF StartCC
  <2>8. QED  BY <2>1, <2>2, <2>3, <2>4, <2>5, <2>6, <2>7
<1>3. x \in Stat /\ x # "none" /\ x # "dead"  BY DEF Stat
<1>4. /\ proc[p].st \notin {"none", "dead"}
      /\ UNCHANGED <<counts, main, hups, losts>>
  BY DEF ServeNext, StickyLock, StickyAccept, StickyUnlock, Freeze, Thaw, StartCC, bounds
<1>5. queue' \in 0..Backlog /\ (pc = "accepting" => queue' > 0)
  <2>1. CASE StickyAccept(p)
    <3>1. p \in StickyProcs /\ p \in Holders  BY <2>1, Own DEF StickyAccept, Holders, Is
    <3>2. pc # "accepting"  BY <1>1, <3>1 DEF LockInv
    <3>3. QED  BY <1>1, <2>1, <3>2, LimitAssumption DEF StickyAccept, TypeRest
  <2>2. CASE ~StickyAccept(p)
    BY <1>1, <2>2
       DEF LockInv, TypeRest, ServeNext, StickyLock, StickyUnlock, Freeze, Thaw, StartCC
  <2>3. QED  BY <2>1, <2>2
<1>6. freezes' \in 0..MaxFrozen
  <2>1. freezes' = freezes \/ (freezes < MaxFrozen /\ freezes' = freezes + 1)
    BY DEF ServeNext, StickyLock, StickyAccept, StickyUnlock, Freeze, Thaw, StartCC, bounds
  <2>2. QED  BY <1>1, <2>1, LimitAssumption DEF TypeRest
<1>7. quiet' \in BOOLEAN
  BY <1>1
     DEF TypeRest, ServeNext, StickyLock, StickyAccept, StickyUnlock, Freeze, Thaw, StartCC, Touch
<1>8. CC_Report' \in Seq(Message) /\ Len(CC_Report') <= ReportSize
  <2>1. CASE StartCC(p)
    <3>1. [pid |-> p, start |-> TRUE] \in Message  BY DEF Message
    <3>2. QED  BY <1>1, <2>1, <3>1, LimitAssumption DEF StartCC, putCCinfo, Fits, TypeRest
  <2>2. CASE ~StartCC(p)
    BY <1>1, <2>2
       DEF TypeRest, ServeNext, StickyLock, StickyAccept, StickyUnlock, Freeze, Thaw
  <2>3. QED  BY <2>1, <2>2
<1>9. TypeRest'  BY <1>1, <1>4, <1>5, <1>6, <1>7, <1>8 DEF TypeRest, counts, main
<1>10. UNCHANGED <<NUM_CHILDREN, StickyProcs, pc, ret, xlock>>  BY <1>4 DEF counts, main
<1> DEFINE r == [proc[p] EXCEPT !.st = x]
<1>11. /\ r \in Proc /\ r.st = x /\ r.sticky = proc[p].sticky /\ r.old = proc[p].old
       /\ r.hup = proc[p].hup /\ r.det = proc[p].det /\ proc' = [proc EXCEPT ![p] = r]
  BY <1>2, <1>3, Turned
<1> HIDE DEF r
<1>12. QED  BY <1>2, <1>3, <1>4, <1>5, <1>9, <1>10, <1>11, ChildMoves

\* stopStickyServer.
LEMMA DetachStep ==
  ASSUME IInv, NEW p \in Pid, Detach(p)
  PROVE  IInv'
<1> DEFINE r == [proc[p] EXCEPT !.det = TRUE]
<1>1. TypeRest /\ LockInv /\ proc[p] \in Proc /\ proc[p].st = "serve"  BY Mine DEF IInv, Detach
<1>2. /\ r \in Proc /\ r.st = "serve" /\ r.sticky = proc[p].sticky /\ r.old = proc[p].old
      /\ r.hup = proc[p].hup /\ r.det = TRUE
  BY <1>1 DEF Proc
<1>3. proc' = [proc EXCEPT ![p] = r]  BY DEF Detach
<1> HIDE DEF r
<1>4. TypeRest'  BY <1>1 DEF TypeRest, Detach, counts, main, bounds
<1>5. /\ UNCHANGED <<NUM_CHILDREN, StickyProcs, pc, ret, xlock>>
      /\ pc = "accepting" => queue' > 0
  BY <1>1 DEF Detach, counts, main, LockInv
<1>6. QED  BY <1>1, <1>2, <1>3, <1>4, <1>5, ChildMoves

-----------------------------------------------------------------------------
(* Steps of main that change processes. *)

\* A pid is given back by wait(): dec_nproc.
LEMMA Waited ==
  ASSUME IInv, NEW p \in Pid, proc[p].st = "dead", dec_nproc(p)
  PROVE  /\ TypeProc' /\ Counted' /\ KillsOwn' /\ (\A q \in Pid : Sound(q)')
         /\ Holders' = Holders /\ StickyProcs' \subseteq StickyProcs
         /\ quiet' \in BOOLEAN /\ CC_Procs' \in [Pid -> Nat]
         /\ \A q \in StickyProcs' : proc'[q] = proc[q]
<1>1. /\ TypeProc /\ KillsOwn /\ proc \in [Pid -> Proc] /\ TypeRest
      /\ NUM_CHILDREN = Cardinality(Born)
  BY Mine, Counting DEF IInv, TypeProc
<1>2. /\ proc' = [proc EXCEPT ![p] = NoProc] /\ StickyProcs' = StickyProcs \ {p}
      /\ quiet' = (quiet /\ p \notin StickyProcs) /\ CC_Procs' = del_CC(CC_Procs, p)
      /\ NUM_CHILDREN' = IF NUM_CHILDREN > 0 THEN NUM_CHILDREN - 1 ELSE 0
  BY DEF dec_nproc
<1>3. /\ proc'[p] = NoProc /\ (\A q \in Pid \ {p} : proc'[q] = proc[q])
      /\ proc' \in [Pid -> Proc]
  BY <1>1, <1>2, Records
<1>4. Born' = Born \ {p} /\ p \in Born
  BY <1>3, Records DEF Born, Is
<1>5. Cardinality(Born') = Cardinality(Born) - 1
  BY <1>4, Finite, FS_RemoveElement
<1>6. Cardinality(Born) > 0
  <2>1. Cardinality(Born) # 0  BY <1>4, Finite, FS_EmptySet
  <2>2. QED  BY <2>1, Finite
<1>7. NUM_CHILDREN' = Cardinality(Born')  BY <1>1, <1>2, <1>5, <1>6, Finite
<1>8. NUM_CHILDREN' \in 0..Cardinality(Pid)
  BY <1>1, <1>5, <1>6, <1>7, Finite
<1>9. TypeProc'  BY <1>1, <1>2, <1>3, <1>8 DEF TypeProc
<1>10. Counted'  BY <1>7 DEF Counted, Born
<1>11. \A q \in StickyProcs' : q \in StickyProcs /\ q \in Pid \ {p} /\ proc'[q] = proc[q]
  BY <1>1, <1>2, <1>3 DEF TypeProc
<1>12. KillsOwn'  BY <1>1, <1>11 DEF KillsOwn
<1>13. ASSUME NEW q \in Pid PROVE Sound(q)'
  <2>1. Sound(q)  BY DEF IInv
  <2>2. CASE q = p  BY <1>3, <2>2, Records DEF Sound, Alive
  <2>3. CASE q # p
    <3>1. proc'[q] = proc[q] /\ (q \in StickyProcs => q \in StickyProcs')  BY <1>2, <1>3, <2>3
    <3>2. QED  BY <2>1, <3>1 DEF Sound, Alive
  <2>4. QED  BY <2>2, <2>3
<1>14. Holders' = Holders  BY <1>3, Records DEF Holders, Is
<1>15. quiet' \in BOOLEAN /\ CC_Procs' \in [Pid -> Nat]
  BY <1>1, <1>2 DEF TypeRest, del_CC
<1>16. QED  BY <1>2, <1>9, <1>10, <1>11, <1>12, <1>13, <1>14, <1>15

\* Reap, ForkReap, and FullWait when a child has ended.
LEMMA WaitStep ==
  ASSUME IInv, NEW p \in Pid, proc[p].st = "dead", dec_nproc(p),
         \/ pc \in {"reap", "fork"} /\ UNCHANGED main
         \/ pc = "fullwait" /\ Goto("full"),
         UNCHANGED <<CC_Report, queue, bounds>>
  PROVE  IInv'
<1>1. TypeRest /\ LockInv /\ Told  BY Types DEF IInv
<1>2. /\ TypeProc' /\ Counted' /\ KillsOwn' /\ (\A q \in Pid : Sound(q)')
      /\ Holders' = Holders /\ StickyProcs' \subseteq StickyProcs
      /\ quiet' \in BOOLEAN /\ CC_Procs' \in [Pid -> Nat]
      /\ \A q \in StickyProcs' : proc'[q] = proc[q]
  BY Waited
<1>3. /\ pc' \in {"reap", "fork", "full"} /\ ret' = ret /\ xlock' = xlock
      /\ xlock = FALSE /\ (ToExec' => ToExec)
  BY <1>1 DEF main, Goto, LockInv, TypeRest, ToExec, Cleaning
<1>4. TypeRest'  BY <1>1, <1>2, <1>3 DEF TypeRest, bounds, PC
<1>5. TypeOK'  BY <1>2, <1>4, Types DEF TypeOK, TypeRest, TypeProc, Ret, Message
<1>6. LockInv'  BY <1>3 DEF LockInv
<1>7. Told'  BY <1>1, <1>2, <1>3 DEF Told
<1>8. QED  BY <1>2, <1>5, <1>6, <1>7 DEF IInv

\* A server is forked.
LEMMA ForkStep ==
  ASSUME IInv, NEW p \in Pid, NEW sticky \in BOOLEAN, ForkServer(p, sticky)
  PROVE  IInv'
<1>1. /\ TypeRest /\ TypeProc /\ KillsOwn /\ LockInv /\ proc \in [Pid -> Proc]
      /\ p \notin StickyProcs /\ NUM_CHILDREN = Cardinality(Born)
  BY Mine, Counting DEF IInv, TypeProc, ForkServer
<1>2. /\ proc' = [proc EXCEPT ![p] = NewProc(sticky)] /\ proc[p].st = "none"
      /\ StickyProcs' = IF sticky THEN StickyProcs \cup {p} ELSE StickyProcs
      /\ NUM_CHILDREN' = NUM_CHILDREN + 1 /\ Cleanup("accept")
      /\ UNCHANGED <<CC_Procs, CC_Report, quiet, queue, bounds>>
  BY DEF ForkServer
<1>3. /\ NewProc(sticky) \in Proc /\ NewProc(sticky).st = "serve"
      /\ NewProc(sticky).sticky = sticky /\ NewProc(sticky).old = FALSE
  BY Records
<1>4. /\ proc'[p] = NewProc(sticky) /\ (\A q \in Pid \ {p} : proc'[q] = proc[q])
      /\ proc' \in [Pid -> Proc]
  BY <1>1, <1>2, <1>3
<1>5. Born' = Born \cup {p} /\ p \notin Born
  BY <1>2, <1>3, <1>4 DEF Born, Is
<1>6. Cardinality(Born') = Cardinality(Born) + 1
  BY <1>5, Finite, FS_AddElement
<1>7. IsFiniteSet(Born') /\ Cardinality(Born') <= Cardinality(Pid)
  <2>1. Born' \subseteq Pid  BY DEF Born
  <2>2. QED  BY <2>1, Finite, FS_Subset
<1>8. NUM_CHILDREN' = Cardinality(Born') /\ NUM_CHILDREN' \in 0..Cardinality(Pid)
  BY <1>1, <1>2, <1>6, <1>7, Finite
<1>9. pc' = "reap" /\ ret' = "accept" /\ xlock' = FALSE /\ pc' \in PC /\ ret' \in Ret
  BY <1>2, Jumps DEF Ret
<1>10. TypeRest'  BY <1>1, <1>2, <1>9 DEF TypeRest, bounds
<1>11. TypeProc'  BY <1>1, <1>2, <1>4, <1>8 DEF TypeProc
<1>12. TypeOK'  BY <1>10, <1>11, Types DEF TypeOK, TypeRest, TypeProc, Ret, Message
<1>13. Counted'  BY <1>8 DEF Counted, Born
<1>14. KillsOwn'
  <2>1. ASSUME NEW q \in StickyProcs'
        PROVE  proc'[q].st = "dead" \/ (proc'[q].sticky /\ ~proc'[q].old)
    <3>1. CASE q = p  BY <1>1, <1>2, <1>3, <1>4, <2>1, <3>1
    <3>2. CASE q # p
      <4>1. q \in StickyProcs /\ proc'[q] = proc[q]
        BY <1>1, <1>2, <1>4, <2>1, <3>2 DEF TypeProc
      <4>2. QED  BY <1>1, <4>1 DEF KillsOwn
    <3>3. QED  BY <3>1, <3>2
  <2>2. QED  BY <2>1 DEF KillsOwn
<1>15. ASSUME NEW q \in Pid PROVE Sound(q)'
  <2>1. Sound(q)  BY DEF IInv
  <2>2. CASE q = p  BY <1>2, <1>3, <1>4, <2>2 DEF Sound, Alive
  <2>3. CASE q # p
    <3>1. proc'[q] = proc[q] /\ (q \in StickyProcs => q \in StickyProcs')  BY <1>2, <1>4, <2>3
    <3>2. QED  BY <2>1, <3>1 DEF Sound, Alive
  <2>4. QED  BY <2>2, <2>3
<1>16. LockInv' /\ Told'  BY <1>9 DEF LockInv, Told, ToExec
<1>17. QED  BY <1>12, <1>13, <1>14, <1>15, <1>16 DEF IInv

\* StickyKill marks Stickies that are alive, and no other process.
LEMMA Killed ==
  ASSUME IInv, NEW T \in SUBSET StickyProcs, StickyKill(T)
  PROVE  /\ proc' \in [Pid -> Proc]
         /\ \A q \in Pid : /\ proc'[q].st = proc[q].st /\ proc'[q].sticky = proc[q].sticky
                           /\ proc'[q].old = proc[q].old /\ proc'[q].det = proc[q].det
                           /\ proc[q].hup => proc'[q].hup
                           /\ q \in T /\ proc[q].st # "dead" => proc'[q].hup
                           /\ q \notin StickyProcs => proc'[q] = proc[q]
<1>1. \A q \in Pid : LET t == [proc[q] EXCEPT !.hup = TRUE] IN
        /\ proc[q] \in Proc /\ t \in Proc /\ t.st = proc[q].st /\ t.sticky = proc[q].sticky
        /\ t.old = proc[q].old /\ t.det = proc[q].det /\ t.hup = TRUE
  <2>1. \A q \in Pid : proc[q] \in Proc  BY DEF IInv, TypeOK
  <2>2. QED  BY <2>1 DEF Proc
<1>2. QED  BY <1>1 DEF StickyKill

\* BreakHup and Hup.
LEMMA SignalStep ==
  ASSUME IInv, NEW known \in Known, BreakHup(known) \/ Hup(known)
  PROVE  IInv'
<1> DEFINE T == Targets(known)
<1>1. TypeRest /\ TypeProc /\ LockInv /\ KillsOwn /\ Counted /\ StickyProcs \subseteq Pid
  BY Types DEF IInv, TypeProc
<1>2. T \in SUBSET StickyProcs /\ \A q \in StickyProcs : q \in T \/ proc[q].det
  BY DEF Targets, Known
<1>3. StickyKill(T) /\ UNCHANGED <<counts, CC_Report, quiet, queue, bounds>>
  BY DEF BreakHup, Hup
<1> HIDE DEF T
<1>4. /\ proc' \in [Pid -> Proc]
      /\ \A q \in Pid : /\ proc'[q].st = proc[q].st /\ proc'[q].sticky = proc[q].sticky
                        /\ proc'[q].old = proc[q].old /\ proc'[q].det = proc[q].det
                        /\ proc[q].hup => proc'[q].hup
                        /\ q \in T /\ proc[q].st # "dead" => proc'[q].hup
                        /\ q \notin StickyProcs => proc'[q] = proc[q]
  BY <1>2, <1>3, Killed
<1>5. /\ pc \in {"break2", "hup"} /\ xlock' = FALSE /\ pc' \in {"reap", "break3"} /\ pc' \in PC
      /\ ret' \in Ret
  <2>1. pc \in {"break2", "hup"} /\ xlock = FALSE
    BY <1>1 DEF BreakHup, Hup, LockInv, TypeRest
  <2>2. QED  BY <1>1, <2>1 DEF BreakHup, Hup, Goto, Cleanup, TypeRest, PC, Ret
<1>6. TypeRest'  BY <1>1, <1>3, <1>5 DEF TypeRest, counts, bounds
<1>7. TypeProc'  BY <1>1, <1>3, <1>4 DEF TypeProc, counts
<1>8. TypeOK'  BY <1>6, <1>7, Types DEF TypeOK, TypeRest, TypeProc, Ret, Message
<1>9. Is({"none"})' = Is({"none"})  BY <1>4 DEF Is
<1>10. Counted'  BY <1>1, <1>3, <1>9 DEF Counted, counts
<1>11. KillsOwn'  BY <1>1, <1>3, <1>4 DEF KillsOwn, counts
<1>12. ASSUME NEW q \in Pid PROVE Sound(q)'
  <2>1. Sound(q) /\ (proc[q].st = "none" => q \notin StickyProcs)  BY Mine
  <2>2. StickyProcs' = StickyProcs  BY <1>3 DEF counts
  <2>3. QED  BY <1>4, <2>1, <2>2 DEF Sound, Alive
<1>13. LockInv'  BY <1>5 DEF LockInv
<1>14. Told'  BY <1>1, <1>2, <1>3, <1>4 DEF Told, counts
<1>15. QED  BY <1>8, <1>10, <1>11, <1>12, <1>13, <1>14 DEF IInv

\* BreakKill.
LEMMA KillStep ==
  ASSUME IInv, NEW known \in Known, BreakKill(known)
  PROVE  IInv'
<1> DEFINE T == Targets(known)
<1>1. TypeRest /\ TypeProc /\ LockInv /\ KillsOwn /\ Counted /\ proc \in [Pid -> Proc]
  BY Types DEF IInv, TypeProc
<1>2. /\ pc = "break3" /\ UNCHANGED <<counts, CC_Report, queue, bounds>>
      /\ quiet' \in {quiet, FALSE}
  BY DEF BreakKill
<1>3. xlock' = FALSE /\ pc' \in {"reap", "hup"} /\ pc' \in PC /\ ret' \in Ret /\ ~ToExec'
  <2>1. xlock = FALSE  BY <1>1, <1>2 DEF LockInv, TypeRest
  <2>2. QED  BY <1>1, <2>1 DEF BreakKill, Goto, Cleanup, TypeRest, PC, Ret, ToExec, Cleaning
<1>4. TypeRest'  BY <1>1, <1>2, <1>3 DEF TypeRest, counts, bounds
<1>5. CASE proc' = proc
  BY <1>2, <1>3, <1>4, <1>5, MovesUnlocked DEF counts
<1>6. CASE proc' = [q \in Pid |-> IF q \in T THEN Dead ELSE proc[q]]
  <2>1. T \subseteq StickyProcs  BY DEF Targets
  <2> HIDE DEF T
  <2>2. \A q \in Pid : proc'[q] = proc[q] \/ (proc'[q] = Dead /\ q \in StickyProcs)
    BY <1>6, <2>1
  <2>3. proc' \in [Pid -> Proc]  BY <1>1, <1>6, Records
  <2>4. TypeProc' /\ StickyProcs' = StickyProcs  BY <1>1, <1>2, <2>3 DEF TypeProc, counts
  <2>5. TypeOK'  BY <1>4, <2>4, Types DEF TypeOK, TypeRest, TypeProc, Ret, Message
  <2>6. Is({"none"})' = Is({"none"})
    <3>1. \A q \in Pid : proc'[q].st = "none" <=> proc[q].st = "none"
      BY <2>2, Mine, Records
    <3>2. QED  BY <3>1 DEF Is
  <2>7. Counted'  BY <1>1, <1>2, <2>6 DEF Counted, counts
  <2>8. KillsOwn'  BY <1>1, <2>2, <2>4, Records DEF KillsOwn, TypeProc
  <2>9. ASSUME NEW q \in Pid PROVE Sound(q)'
    <3>1. Sound(q)  BY DEF IInv
    <3>2. QED  BY <2>2, <2>4, <3>1, Records DEF Sound, Alive
  <2>10. LockInv' /\ Told'  BY <1>3 DEF LockInv, Told
  <2>11. QED  BY <2>5, <2>7, <2>8, <2>9, <2>10 DEF IInv
<1>7. QED  BY <1>5, <1>6 DEF BreakKill

\* The restart: the Stickies of the server that was have all been told to stop.
LEMMA ExecStep ==
  ASSUME IInv, Exec
  PROVE  IInv'
<1>1. /\ TypeRest /\ TypeProc /\ LockInv /\ Told /\ Counted /\ proc \in [Pid -> Proc]
  BY Types DEF IInv, TypeProc
<1>2. /\ proc' = [p \in Pid |-> [proc[p] EXCEPT !.old = proc[p].st \notin {"none", "dead"}]]
      /\ StickyProcs' = {} /\ CC_Procs' = [p \in Pid |-> 0] /\ CC_Report' = <<>>
      /\ UNCHANGED NUM_CHILDREN /\ quiet' = FALSE /\ Cleanup("accept")
      /\ UNCHANGED <<queue, bounds>> /\ pc = "exec"
  BY DEF Exec
<1>3. ASSUME NEW q \in Pid
      PROVE  /\ proc'[q] \in Proc /\ proc'[q].st = proc[q].st
             /\ proc'[q].sticky = proc[q].sticky
             /\ proc'[q].hup = proc[q].hup /\ proc'[q].det = proc[q].det
             /\ proc'[q].old = (proc[q].st \notin {"none", "dead"})
             /\ proc[q].st = "none" => proc'[q] = proc[q]
  <2> DEFINE o == proc[q].st \notin {"none", "dead"}
  <2>1. o \in BOOLEAN /\ proc[q] \in Proc /\ proc'[q] = [proc[q] EXCEPT !.old = o]
    BY <1>1, <1>2
  <2>2. proc[q].st = "none" => proc[q] = NoProc /\ ~o  BY Mine DEF Sound
  <2>3. proc[q].st = "none" => o = FALSE /\ proc[q].old = FALSE  BY <2>1, <2>2, Records
  <2>4. (proc'[q].old) = o  BY <2>1 DEF Proc
  <2> HIDE DEF o
  <2>5. /\ proc'[q] \in Proc /\ proc'[q].st = proc[q].st /\ proc'[q].sticky = proc[q].sticky
        /\ proc'[q].hup = proc[q].hup /\ proc'[q].det = proc[q].det
    BY <2>1 DEF Proc
  <2>6. proc[q].st = "none" => proc'[q] = proc[q]  BY <2>1, <2>3 DEF Proc
  <2>7. QED  BY <2>4, <2>5, <2>6 DEF o
<1>4. proc' \in [Pid -> Proc]  BY <1>2, <1>3
<1>5. pc' = "reap" /\ ret' = "accept" /\ xlock' = FALSE /\ pc' \in PC /\ ret' \in Ret
  BY <1>2, Jumps DEF Ret
<1>6. TypeRest'
  <2>1. <<>> \in Seq(Message) /\ Len(<<>>) <= ReportSize  BY LimitAssumption
  <2>2. QED  BY <1>1, <1>2, <1>5, <2>1 DEF TypeRest, bounds
<1>7. TypeProc'  BY <1>1, <1>2, <1>4 DEF TypeProc
<1>8. TypeOK'  BY <1>6, <1>7, Types DEF TypeOK, TypeRest, TypeProc, Ret, Message
<1>9. Is({"none"})' = Is({"none"})  BY <1>3 DEF Is
<1>10. Counted'  BY <1>1, <1>2, <1>9 DEF Counted
<1>11. KillsOwn'  BY <1>2 DEF KillsOwn
<1>12. ASSUME NEW q \in Pid PROVE Sound(q)'
  <2>1. Sound(q)  BY DEF IInv
  <2>2. proc[q].sticky /\ Alive(q) => proc[q].hup \/ proc[q].det
    <3>1. ToExec  BY <1>2 DEF ToExec
    <3>2. proc[q].old \in BOOLEAN  BY Mine
    <3>3. QED  BY <1>1, <2>1, <3>1, <3>2 DEF Sound, Told, Alive
  <2>3. QED  BY <1>3, <2>1, <2>2 DEF Sound, Alive
<1>13. LockInv' /\ Told'  BY <1>2, <1>5 DEF LockInv, Told
<1>14. QED  BY <1>8, <1>10, <1>11, <1>12, <1>13 DEF IInv

-----------------------------------------------------------------------------
(* The theorems. *)

\* The invariant holds when the server is started.
LEMMA Start == Init => IInv
<1> SUFFICES ASSUME Init PROVE IInv  OBVIOUS
<1>1. \A p \in Pid : proc[p] = NoProc  BY DEF Init
<1>2. proc \in [Pid -> Proc]  BY Records DEF Init
<1>3. Born = {} /\ Holders = {}  BY <1>1, Records DEF Born, Is, Holders
<1>4. Cardinality(Born) = 0  BY <1>3, FS_EmptySet
<1>5. TypeOK
  <2>1. <<>> \in Seq(Message) /\ Len(<<>>) <= ReportSize  BY LimitAssumption
  <2>2. TypeRest
    <3>1. /\ 0 \in 0..Backlog /\ 0 \in 0..MaxFrozen /\ 0 \in 0..MaxHups /\ 0 \in 0..MaxLost
          /\ [p \in Pid |-> 0] \in [Pid -> Nat]
      BY LimitAssumption
    <3>2. "reap" \in PC /\ "accept" \in Ret  BY DEF PC, Ret
    <3>3. QED  BY <2>1, <3>1, <3>2 DEF Init, TypeRest
  <2>3. TypeProc  BY <1>2, Finite DEF Init, TypeProc
  <2>4. QED  BY <2>2, <2>3, Types
<1>6. Counted  BY <1>4 DEF Counted, Born, Init
<1>7. KillsOwn /\ Told /\ LockInv  BY DEF Init, KillsOwn, Told, LockInv
<1>8. \A p \in Pid : Sound(p)  BY <1>1, Records DEF Sound, Alive
<1>9. QED  BY <1>5, <1>6, <1>7, <1>8 DEF IInv

\* Every step keeps it.
LEMMA Steps == IInv /\ [Next]_vars => IInv'
<1> SUFFICES ASSUME IInv, [Next]_vars PROVE IInv'  OBVIOUS
<1>1. CASE Main
  <2>1. ASSUME NEW p \in Pid, Reap(p) \/ ForkReap(p) PROVE IInv'
    BY <2>1, WaitStep DEF Reap, ForkReap
  <2>2. CASE Reaped \/ NumTest \/ FullTest \/ FullLog  BY <2>2, TestStep
  <2>3. CASE ReadCC  BY <2>3, ReadStep
  <2>4. CASE FullWait
    <3>1. ASSUME NEW p \in Is({"dead"}), dec_nproc(p) PROVE IInv'
      BY <2>4, <3>1, WaitStep DEF FullWait, Is
    <3>2. CASE UNCHANGED <<proc, counts, quiet>>  BY <2>4, <3>2, TestStep
    <3>3. QED  BY <2>4, <3>1, <3>2 DEF FullWait
  <2>5. CASE AcceptTimeout \/ LockedOut \/ ForkFails \/ BreakWait  BY <2>5, LoopStep
  <2>6. CASE AcceptAlone \/ AcceptLock \/ AcceptYield \/ AcceptClient  BY <2>6, AcceptStep
  <2>7. ASSUME NEW p \in Pid, NEW sticky \in BOOLEAN, ForkServer(p, sticky) PROVE IInv'
    BY <2>7, ForkStep
  <2>8. ASSUME NEW known \in Known, BreakHup(known) \/ BreakKill(known) \/ Hup(known)
        PROVE  IInv'
    BY <2>8, SignalStep, KillStep
  <2>9. CASE Exec  BY <2>9, ExecStep
  <2>10. QED
    BY <1>1, <2>1, <2>2, <2>3, <2>4, <2>5, <2>6, <2>7, <2>8, <2>9 DEF Main
<1>2. ASSUME NEW p \in Pid, \/ Child(p) \/ Detach(p) \/ StickyUnlock(p) \/ StartCC(p)
                            \/ Freeze(p) \/ Thaw(p) \/ Abort(p) \/ AbortCC(p)
      PROVE  IInv'
  BY <1>2, EndStep, TurnStep, DetachStep DEF Child
<1>3. CASE Sighup  BY <1>3, LoopStep
<1>4. CASE Arrive \/ Defreeze  BY <1>4, OutsideStep
<1>5. CASE UNCHANGED vars
  <2>1. TypeRest  BY Types DEF IInv
  <2>2. TypeRest'  BY <1>5, <2>1 DEF TypeRest, vars, counts, main, bounds
  <2>3. LockInv'  BY <1>5 DEF IInv, LockInv, vars, counts, main, Holders, Is
  <2>4. QED  BY <1>5, <2>2, <2>3, Moves DEF vars, counts, main, ToExec
<1>6. QED  BY <1>1, <1>2, <1>3, <1>4, <1>5 DEF Next

\* The invariant holds in every reachable state.
THEOREM Inductive == Spec => []IInv
  BY Start, Steps, PTL DEF Spec

(***************************************************************************)
(* All variables keep their types: NUM_CHILDREN never exceeds the number   *)
(* of process ids, no message is read that was not written whole, and      *)
(* del_CC takes no entry off that is not there.                            *)
(***************************************************************************)
THEOREM TypeCorrect == Spec => []TypeOK
<1>1. IInv => TypeOK  BY DEF IInv
<1>2. QED  BY <1>1, Inductive, PTL

(***************************************************************************)
(* NUM_CHILDREN is the number of children that exist: dec_nproc and fork   *)
(* keep it exact whoever ends in between, also over an exec of main.       *)
(***************************************************************************)
THEOREM ChildrenCounted == Spec => []Counted
<1>1. IInv => Counted  BY DEF IInv
<1>2. QED  BY <1>1, Inductive, PTL

(***************************************************************************)
(* StickyKill signals only Stickies of this server, although process ids   *)
(* are used again.                                                         *)
(***************************************************************************)
THEOREM SignalsOwn == Spec => []KillsOwn
<1>1. IInv => KillsOwn  BY DEF IInv
<1>2. QED  BY <1>1, Inductive, PTL

(***************************************************************************)
(* A client that main has seen, alone or under the exclusive lock of the   *)
(* port file, is still there when main calls accept(): no Sticky, of this  *)
(* server or of the one before the restart, takes it away.                 *)
(***************************************************************************)
THEOREM ClientStays == Spec => []NotTaken
<1>1. IInv => NotTaken  BY DEF IInv, LockInv, NotTaken
<1>2. QED  BY <1>1, Inductive, PTL

-----------------------------------------------------------------------------
(* CC_Active: the sum of the entries of CC_Procs. *)

\* A set of numbers that is not empty has a least one.
LEMMA LeastNumber ==
  ASSUME NEW S \in SUBSET Nat, S # {}
  PROVE  \E n \in S : \A k \in S : n <= k
<1> DEFINE R == OpToRel(<, Nat)
<1>1. IsWellFoundedOn(R, Nat)  BY NatLessThanWellFounded, Zenon
<1>2. \A a, b \in Nat : <<a, b>> \in R <=> a < b  BY DEF OpToRel
<1> HIDE DEF R
<1>3. PICK n \in S : \A k \in S : ~(<<k, n>> \in R)  BY <1>1, WFMin
<1>4. \A k \in S : ~(k < n)  BY <1>2, <1>3
<1>5. n \in Nat /\ \A k \in S : k \in Nat  OBVIOUS
<1>6. \A k \in S : n <= k  BY <1>4, <1>5
<1>7. QED  BY <1>6

\* A set of pids is finite, and one pid less makes it smaller by one.
LEMMA Sizes ==
  ASSUME NEW s \in SUBSET Pid
  PROVE  /\ Cardinality(s) \in Nat /\ (Cardinality(s) = 0 <=> s = {})
         /\ Cardinality(s) <= Cardinality(Pid)
         /\ \A x \in s : /\ s \ {x} \in SUBSET Pid
                         /\ Cardinality(s \ {x}) = Cardinality(s) - 1
<1>1. IsFiniteSet(Pid)  BY LimitAssumption
<1>2. IsFiniteSet(s) /\ Cardinality(s) <= Cardinality(Pid)  BY <1>1, FS_Subset
<1>3. Cardinality(s) \in Nat  BY <1>2, FS_CardinalityType
<1>4. Cardinality(s) = 0 <=> s = {}  BY <1>2, FS_EmptySet
<1>5. ASSUME NEW x \in s PROVE Cardinality(s \ {x}) = Cardinality(s) - 1
  BY <1>2, FS_RemoveElement
<1>6. QED  BY <1>2, <1>3, <1>4, <1>5

\* Induction over sets of pids: a claim that fails for some set fails for one
\* none of whose subsets with one pid less it fails for.
LEMMA Smallest ==
  ASSUME NEW W \in SUBSET (SUBSET Pid), W # {}
  PROVE  \E s \in W : \A x \in s : s \ {x} \notin W
<1> DEFINE N == {Cardinality(s) : s \in W}
<1>1. N \in SUBSET Nat /\ N # {}
  <2>1. \A s \in W : Cardinality(s) \in Nat  BY Sizes
  <2>2. QED  BY <2>1
<1>2. PICK n \in N : \A k \in N : n <= k
  <2> HIDE DEF N
  <2>1. QED  BY <1>1, LeastNumber
<1>3. PICK s \in W : Cardinality(s) = n  OBVIOUS
<1>4. ASSUME NEW x \in s, s \ {x} \in W PROVE FALSE
  <2>1. Cardinality(s \ {x}) = Cardinality(s) - 1 /\ Cardinality(s) \in Nat  BY Sizes
  <2>2. Cardinality(s) <= Cardinality(s \ {x})  BY <1>2, <1>3, <1>4
  <2>3. QED  BY <2>1, <2>2
<1>5. QED  BY <1>4

\* The pid that a sum takes first, and how a sum over the sets in D goes on.
First(s) == CHOOSE x \in s : TRUE
Adds(f, cc, D) ==
  f = [s \in D |-> IF s = {} THEN 0 ELSE cc[First(s)] + f[s \ {First(s)}]]
UpTo(n) == {s \in SUBSET Pid : Cardinality(s) <= n}

\* A set that is not empty has a first pid.
LEMMA FirstIn == \A s : s # {} => First(s) \in s  BY DEF First

\* One more: from the sums over sets of n pids to those of n + 1.
LEMMA AddsMore ==
  ASSUME NEW cc, NEW n \in Nat, NEW f, Adds(f, cc, UpTo(n))
  PROVE  \E g : Adds(g, cc, UpTo(n + 1))
<1> DEFINE D == UpTo(n)
           E == UpTo(n + 1)
           g == [s \in E |-> IF s = {} THEN 0 ELSE cc[First(s)] + f[s \ {First(s)}]]
<1>1. ASSUME NEW s \in E, s # {} PROVE s \ {First(s)} \in D
  <2>1. First(s) \in s /\ s \in SUBSET Pid /\ Cardinality(s) <= n + 1  BY <1>1, FirstIn DEF UpTo
  <2>2. Cardinality(s \ {First(s)}) = Cardinality(s) - 1 /\ Cardinality(s) \in Nat
    BY <2>1, Sizes
  <2>3. QED  BY <2>1, <2>2 DEF UpTo
<1>2. \A t \in D : t \in E
  <2>1. \A t \in D : Cardinality(t) \in Nat  BY Sizes DEF UpTo
  <2>2. QED  BY <2>1 DEF UpTo
<1>3. \A t \in D : f[t] = IF t = {} THEN 0 ELSE cc[First(t)] + f[t \ {First(t)}]
  BY DEF Adds
<1> HIDE DEF D, E
<1>4. \A t \in D : g[t] = f[t]  BY <1>2, <1>3
<1>5. \A s \in E : s # {} => g[s] = cc[First(s)] + g[s \ {First(s)}]  BY <1>1, <1>4
<1>6. \A s \in E : s = {} => g[s] = 0  OBVIOUS
<1>7. g = [s \in E |-> g[s]]  OBVIOUS
<1> HIDE DEF g
<1>8. Adds(g, cc, E)
  <2>1. \A s \in E : g[s] = IF s = {} THEN 0 ELSE cc[First(s)] + g[s \ {First(s)}]
    BY <1>5, <1>6
  <2>2. QED  BY <1>7, <2>1 DEF Adds
<1>9. QED  BY <1>8 DEF E

\* The sums exist: the recursion in CC_Active defines something.
LEMMA AddsAll ==
  ASSUME NEW cc
  PROVE  \E f : Adds(f, cc, SUBSET Pid)
<1> DEFINE Wrong == {n \in Nat : ~\E f : Adds(f, cc, UpTo(n))}
<1>1. Wrong = {}
  <2> SUFFICES ASSUME Wrong # {} PROVE FALSE  OBVIOUS
  <2>1. PICK n \in Wrong : \A k \in Wrong : n <= k
    <3>1. Wrong \in SUBSET Nat  OBVIOUS
    <3> HIDE DEF Wrong
    <3>2. QED  BY <3>1, LeastNumber
  <2>2. n # 0
    <3> DEFINE g == [s \in UpTo(0) |-> 0]
    <3>1. \A s \in UpTo(0) : s = {}
      <4>1. \A s \in UpTo(0) : Cardinality(s) \in Nat /\ Cardinality(s) <= 0  BY Sizes DEF UpTo
      <4>2. \A s \in UpTo(0) : Cardinality(s) = 0  BY <4>1
      <4>3. QED  BY <4>2, Sizes DEF UpTo
    <3>2. Adds(g, cc, UpTo(0))  BY <3>1 DEF Adds
    <3> HIDE DEF g
    <3>3. QED  BY <3>2
  <2>3. n - 1 \in Nat /\ n - 1 \notin Wrong /\ (n - 1) + 1 = n  BY <2>1, <2>2
  <2>4. PICK f : Adds(f, cc, UpTo(n - 1))  BY <2>3
  <2>5. \E g : Adds(g, cc, UpTo((n - 1) + 1))  BY <2>3, <2>4, AddsMore
  <2>6. UpTo((n - 1) + 1) = UpTo(n)  BY <2>3
  <2>7. \E g : Adds(g, cc, UpTo(n))  BY <2>5, <2>6
  <2>8. ~\E g : Adds(g, cc, UpTo(n))  OBVIOUS
  <2>9. QED  BY <2>7, <2>8
<1>2. Cardinality(Pid) \in Nat  BY Sizes
<1>3. UpTo(Cardinality(Pid)) = SUBSET Pid  BY Sizes DEF UpTo
<1>4. \A n \in Nat : \E f : Adds(f, cc, UpTo(n))  BY <1>1
<1>5. PICK f : Adds(f, cc, UpTo(Cardinality(Pid)))  BY <1>2, <1>4
<1>6. QED  BY <1>3, <1>5

\* What a sum over sets of pids is: nothing for no pid, and the share of any of
\* them, not only of the first, plus the sum over the others.
IsSum(f, cc) ==
  /\ f \in [SUBSET Pid -> Nat] /\ f[{}] = 0
  /\ \A s \in SUBSET Pid : \A x \in s : f[s] = cc[x] + f[s \ {x}]

\* What the recursion computes is such a sum, whichever pid CHOOSE takes first.
LEMMA AddsIsSum ==
  ASSUME NEW cc \in [Pid -> Nat], NEW f, Adds(f, cc, SUBSET Pid)
  PROVE  IsSum(f, cc)
<1>1. f[{}] = 0  BY DEF Adds
<1>2. ASSUME NEW s \in SUBSET Pid, s # {}
      PROVE  First(s) \in s /\ First(s) \in Pid /\ f[s] = cc[First(s)] + f[s \ {First(s)}]
  BY <1>2, FirstIn DEF Adds
<1>3. \A s \in SUBSET Pid : f[s] \in Nat
  <2> DEFINE W == {s \in SUBSET Pid : f[s] \notin Nat}
  <2> SUFFICES ASSUME W # {} PROVE FALSE  OBVIOUS
  <2>1. PICK s \in W : \A x \in s : s \ {x} \notin W
    <3>1. W \in SUBSET (SUBSET Pid)  OBVIOUS
    <3> HIDE DEF W
    <3>2. QED  BY <3>1, Smallest
  <2>2. s # {} /\ s \in SUBSET Pid /\ f[s] \notin Nat  BY <1>1
  <2>3. f[s \ {First(s)}] \in Nat  BY <1>2, <2>1, <2>2
  <2>4. cc[First(s)] \in Nat  BY <1>2, <2>2
  <2>5. f[s] = cc[First(s)] + f[s \ {First(s)}]  BY <1>2, <2>2
  <2> HIDE DEF W
  <2>6. QED  BY <2>2, <2>3, <2>4, <2>5
<1>4. \A s \in SUBSET Pid : \A x \in s : f[s] = cc[x] + f[s \ {x}]
  <2> DEFINE W == {s \in SUBSET Pid : \E x \in s : f[s] # cc[x] + f[s \ {x}]}
  <2> SUFFICES ASSUME W # {} PROVE FALSE  OBVIOUS
  <2>1. PICK s \in W : \A x \in s : s \ {x} \notin W
    <3>1. W \in SUBSET (SUBSET Pid)  OBVIOUS
    <3> HIDE DEF W
    <3>2. QED  BY <3>1, Smallest
  <2>2. PICK x \in s : f[s] # cc[x] + f[s \ {x}]  OBVIOUS
  <2> DEFINE y == First(s)
  <2>3. s \in SUBSET Pid /\ y \in s /\ f[s] = cc[y] + f[s \ {y}]  BY <1>2
  <2>4. y # x  BY <2>2, <2>3
  <2>5. (s \ {y}) \ {x} = (s \ {x}) \ {y}  OBVIOUS
  <2>6. ASSUME NEW a \in s, NEW b \in s, a # b
        PROVE  f[s \ {a}] = cc[b] + f[(s \ {a}) \ {b}]
    <3>1. s \ {a} \in SUBSET Pid /\ s \ {a} \notin W /\ b \in s \ {a}  BY <2>1, <2>3, <2>6
    <3>2. QED  BY <3>1
  <2> HIDE DEF y, W
  <2>7. f[s \ {y}] = cc[x] + f[(s \ {x}) \ {y}]  BY <2>3, <2>4, <2>5, <2>6
  <2>8. f[s \ {x}] = cc[y] + f[(s \ {x}) \ {y}]  BY <2>3, <2>4, <2>6
  <2>9. x \in Pid /\ y \in Pid /\ (s \ {x}) \ {y} \in SUBSET Pid  BY <2>3
  <2>10. cc[x] \in Nat /\ cc[y] \in Nat /\ f[(s \ {x}) \ {y}] \in Nat  BY <1>3, <2>9
  <2>11. QED  BY <2>2, <2>3, <2>7, <2>8, <2>10
<1>5. f = [s \in SUBSET Pid |-> f[s]]  BY DEF Adds
<1>6. f \in [SUBSET Pid -> Nat]  BY <1>3, <1>5
<1>7. QED  BY <1>1, <1>4, <1>6 DEF IsSum

\* CC_Active is such a sum over all pids.
LEMMA ActiveIsSum ==
  ASSUME NEW cc \in [Pid -> Nat]
  PROVE  \E f : IsSum(f, cc) /\ CC_Active(cc) = f[Pid]
<1> DEFINE f == CHOOSE h : Adds(h, cc, SUBSET Pid)
<1>1. CC_Active(cc) = f[Pid]
  BY DEF CC_Active, MapThenSumSet, MapThenFoldSet, Adds, First
<1>2. Adds(f, cc, SUBSET Pid)
  <2>1. \E h : Adds(h, cc, SUBSET Pid)  BY AddsAll
  <2>2. QED  BY <2>1
<1> HIDE DEF f
<1>3. IsSum(f, cc)  BY <1>2, AddsIsSum
<1>4. QED  BY <1>1, <1>3

\* Bigger entries, bigger sum: as many connection caches C make room as have
\* one entry each, and the others are accounted for by spare.
LEMMA ActiveBound ==
  ASSUME NEW cc \in [Pid -> Nat], NEW spare \in [Pid -> Nat], NEW C \in SUBSET Pid,
         \A p \in Pid : cc[p] <= spare[p] + (IF p \in C THEN 1 ELSE 0)
  PROVE  /\ CC_Active(cc) \in Nat /\ CC_Active(spare) \in Nat
         /\ CC_Active(cc) <= CC_Active(spare) + Cardinality(C)
<1>1. PICK f : IsSum(f, cc) /\ CC_Active(cc) = f[Pid]  BY ActiveIsSum
<1>2. PICK g : IsSum(g, spare) /\ CC_Active(spare) = g[Pid]  BY ActiveIsSum
<1>3. \A s \in SUBSET Pid : f[s] \in Nat /\ g[s] \in Nat  BY <1>1, <1>2 DEF IsSum
<1>4. \A s \in SUBSET Pid : Cardinality(s \cap C) \in Nat  BY Sizes
<1>5. \A s \in SUBSET Pid : f[s] <= g[s] + Cardinality(s \cap C)
  <2> DEFINE W == {s \in SUBSET Pid : ~(f[s] <= g[s] + Cardinality(s \cap C))}
  <2> SUFFICES ASSUME W # {} PROVE FALSE  OBVIOUS
  <2>1. PICK s \in W : \A x \in s : s \ {x} \notin W
    <3>1. W \in SUBSET (SUBSET Pid)  OBVIOUS
    <3> HIDE DEF W
    <3>2. QED  BY <3>1, Smallest
  <2>2. s \in SUBSET Pid /\ ~(f[s] <= g[s] + Cardinality(s \cap C))  OBVIOUS
  <2>3. s # {}
    <3>1. f[{}] = 0 /\ g[{}] = 0  BY <1>1, <1>2 DEF IsSum
    <3>2. {} \in SUBSET Pid /\ Cardinality({} \cap C) \in Nat  BY <1>4
    <3>3. 0 <= 0 + Cardinality({} \cap C)  BY <3>2
    <3>4. QED  BY <2>2, <3>1, <3>3
  <2>4. PICK x : x \in s  BY <2>3
  <2> DEFINE t == s \ {x}
  <2>5. t \in SUBSET Pid /\ x \in Pid /\ t \notin W  BY <2>1, <2>2, <2>4
  <2>6. f[t] <= g[t] + Cardinality(t \cap C)  BY <2>5
  <2>7. f[s] = cc[x] + f[t] /\ g[s] = spare[x] + g[t]  BY <1>1, <1>2, <2>2, <2>4 DEF IsSum
  <2>8. Cardinality(s \cap C) = Cardinality(t \cap C) + (IF x \in C THEN 1 ELSE 0)
    <3>1. CASE x \in C
      <4>1. x \in s \cap C /\ (s \cap C) \ {x} = t \cap C /\ s \cap C \in SUBSET Pid
        BY <2>2, <2>4, <3>1
      <4>2. Cardinality((s \cap C) \ {x}) = Cardinality(s \cap C) - 1  BY <4>1, Sizes
      <4>3. Cardinality(s \cap C) \in Nat  BY <1>4, <2>2
      <4> HIDE DEF t
      <4>4. QED  BY <3>1, <4>1, <4>2, <4>3
    <3>2. CASE x \notin C
      <4>1. s \cap C = t \cap C  BY <3>2
      <4>2. Cardinality(t \cap C) \in Nat  BY <1>4, <2>5
      <4> HIDE DEF t
      <4>3. Cardinality(s \cap C) = Cardinality(t \cap C)  BY <4>1
      <4>4. QED  BY <3>2, <4>2, <4>3
    <3>3. QED  BY <3>1, <3>2
  <2>9. /\ f[t] \in Nat /\ g[t] \in Nat /\ Cardinality(t \cap C) \in Nat
        /\ cc[x] \in Nat /\ spare[x] \in Nat /\ cc[x] <= spare[x] + (IF x \in C THEN 1 ELSE 0)
    BY <1>3, <1>4, <2>5
  <2> HIDE DEF t, W
  <2>10. f[s] <= g[s] + Cardinality(s \cap C)  BY <2>6, <2>7, <2>8, <2>9
  <2>11. QED  BY <2>2, <2>10
<1>6. Pid \in SUBSET Pid /\ Pid \cap C = C  OBVIOUS
<1>7. QED  BY <1>1, <1>2, <1>3, <1>5, <1>6

\* One entry more for one pid makes the sum bigger by one.
LEMMA ActiveAdd ==
  ASSUME NEW cc \in [Pid -> Nat], NEW p \in Pid
  PROVE  /\ add_CC(cc, p) \in [Pid -> Nat]
         /\ CC_Active(cc) \in Nat /\ CC_Active(add_CC(cc, p)) \in Nat
         /\ CC_Active(add_CC(cc, p)) <= CC_Active(cc) + 1
<1>1. add_CC(cc, p) \in [Pid -> Nat]  BY DEF add_CC
<1>2. \A q \in Pid : add_CC(cc, p)[q] <= cc[q] + (IF q \in {p} THEN 1 ELSE 0)  BY DEF add_CC
<1>3. Cardinality({p}) = 1  BY FS_Singleton
<1>4. {p} \in SUBSET Pid  OBVIOUS
<1>5. /\ CC_Active(cc) \in Nat /\ CC_Active(add_CC(cc, p)) \in Nat
      /\ CC_Active(add_CC(cc, p)) <= CC_Active(cc) + Cardinality({p})
  BY <1>1, <1>2, <1>4, ActiveBound
<1>6. QED  BY <1>1, <1>3, <1>5

\* No entries, no sum.
LEMMA ActiveNone == CC_Active([p \in Pid |-> 0]) = 0
<1> DEFINE cc == [p \in Pid |-> 0]
<1>1. cc \in [Pid -> Nat] /\ \A p \in Pid : cc[p] = 0  OBVIOUS
<1>2. PICK f : IsSum(f, cc) /\ CC_Active(cc) = f[Pid]
  <2> HIDE DEF cc
  <2>1. QED  BY <1>1, ActiveIsSum
<1> HIDE DEF cc
<1>3. \A s \in SUBSET Pid : f[s] = 0
  <2> DEFINE W == {s \in SUBSET Pid : f[s] # 0}
  <2> SUFFICES ASSUME W # {} PROVE FALSE  OBVIOUS
  <2>1. PICK s \in W : \A x \in s : s \ {x} \notin W
    <3>1. W \in SUBSET (SUBSET Pid)  OBVIOUS
    <3> HIDE DEF W
    <3>2. QED  BY <3>1, Smallest
  <2>2. s \in SUBSET Pid /\ f[s] # 0  OBVIOUS
  <2>3. PICK x : x \in s  BY <1>2, <2>2 DEF IsSum
  <2>4. x \in Pid /\ s \ {x} \in SUBSET Pid /\ f[s \ {x}] = 0  BY <2>1, <2>2, <2>3
  <2>5. f[s] = cc[x] + f[s \ {x}]  BY <1>2, <2>2, <2>3 DEF IsSum
  <2>6. QED  BY <1>1, <2>2, <2>4, <2>5
<1>4. QED  BY <1>2, <1>3 DEF cc

-----------------------------------------------------------------------------
(* MAX_DELEGATE: who makes room for a new server. *)

\* From sigHUPX, or from the kill of frozen Stickies, to exec no server is forked:
\* what the dead leave in CC_Procs and CC_Report does not matter.
Restarts == pc \in {"hup", "exec"} \/ (pc \in Cleaning /\ ret \in {"hup", "exec"})
\* cleanup_zombis has found room, and main goes on to fork.
Chosen == ~Restarts /\ pc \notin {"reap", "num", "full", "fullwait"}

\* The connection caches of this server.
Caches == {p \in Pid : proc[p].st = "cc" /\ ~proc[p].old}
One(p) == IF p \in Caches THEN 1 ELSE 0

\* What becomes of n entries of pid p when num_CC reads message m.
Reads(n, m, p) == IF m.pid # p THEN n ELSE IF m.start THEN n + 1
                  ELSE IF n > 0 THEN n - 1 ELSE 0

\* f bounds the entries of CC_Procs while num_CC reads what is in CC_Report: at
\* the end each connection cache has one, and any other pid what is spare.
Bounds(f, spare) ==
  /\ f \in [0..Len(CC_Report) -> [Pid -> Nat]]
  /\ \A p \in Pid : CC_Procs[p] <= f[0][p]
  /\ \A i \in 1..Len(CC_Report) : \A p \in Pid : Reads(f[i - 1][p], CC_Report[i], p) <= f[i][p]
  /\ \A p \in Pid : f[Len(CC_Report)][p] <= spare[p] + One(p)

\* There are at most as many spare entries as connection caches ended silently.
Ledger ==
  ~Restarts => \E spare \in [Pid -> Nat] : /\ CC_Active(spare) <= losts
                                           /\ \E f : Bounds(f, spare)
\* The room that was found is still there: who serves does not become more.
Room == Chosen => Cardinality(Serving) < MAX_DELEGATE + losts
LInv == Ledger /\ Room

\* The sets of pids that are counted, and their numbers.
LEMMA Sets ==
  /\ Serving \in SUBSET Pid /\ Caches \in SUBSET Pid
  /\ Cardinality(Serving) \in Nat /\ Cardinality(Caches) \in Nat
<1>1. Serving \in SUBSET Pid /\ Caches \in SUBSET Pid  BY DEF Serving, Is, Caches
<1>2. QED  BY <1>1, Sizes

\* The room stays, for the servers only become fewer.
LEMMA RoomStays ==
  ASSUME Room, losts \in Nat, losts' \in Nat, losts <= losts', Serving' \subseteq Serving,
         Chosen' => Chosen
  PROVE  Room'
<1> SUFFICES ASSUME Chosen' PROVE Cardinality(Serving') < MAX_DELEGATE + losts'
  BY DEF Room
<1>1. Cardinality(Serving) < MAX_DELEGATE + losts  BY DEF Room
<1>2. IsFiniteSet(Serving)  BY Sets, Finite, FS_Subset
<1>3. Cardinality(Serving') <= Cardinality(Serving)  BY <1>2, FS_Subset
<1>4. Cardinality(Serving') \in Nat /\ Cardinality(Serving) \in Nat
  <2>1. Serving' \in SUBSET Pid  BY Sets
  <2>2. QED  BY <2>1, Sizes, Sets
<1>5. MAX_DELEGATE \in Nat  BY LimitAssumption
<1>6. QED  BY <1>1, <1>3, <1>4, <1>5

\* A step that leaves CC_Report alone, adds no entry, ends no connection cache
\* and forks no server.
LEMMA CalmStep ==
  ASSUME IInv, IInv', LInv, CC_Report' = CC_Report, losts' = losts,
         \A q \in Pid : CC_Procs'[q] <= CC_Procs[q],
         Caches \subseteq Caches', Serving' \subseteq Serving,
         Restarts => Restarts', Chosen' => Chosen
  PROVE  LInv'
<1>1. CC_Procs \in [Pid -> Nat] /\ CC_Procs' \in [Pid -> Nat] /\ losts \in Nat
  BY LimitAssumption DEF IInv, TypeOK
<1>2. Ledger'
  <2> SUFFICES ASSUME ~Restarts'
               PROVE  \E spare \in [Pid -> Nat] : /\ CC_Active(spare) <= losts'
                                                  /\ \E f : Bounds(f, spare)'
    BY DEF Ledger
  <2>1. PICK spare \in [Pid -> Nat] : CC_Active(spare) <= losts /\ \E f : Bounds(f, spare)
    BY DEF LInv, Ledger
  <2>2. PICK f : Bounds(f, spare)  BY <2>1
  <2>3. Len(CC_Report) \in Nat  BY DEF IInv, TypeOK
  <2>4. /\ f \in [0..Len(CC_Report) -> [Pid -> Nat]]
        /\ 0 \in 0..Len(CC_Report) /\ Len(CC_Report) \in 0..Len(CC_Report)
    BY <2>2, <2>3 DEF Bounds
  <2>5. ASSUME NEW q \in Pid PROVE CC_Procs'[q] <= f[0][q]
    <3>1. CC_Procs[q] \in Nat /\ CC_Procs'[q] \in Nat /\ f[0][q] \in Nat  BY <1>1, <2>4
    <3>2. CC_Procs[q] <= f[0][q]  BY <2>2 DEF Bounds
    <3>3. QED  BY <3>1, <3>2
  <2>6. ASSUME NEW q \in Pid PROVE f[Len(CC_Report)][q] <= spare[q] + One(q)'
    <3>1. f[Len(CC_Report)][q] \in Nat /\ spare[q] \in Nat  BY <2>4
    <3>2. f[Len(CC_Report)][q] <= spare[q] + One(q)  BY <2>2 DEF Bounds
    <3>3. One(q) \in Nat /\ One(q)' \in Nat /\ One(q) <= One(q)'  BY DEF One
    <3>4. QED  BY <3>1, <3>2, <3>3
  <2>7. Bounds(f, spare)'  BY <2>2, <2>4, <2>5, <2>6 DEF Bounds
  <2>8. QED  BY <2>1, <2>7
<1>3. Room'  BY <1>1, RoomStays DEF LInv
<1>4. QED  BY <1>2, <1>3 DEF LInv

\* The same where no process changes: main moves.
LEMMA MainMoves ==
  ASSUME IInv, IInv', LInv, UNCHANGED <<proc, CC_Report, CC_Procs, losts>>,
         Restarts => Restarts', Chosen' => Chosen
  PROVE  LInv'
<1>1. Caches' = Caches /\ Serving' = Serving  BY DEF Caches, Serving, Is
<1>2. \A q \in Pid : CC_Procs'[q] <= CC_Procs[q]  BY DEF IInv, TypeOK
<1>3. QED  BY <1>1, <1>2, CalmStep

\* num_CC reads the next message.
LEMMA ReadLedger ==
  ASSUME IInv, IInv', LInv, ReadCC
  PROVE  LInv'
<1> DEFINE n == Len(CC_Report)
           m == CC_Report[1]
<1>1. /\ CC_Procs \in [Pid -> Nat] /\ CC_Report \in Seq(Message) /\ CC_Report # <<>>
      /\ CC_Report' = Tail(CC_Report) /\ Head(CC_Report) = m
      /\ UNCHANGED <<proc, losts, pc, ret>>
  BY DEF IInv, TypeOK, ReadCC, main, bounds, Message
<1>2. /\ n \in Nat /\ n >= 1 /\ Len(CC_Report') = n - 1 /\ m \in Message
      /\ \A i \in 1..(n - 1) : CC_Report'[i] = CC_Report[i + 1]
  BY <1>1
<1>3. m.pid \in Pid /\ m.start \in BOOLEAN  BY <1>2 DEF Message
<1>4. \A q \in Pid : CC_Procs'[q] = Reads(CC_Procs[q], m, q)
  <2>1. CC_Procs' = IF m.start THEN add_CC(CC_Procs, m.pid) ELSE del_CC(CC_Procs, m.pid)
    BY <1>1 DEF ReadCC
  <2> HIDE DEF m
  <2>2. QED  BY <1>1, <1>3, <2>1 DEF add_CC, del_CC, Reads
<1>5. /\ Restarts' = Restarts /\ Chosen' = Chosen /\ Caches' = Caches /\ Serving' = Serving
  BY <1>1 DEF Restarts, Chosen, Caches, Serving, Is
<1>6. \A q \in Pid : One(q)' = One(q)  BY <1>5 DEF One
<1>7. Ledger'
  <2> SUFFICES ASSUME ~Restarts'
               PROVE  \E spare \in [Pid -> Nat] : /\ CC_Active(spare) <= losts'
                                                  /\ \E f : Bounds(f, spare)'
    BY DEF Ledger
  <2>1. PICK spare \in [Pid -> Nat] : CC_Active(spare) <= losts /\ \E f : Bounds(f, spare)
    BY <1>5 DEF LInv, Ledger
  <2>2. PICK f : Bounds(f, spare)  BY <2>1
  <2> DEFINE g == [i \in 0..(n - 1) |-> f[i + 1]]
  <2>3. f \in [0..n -> [Pid -> Nat]]  BY <2>2 DEF Bounds
  <2>4. \A i \in 0..(n - 1) : i + 1 \in 0..n /\ i + 1 \in 1..n /\ (i + 1) - 1 = i  BY <1>2
  <2>5. g \in [0..(n - 1) -> [Pid -> Nat]]
    <3> HIDE DEF n
    <3>1. QED  BY <2>3, <2>4
  <2>6. ASSUME NEW q \in Pid PROVE CC_Procs'[q] <= g[0][q]
    <3>1. 0 \in 0..(n - 1) /\ 0 \in 0..n /\ 1 \in 0..n /\ 1 \in 1..n  BY <1>2
    <3>2. g[0] = f[1]  BY <3>1
    <3>3. Reads(f[0][q], m, q) <= f[1][q] /\ CC_Procs[q] <= f[0][q]
      BY <2>2, <3>1 DEF Bounds
    <3>4. CC_Procs[q] \in Nat /\ f[0][q] \in Nat /\ f[1][q] \in Nat  BY <1>1, <2>3, <3>1
    <3> HIDE DEF g, m, n
    <3>5. Reads(CC_Procs[q], m, q) <= Reads(f[0][q], m, q)  BY <3>3, <3>4 DEF Reads
    <3>6. Reads(CC_Procs[q], m, q) \in Nat /\ Reads(f[0][q], m, q) \in Nat
      BY <3>4 DEF Reads
    <3>7. Reads(CC_Procs[q], m, q) <= f[1][q]  BY <3>3, <3>4, <3>5, <3>6
    <3>8. QED  BY <1>4, <3>2, <3>7
  <2>7. ASSUME NEW i \in 1..(n - 1), NEW q \in Pid
        PROVE  Reads(g[i - 1][q], CC_Report'[i], q) <= g[i][q]
    <3>1. /\ i \in 0..(n - 1) /\ i - 1 \in 0..(n - 1) /\ i + 1 \in 1..n
          /\ (i + 1) - 1 = i /\ (i - 1) + 1 = i
      BY <1>2
    <3>2. g[i - 1] = f[i] /\ g[i] = f[i + 1]  BY <3>1
    <3>3. CC_Report'[i] = CC_Report[i + 1]  BY <1>2
    <3>4. Reads(f[(i + 1) - 1][q], CC_Report[i + 1], q) <= f[i + 1][q]
      BY <2>2, <3>1 DEF Bounds
    <3> HIDE DEF g, n
    <3>5. QED  BY <3>1, <3>2, <3>3, <3>4
  <2>8. ASSUME NEW q \in Pid PROVE g[n - 1][q] <= spare[q] + One(q)'
    <3>1. g[n - 1] = f[n]  BY <1>2
    <3>2. f[n][q] <= spare[q] + One(q)  BY <2>2 DEF Bounds
    <3> HIDE DEF g, n
    <3>3. QED  BY <1>6, <3>1, <3>2
  <2> HIDE DEF g, n, m
  <2>9. \E h : Bounds(h, spare)'
    <3> DEFINE k == Len(CC_Report')
    <3>1. k = n - 1  BY <1>2
    <3> HIDE DEF k
    <3> PICK h : h = g  OBVIOUS
    <3>2. h \in [0..k -> [Pid -> Nat]]  BY <3>1, <2>5
    <3>3. \A i \in 1..k : \A q \in Pid : Reads(h[i - 1][q], CC_Report'[i], q) <= h[i][q]
      BY <3>1, <2>7
    <3>4. \A q \in Pid : h[k][q] <= spare[q] + One(q)'  BY <3>1, <2>8
    <3>5. \A q \in Pid : CC_Procs'[q] <= h[0][q]  BY <2>6
    <3>6. Bounds(h, spare)'  BY <3>2, <3>3, <3>4, <3>5 DEF Bounds, k
    <3>7. QED  BY <3>6
  <2>10. QED  BY <1>1, <2>1, <2>9
<1>8. Room'  BY <1>1, <1>5 DEF LInv, Room
<1>9. QED  BY <1>7, <1>8 DEF LInv

\* A child writes a message, at the start or the end of a connection cache.
LEMMA WriteLedger ==
  ASSUME IInv, IInv', LInv, NEW m \in Message, CC_Report' = Append(CC_Report, m),
         UNCHANGED <<CC_Procs, losts, pc, ret>>, Serving' \subseteq Serving,
         \A q \in Pid : \A n, k \in Nat : n <= k + One(q) => Reads(n, m, q) <= k + One(q)'
  PROVE  LInv'
<1> DEFINE n == Len(CC_Report)
<1>1. CC_Report \in Seq(Message) /\ losts \in Nat
  BY LimitAssumption DEF IInv, TypeOK, Message
<1>2. /\ n \in Nat /\ Len(CC_Report') = n + 1 /\ CC_Report'[n + 1] = m
      /\ \A i \in 1..n : CC_Report'[i] = CC_Report[i]
  BY <1>1
<1>3. Restarts' = Restarts /\ Chosen' = Chosen  BY DEF Restarts, Chosen
<1>4. Ledger'
  <2> SUFFICES ASSUME ~Restarts'
               PROVE  \E spare \in [Pid -> Nat] : /\ CC_Active(spare) <= losts'
                                                  /\ \E f : Bounds(f, spare)'
    BY DEF Ledger
  <2>1. PICK spare \in [Pid -> Nat] : CC_Active(spare) <= losts /\ \E f : Bounds(f, spare)
    BY <1>3 DEF LInv, Ledger
  <2>2. PICK f : Bounds(f, spare)  BY <2>1
  <2> DEFINE last == [q \in Pid |-> Reads(f[n][q], m, q)]
             g == [i \in 0..(n + 1) |-> IF i = n + 1 THEN last ELSE f[i]]
  <2>3. f \in [0..n -> [Pid -> Nat]] /\ n \in 0..n  BY <1>2, <2>2 DEF Bounds
  <2>4. last \in [Pid -> Nat]
    <3>1. ASSUME NEW q \in Pid PROVE Reads(f[n][q], m, q) \in Nat
      <4>1. f[n][q] \in Nat  BY <2>3
      <4> HIDE DEF n
      <4>2. QED  BY <4>1 DEF Reads
    <3>2. QED  BY <3>1
  <2>5. \A i \in 0..(n + 1) : i = n + 1 \/ i \in 0..n  BY <1>2
  <2>6. g \in [0..(n + 1) -> [Pid -> Nat]]
    <3> HIDE DEF n, last
    <3>1. QED  BY <2>3, <2>4, <2>5
  <2>7. /\ g[n + 1] = last
        /\ \A i \in 0..n : g[i] = f[i]
    <3>1. n + 1 \in 0..(n + 1) /\ \A i \in 0..n : i \in 0..(n + 1) /\ i # n + 1  BY <1>2
    <3> HIDE DEF n, last
    <3>2. QED  BY <3>1
  <2>8. ASSUME NEW q \in Pid PROVE CC_Procs'[q] <= g[0][q]
    <3>1. g[0] = f[0]  BY <1>2, <2>7
    <3>2. QED  BY <2>2, <3>1 DEF Bounds
  <2> HIDE DEF g
  <2>9. ASSUME NEW i \in 1..(n + 1), NEW q \in Pid
        PROVE  Reads(g[i - 1][q], CC_Report'[i], q) <= g[i][q]
    <3>1. CASE i = n + 1
      <4>1. g[i - 1] = f[n]  BY <1>2, <2>7, <3>1
      <4>2. g[i][q] = Reads(f[n][q], m, q)  BY <2>7, <3>1
      <4>3. Reads(f[n][q], m, q) \in Nat  BY <2>4
      <4> HIDE DEF n, last
      <4>4. QED  BY <1>2, <3>1, <4>1, <4>2, <4>3
    <3>2. CASE i # n + 1
      <4>1. i \in 1..n /\ i \in 0..n /\ i - 1 \in 0..n  BY <1>2, <3>2
      <4>2. Reads(f[i - 1][q], CC_Report[i], q) <= f[i][q]  BY <2>2, <4>1 DEF Bounds
      <4> HIDE DEF n, last
      <4>3. QED  BY <1>2, <2>7, <4>1, <4>2
    <3>3. QED  BY <3>1, <3>2
  <2>10. ASSUME NEW q \in Pid PROVE g[n + 1][q] <= spare[q] + One(q)'
    <3>1. f[n][q] \in Nat /\ spare[q] \in Nat  BY <2>3
    <3>2. f[n][q] <= spare[q] + One(q)  BY <2>2 DEF Bounds
    <3>3. Reads(f[n][q], m, q) <= spare[q] + One(q)'  BY <3>1, <3>2
    <3>4. g[n + 1][q] = Reads(f[n][q], m, q)  BY <2>7
    <3>5. QED  BY <3>3, <3>4
  <2> HIDE DEF n
  <2>11. \E h : Bounds(h, spare)'
    <3> DEFINE k == Len(CC_Report')
    <3>1. k = n + 1  BY <1>2
    <3> HIDE DEF k
    <3> PICK h : h = g  OBVIOUS
    <3>2. h \in [0..k -> [Pid -> Nat]]  BY <3>1, <2>6
    <3>3. \A i \in 1..k : \A q \in Pid : Reads(h[i - 1][q], CC_Report'[i], q) <= h[i][q]
      BY <3>1, <2>9
    <3>4. \A q \in Pid : h[k][q] <= spare[q] + One(q)'  BY <3>1, <2>10
    <3>5. \A q \in Pid : CC_Procs'[q] <= h[0][q]  BY <2>8
    <3>6. Bounds(h, spare)'  BY <3>2, <3>3, <3>4, <3>5 DEF Bounds, k
    <3>7. QED  BY <3>6
  <2>12. QED  BY <2>1, <2>11
<1>5. Room'  BY <1>1, <1>3, RoomStays DEF LInv
<1>6. QED  BY <1>4, <1>5 DEF LInv

\* The loop of cleanup_zombis found room: of the children that exist at most
\* losts more than the connection caches do not count.
LEMMA FindsRoom ==
  ASSUME IInv, Ledger, ~Restarts, CC_Report = <<>>, ~Full(CC_Procs)
  PROVE  Cardinality(Serving) < MAX_DELEGATE + losts
<1>1. /\ CC_Procs \in [Pid -> Nat] /\ losts \in Nat /\ MAX_DELEGATE \in Nat
      /\ NUM_CHILDREN = Cardinality(Born)
  BY LimitAssumption, Counting DEF IInv, TypeOK
<1>2. PICK spare \in [Pid -> Nat] : CC_Active(spare) <= losts /\ \E f : Bounds(f, spare)
  BY DEF Ledger
<1>3. PICK f : Bounds(f, spare)  BY <1>2
<1>4. Len(CC_Report) = 0 /\ f \in [0..0 -> [Pid -> Nat]]
  <2>1. Len(CC_Report) = 0  OBVIOUS
  <2>2. QED  BY <1>3, <2>1 DEF Bounds
<1>5. ASSUME NEW p \in Pid PROVE CC_Procs[p] <= spare[p] + (IF p \in Caches THEN 1 ELSE 0)
  <2>1. CC_Procs[p] <= f[0][p] /\ f[0][p] <= spare[p] + One(p)  BY <1>3, <1>4 DEF Bounds
  <2>2. CC_Procs[p] \in Nat /\ f[0][p] \in Nat /\ spare[p] \in Nat  BY <1>1, <1>4
  <2>3. QED  BY <2>1, <2>2 DEF One
<1>6. /\ CC_Active(CC_Procs) \in Nat /\ CC_Active(spare) \in Nat
      /\ CC_Active(CC_Procs) <= CC_Active(spare) + Cardinality(Caches)
  BY <1>1, <1>5, Sets, ActiveBound
<1>7. ~(MAX_DELEGATE + CC_Active(CC_Procs) <= NUM_CHILDREN)  BY DEF Full
<1>8. Cardinality(Serving) + Cardinality(Caches) <= Cardinality(Born)
  <2>1. Serving \cap Caches = {} /\ Serving \cup Caches \subseteq Born
    BY DEF Serving, Caches, Born, Is
  <2>2. IsFiniteSet(Serving) /\ IsFiniteSet(Caches)  BY Sets, Finite, FS_Subset
  <2>3. Cardinality(Serving \cup Caches) =
          Cardinality(Serving) + Cardinality(Caches) - Cardinality(Serving \cap Caches)
    BY <2>2, FS_Union
  <2>4. Cardinality(Serving \cap Caches) = 0  BY <2>1, FS_EmptySet
  <2>5. Cardinality(Serving \cup Caches) <= Cardinality(Born)  BY <2>1, Finite, FS_Subset
  <2>6. QED  BY <2>3, <2>4, <2>5, Sets
<1>9. Cardinality(Born) \in Nat  BY Finite
<1>10. QED  BY <1>1, <1>2, <1>6, <1>7, <1>8, <1>9, Sets

\* The tests of cleanup_zombis.
LEMMA TestLedger ==
  ASSUME IInv, IInv', LInv, NumTest \/ FullTest
  PROVE  LInv'
<1>1. /\ UNCHANGED <<proc, CC_Report, CC_Procs, losts, ret>> /\ CC_Report = <<>>
      /\ pc \in {"num", "full"} /\ ret \in Ret
  BY DEF NumTest, FullTest, Goto, counts, bounds, IInv, TypeOK, Ret
<1>2. Restarts => Restarts'
  BY <1>1 DEF NumTest, FullTest, Goto, Restarts, Cleaning
<1>3. CASE Full(CC_Procs)
  <2>1. ~Chosen'  BY <1>3 DEF NumTest, FullTest, Goto, Chosen
  <2>2. QED  BY <1>1, <1>2, <2>1, MainMoves
<1>4. CASE ~Full(CC_Procs)
  <2>1. Serving' = Serving /\ Caches' = Caches  BY <1>1 DEF Serving, Is, Caches
  <2>2. Room'
    <3> SUFFICES ASSUME Chosen' PROVE Cardinality(Serving') < MAX_DELEGATE + losts'
      BY DEF Room
    <3>1. ~Restarts  BY <1>2 DEF Chosen
    <3>2. QED  BY <1>1, <1>4, <2>1, <3>1, FindsRoom DEF LInv
  <2>3. Ledger'
    <3>1. \A q \in Pid : One(q)' = One(q)  BY <2>1 DEF One
    <3>2. \A f, spare : Bounds(f, spare) => Bounds(f, spare)'  BY <1>1, <3>1 DEF Bounds
    <3>3. QED  BY <1>1, <1>2, <3>2 DEF LInv, Ledger
  <2>4. QED  BY <2>2, <2>3 DEF LInv
<1>5. QED  BY <1>3, <1>4

\* The steps of main that change no process.
LEMMA LoopLedger ==
  ASSUME IInv, IInv', LInv,
         \/ Reaped \/ FullLog \/ (FullWait /\ UNCHANGED <<proc, counts, quiet>>)
         \/ AcceptTimeout \/ AcceptAlone \/ AcceptLock \/ LockedOut \/ AcceptYield
         \/ AcceptClient \/ ForkFails \/ BreakWait \/ Sighup \/ Arrive \/ Defreeze
  PROVE  LInv'
<1>1. UNCHANGED <<proc, CC_Report, CC_Procs, losts>>
  BY DEF Reaped, FullLog, FullWait, AcceptTimeout, AcceptAlone, AcceptLock, LockedOut,
         AcceptYield, AcceptClient, ForkFails, BreakWait, Sighup, Arrive, Defreeze, counts, bounds
<1>2. CASE Reaped \/ FullLog \/ FullWait
  <2>1. /\ ret' = ret /\ ret \in Ret /\ pc \in {"reap", "log", "fullwait"}
        /\ \/ pc' \in {"num", "full"}
           \/ pc = "log" /\ pc' = ret
    BY <1>2 DEF Reaped, FullLog, FullWait, Goto, IInv, TypeOK, Ret
  <2>2. (Restarts => Restarts') /\ (Chosen' => Chosen)
    BY <2>1 DEF Restarts, Chosen, Cleaning, Ret
  <2>3. QED  BY <1>1, <2>2, MainMoves
<1>3. CASE \/ AcceptTimeout \/ AcceptAlone \/ AcceptLock \/ LockedOut \/ AcceptYield
           \/ AcceptClient \/ ForkFails \/ BreakWait \/ Sighup
  <2>1. /\ pc \in {"accept", "locked", "accepting", "fork", "break1"}
        /\ pc' \in {"reap", "accepting", "locked", "fork", "hup"}
    BY <1>3 DEF AcceptTimeout, AcceptAlone, AcceptLock, LockedOut, AcceptYield, AcceptClient,
                ForkFails, BreakWait, Sighup, Goto, Cleanup
  <2>2. (Restarts => Restarts') /\ (Chosen' => Chosen)
    BY <2>1 DEF Restarts, Chosen, Cleaning
  <2>3. QED  BY <1>1, <2>2, MainMoves
<1>4. CASE Arrive \/ Defreeze
  <2>1. Restarts' = Restarts /\ Chosen' = Chosen
    BY <1>4 DEF Arrive, Defreeze, main, Restarts, Chosen
  <2>2. QED  BY <1>1, <2>1, MainMoves
<1>5. QED  BY <1>2, <1>3, <1>4

\* A child that is no connection cache does something, or main waits for one:
\* who serves goes on serving or ends.
LEMMA ChildLedger ==
  ASSUME IInv, IInv', LInv, NEW p \in Pid, NEW r \in Proc, proc' = [proc EXCEPT ![p] = r],
         CC_Report' = CC_Report, losts' = losts, \A q \in Pid : CC_Procs'[q] <= CC_Procs[q],
         proc[p].st = "cc" /\ ~proc[p].old => r.st = "cc" /\ ~r.old,
         r.st \in {"serve", "wait", "poll", "frozen"} =>
           proc[p].st \in {"serve", "wait", "poll", "frozen"},
         Restarts => Restarts', Chosen' => Chosen
  PROVE  LInv'
<1>1. proc'[p] = r /\ \A q \in Pid : q # p => proc'[q] = proc[q]
  BY DEF IInv, TypeOK
<1>2. Caches \subseteq Caches'  BY <1>1 DEF Caches
<1>3. Serving' \subseteq Serving  BY <1>1 DEF Serving, Is
<1>4. QED  BY <1>2, <1>3, CalmStep

\* main waits for a child that is dead.
LEMMA WaitLedger ==
  ASSUME IInv, IInv', LInv, NEW p \in Pid, proc[p].st = "dead", dec_nproc(p),
         \/ UNCHANGED main
         \/ pc = "fullwait" /\ Goto("full"),
         UNCHANGED <<CC_Report, bounds>>
  PROVE  LInv'
<1>1. /\ proc' = [proc EXCEPT ![p] = NoProc] /\ CC_Procs' = del_CC(CC_Procs, p)
      /\ CC_Procs \in [Pid -> Nat] /\ losts' = losts
  BY DEF dec_nproc, bounds, IInv, TypeOK
<1>2. \A q \in Pid : CC_Procs'[q] <= CC_Procs[q]
  <2>1. ASSUME NEW q \in Pid PROVE CC_Procs'[q] <= CC_Procs[q]
    <3>1. CC_Procs[q] \in Nat  BY <1>1
    <3>2. CC_Procs'[q] = IF q = p THEN (IF CC_Procs[q] > 0 THEN CC_Procs[q] - 1 ELSE 0)
                         ELSE CC_Procs[q]
      BY <1>1 DEF del_CC
    <3>3. QED  BY <3>1, <3>2
  <2>2. QED  BY <2>1
<1>3. (Restarts => Restarts') /\ (Chosen' => Chosen)
  BY DEF main, Goto, Restarts, Chosen, Cleaning
<1>4. QED  BY <1>1, <1>2, <1>3, Records, ChildLedger

\* A child that is no connection cache ends, or goes on.
LEMMA PlainLedger ==
  ASSUME IInv, IInv', LInv, NEW p \in Pid,
         \/ ServeEnd(p) \/ StickyTimeout(p) \/ sigHUPforAbort(p) \/ Abort(p) \/ Detach(p)
         \/ ServeNext(p) \/ StickyLock(p) \/ StickyAccept(p) \/ StickyUnlock(p)
         \/ Freeze(p) \/ Thaw(p)
  PROVE  LInv'
<1>1. /\ UNCHANGED <<CC_Procs, CC_Report, losts, pc, ret>>
      /\ proc[p].st \in {"serve", "wait", "poll", "frozen"}
  BY DEF ServeEnd, StickyTimeout, sigHUPforAbort, Abort, Detach, ServeNext, StickyLock,
         StickyAccept, StickyUnlock, Freeze, Thaw, counts, main, bounds
<1>2. PICK r \in Proc : proc' = [proc EXCEPT ![p] = r]
  <2>1. CASE ServeEnd(p) \/ StickyTimeout(p) \/ sigHUPforAbort(p) \/ Abort(p)
    BY <2>1, Records DEF ServeEnd, StickyTimeout, sigHUPforAbort, Abort, Ends
  <2>2. CASE Detach(p)
    <3>1. [proc[p] EXCEPT !.det = TRUE] \in Proc  BY Mine DEF Proc
    <3>2. QED  BY <2>2, <3>1 DEF Detach
  <2>3. CASE \/ ServeNext(p) \/ StickyLock(p) \/ StickyAccept(p) \/ StickyUnlock(p)
             \/ Freeze(p) \/ Thaw(p)
    <3>1. \E x \in Stat : Turns(p, x)
      BY <2>3 DEF ServeNext, StickyLock, StickyAccept, StickyUnlock, Freeze, Thaw, Stat
    <3>2. QED  BY <3>1, Turned DEF Turns
  <2>4. QED  BY <2>1, <2>2, <2>3
<1>3. Restarts' = Restarts /\ Chosen' = Chosen  BY <1>1 DEF Restarts, Chosen
<1>4. \A q \in Pid : CC_Procs'[q] <= CC_Procs[q]  BY <1>1 DEF IInv, TypeOK
<1>5. QED  BY <1>1, <1>2, <1>3, <1>4, ChildLedger

\* A child becomes a connection cache; its message may not fit.
LEMMA StartLedger ==
  ASSUME IInv, IInv', LInv, NEW p \in Pid, StartCC(p)
  PROVE  LInv'
<1> DEFINE r == [proc[p] EXCEPT !.st = "cc"]
           m == [pid |-> p, start |-> TRUE]
<1>1. /\ UNCHANGED <<CC_Procs, losts, pc, ret>> /\ proc[p].st = "serve"
      /\ proc' = [proc EXCEPT ![p] = r] /\ putCCinfo(p, TRUE)
  BY DEF StartCC, Turns, counts, main, bounds
<1>2. r \in Proc /\ r.st = "cc" /\ r.old = proc[p].old  BY Turned DEF Stat
<1>3. proc'[p] = r /\ \A q \in Pid : q # p => proc'[q] = proc[q]
  BY <1>1 DEF IInv, TypeOK
<1>4. Restarts' = Restarts /\ Chosen' = Chosen  BY <1>1 DEF Restarts, Chosen
<1>5. CASE Fits(p)
  <2>1. m \in Message /\ CC_Report' = Append(CC_Report, m) /\ ~proc[p].old
    BY <1>1, <1>5 DEF putCCinfo, Fits, Message
  <2> HIDE DEF r
  <2>2. Serving' \subseteq Serving  BY <1>2, <1>3 DEF Serving, Is
  <2>3. One(p) = 0 /\ One(p)' = 1 /\ \A q \in Pid : q # p => One(q)' = One(q)
    BY <1>1, <1>2, <1>3, <2>1 DEF One, Caches
  <2>4. ASSUME NEW q \in Pid, NEW n \in Nat, NEW k \in Nat, n <= k + One(q)
        PROVE  Reads(n, m, q) <= k + One(q)'
    <3>1. CASE q = p
      <4>1. Reads(n, m, q) = n + 1  BY <3>1 DEF Reads
      <4>2. QED  BY <2>3, <2>4, <3>1, <4>1
    <3>2. CASE q # p
      <4>1. Reads(n, m, q) = n  BY <3>2 DEF Reads
      <4>2. QED  BY <2>3, <2>4, <3>2, <4>1
    <3>3. QED  BY <3>1, <3>2
  <2> HIDE DEF m
  <2>5. QED  BY <1>1, <2>1, <2>2, <2>4, WriteLedger
<1>6. CASE ~Fits(p)
  <2>1. CC_Report' = CC_Report  BY <1>1, <1>6 DEF putCCinfo
  <2>2. \A q \in Pid : CC_Procs'[q] <= CC_Procs[q]  BY <1>1 DEF IInv, TypeOK
  <2> HIDE DEF r
  <2>3. QED  BY <1>1, <1>2, <1>4, <2>1, <2>2, ChildLedger
<1>7. QED  BY <1>5, <1>6

\* A connection cache ends and says so.
LEMMA FinishLedger ==
  ASSUME IInv, IInv', LInv, NEW p \in Pid, FinishCC(p)
  PROVE  LInv'
<1> DEFINE m == [pid |-> p, start |-> FALSE]
<1>1. /\ UNCHANGED <<CC_Procs, losts, pc, ret>> /\ proc[p].st = "cc"
      /\ proc' = [proc EXCEPT ![p] = Dead] /\ putCCinfo(p, FALSE)
      /\ Fits(p) \/ proc[p].old
  BY DEF FinishCC, Ends, counts, main, bounds
<1>2. Dead \in Proc /\ Dead.st = "dead"  BY Records
<1>3. proc'[p] = Dead /\ \A q \in Pid : q # p => proc'[q] = proc[q]
  BY <1>1 DEF IInv, TypeOK
<1>4. Restarts' = Restarts /\ Chosen' = Chosen  BY <1>1 DEF Restarts, Chosen
<1>5. CASE Fits(p)
  <2>1. m \in Message /\ CC_Report' = Append(CC_Report, m) /\ ~proc[p].old
    BY <1>1, <1>5 DEF putCCinfo, Fits, Message
  <2>2. Serving' \subseteq Serving  BY <1>2, <1>3 DEF Serving, Is
  <2>3. One(p) = 1 /\ One(p)' = 0 /\ \A q \in Pid : q # p => One(q)' = One(q)
    BY <1>1, <1>2, <1>3, <2>1 DEF One, Caches
  <2>4. ASSUME NEW q \in Pid, NEW n \in Nat, NEW k \in Nat, n <= k + One(q)
        PROVE  Reads(n, m, q) <= k + One(q)'
    <3>1. CASE q = p
      <4>1. Reads(n, m, q) = IF n > 0 THEN n - 1 ELSE 0  BY <3>1 DEF Reads
      <4>2. QED  BY <2>3, <2>4, <3>1, <4>1
    <3>2. CASE q # p
      <4>1. Reads(n, m, q) = n  BY <3>2 DEF Reads
      <4>2. QED  BY <2>3, <2>4, <3>2, <4>1
    <3>3. QED  BY <3>1, <3>2
  <2> HIDE DEF m
  <2>5. QED  BY <1>1, <2>1, <2>2, <2>4, WriteLedger
<1>6. CASE ~Fits(p)
  <2>1. CC_Report' = CC_Report /\ proc[p].old  BY <1>1, <1>6 DEF putCCinfo
  <2>2. \A q \in Pid : CC_Procs'[q] <= CC_Procs[q]  BY <1>1 DEF IInv, TypeOK
  <2>3. QED  BY <1>1, <1>2, <1>4, <2>1, <2>2, ChildLedger
<1>7. QED  BY <1>5, <1>6

\* A connection cache ends without a word: it leaves one spare entry.
LEMMA AbortLedger ==
  ASSUME IInv, IInv', LInv, NEW p \in Pid, AbortCC(p)
  PROVE  LInv'
<1>1. /\ UNCHANGED <<CC_Procs, CC_Report, pc, ret>> /\ proc[p].st = "cc" /\ losts' = losts + 1
      /\ proc' = [proc EXCEPT ![p] = Dead] /\ losts \in Nat
  BY LimitAssumption DEF AbortCC, Ends, counts, main, IInv, TypeOK
<1>2. Dead \in Proc /\ Dead.st = "dead"  BY Records
<1>3. proc'[p] = Dead /\ \A q \in Pid : q # p => proc'[q] = proc[q]
  BY <1>1 DEF IInv, TypeOK
<1>4. Restarts' = Restarts /\ Chosen' = Chosen  BY <1>1 DEF Restarts, Chosen
<1>5. Serving' \subseteq Serving  BY <1>2, <1>3 DEF Serving, Is
<1>6. \A q \in Pid : /\ One(q) \in {0, 1} /\ One(q)' \in {0, 1}
                     /\ q # p => One(q)' = One(q)
  BY <1>3 DEF One, Caches
<1>7. Ledger'
  <2> SUFFICES ASSUME ~Restarts'
               PROVE  \E spare \in [Pid -> Nat] : /\ CC_Active(spare) <= losts'
                                                  /\ \E f : Bounds(f, spare)'
    BY DEF Ledger
  <2>1. PICK spare \in [Pid -> Nat] : CC_Active(spare) <= losts /\ \E f : Bounds(f, spare)
    BY <1>4 DEF LInv, Ledger
  <2>2. PICK f : Bounds(f, spare)  BY <2>1
  <2>3. PICK more : more = add_CC(spare, p)  OBVIOUS
  <2>4. /\ more \in [Pid -> Nat] /\ CC_Active(spare) \in Nat /\ CC_Active(more) \in Nat
        /\ CC_Active(more) <= CC_Active(spare) + 1
    BY <2>3, ActiveAdd
  <2>5. CC_Active(more) <= losts'  BY <1>1, <2>1, <2>4
  <2>6. ASSUME NEW q \in Pid PROVE f[Len(CC_Report)][q] <= more[q] + One(q)'
    <3>1. Len(CC_Report) \in 0..Len(CC_Report)  BY DEF IInv, TypeOK
    <3>2. f[Len(CC_Report)][q] \in Nat /\ spare[q] \in Nat  BY <2>2, <3>1 DEF Bounds
    <3>3. f[Len(CC_Report)][q] <= spare[q] + One(q)  BY <2>2 DEF Bounds
    <3>4. more[q] = IF q = p THEN spare[q] + 1 ELSE spare[q]  BY <2>3 DEF add_CC
    <3>5. QED  BY <1>6, <3>2, <3>3, <3>4
  <2>7. Bounds(f, more)'  BY <1>1, <2>2, <2>6 DEF Bounds
  <2>8. QED  BY <2>4, <2>5, <2>7
<1>8. Room'  BY <1>1, <1>4, <1>5, RoomStays DEF LInv
<1>9. QED  BY <1>7, <1>8 DEF LInv

\* A server is forked; cleanup_zombis comes before the next.
LEMMA ForkLedger ==
  ASSUME IInv, IInv', LInv, NEW p \in Pid, NEW sticky \in BOOLEAN, ForkServer(p, sticky)
  PROVE  LInv' /\ Cardinality(Serving') <= MAX_DELEGATE + losts
<1>1. /\ pc = "fork" /\ pc' = "reap" /\ ret' = "accept" /\ proc[p].st = "none"
      /\ proc' = [proc EXCEPT ![p] = NewProc(sticky)]
      /\ UNCHANGED <<CC_Procs, CC_Report, losts>>
  BY DEF ForkServer, Cleanup, bounds
<1>2. NewProc(sticky) \in Proc /\ NewProc(sticky).st = "serve"  BY Records
<1>3. proc'[p] = NewProc(sticky) /\ \A q \in Pid : q # p => proc'[q] = proc[q]
  BY <1>1 DEF IInv, TypeOK
<1>4. Caches' = Caches  BY <1>1, <1>2, <1>3 DEF Caches
<1>5. Serving' = Serving \cup {p} /\ p \notin Serving  BY <1>1, <1>2, <1>3 DEF Serving, Is
<1>6. ~Restarts /\ Chosen /\ ~Chosen'  BY <1>1 DEF Restarts, Chosen, Cleaning
<1>7. Ledger'
  <2>1. \A q \in Pid : One(q)' = One(q)  BY <1>4 DEF One
  <2>2. \A f, spare : Bounds(f, spare) => Bounds(f, spare)'  BY <1>1, <2>1 DEF Bounds
  <2>3. QED  BY <1>1, <1>6, <2>2 DEF LInv, Ledger
<1>8. Room'  BY <1>6 DEF Room
<1>9. Cardinality(Serving') <= MAX_DELEGATE + losts
  <2>1. IsFiniteSet(Serving)  BY Sets, Finite, FS_Subset
  <2>2. Cardinality(Serving') = Cardinality(Serving) + 1  BY <1>5, <2>1, FS_AddElement
  <2>3. Cardinality(Serving) < MAX_DELEGATE + losts  BY <1>6 DEF LInv, Room
  <2>4. losts \in Nat /\ MAX_DELEGATE \in Nat /\ Cardinality(Serving) \in Nat
    BY LimitAssumption, Sets DEF IInv, TypeOK
  <2>5. QED  BY <2>2, <2>3, <2>4
<1>10. QED  BY <1>7, <1>8, <1>9 DEF LInv

\* Frozen Stickies are signalled and killed, and the server restarts: an exec
\* begins with empty lists.
LEMMA RestartLedger ==
  ASSUME IInv, IInv', LInv,
         \/ \E known \in Known : BreakHup(known) \/ BreakKill(known) \/ Hup(known)
         \/ Exec
  PROVE  LInv'
<1>1. ASSUME Restarts' PROVE LInv'  BY <1>1 DEF LInv, Ledger, Room, Chosen
<1>2. ASSUME NEW known \in Known, BreakHup(known) PROVE LInv'
  <2>1. /\ UNCHANGED <<CC_Procs, CC_Report, losts>> /\ StickyKill(Targets(known))
        /\ pc = "break2" /\ pc' \in {"reap", "break3"}
    BY <1>2 DEF BreakHup, counts, bounds, Goto, Cleanup
  <2>2. Targets(known) \in SUBSET StickyProcs  BY DEF Targets
  <2>3. \A q \in Pid : proc'[q].st = proc[q].st /\ proc'[q].old = proc[q].old
    BY <2>1, <2>2, Killed
  <2>4. Caches' = Caches /\ Serving' = Serving  BY <2>3 DEF Caches, Serving, Is
  <2>5. \A q \in Pid : CC_Procs'[q] <= CC_Procs[q]  BY <2>1 DEF IInv, TypeOK
  <2>6. (Restarts => Restarts') /\ (Chosen' => Chosen)
    BY <2>1 DEF Restarts, Chosen, Cleaning
  <2>7. QED  BY <2>1, <2>4, <2>5, <2>6, CalmStep
<1>3. ASSUME NEW known \in Known, BreakKill(known) PROVE LInv'
  <2>1. CASE Holders = {}
    <3>1. /\ UNCHANGED <<proc, CC_Procs, CC_Report, losts>> /\ pc = "break3" /\ pc' = "reap"
      BY <1>3, <2>1 DEF BreakKill, counts, bounds, Cleanup
    <3>2. (Restarts => Restarts') /\ (Chosen' => Chosen)
      BY <3>1 DEF Restarts, Chosen, Cleaning
    <3>3. QED  BY <3>1, <3>2, MainMoves
  <2>2. CASE Holders # {}
    <3>1. Goto("hup") \/ Cleanup("hup")  BY <1>3, <2>2 DEF BreakKill
    <3>2. Restarts'  BY <3>1 DEF Goto, Cleanup, Restarts, Cleaning
    <3>3. QED  BY <1>1, <3>2
  <2>3. QED  BY <2>1, <2>2
<1>4. ASSUME NEW known \in Known, Hup(known) PROVE LInv'
  <2>1. Restarts'  BY <1>4 DEF Hup, Cleanup, Restarts, Cleaning
  <2>2. QED  BY <1>1, <2>1
<1>5. CASE Exec
  <2>1. /\ CC_Procs' = [p \in Pid |-> 0] /\ CC_Report' = <<>> /\ losts' = losts
        /\ pc' = "reap" /\ ret' = "accept" /\ losts \in Nat
    BY <1>5, LimitAssumption DEF Exec, Cleanup, bounds, IInv, TypeOK
  <2>2. Room'  BY <2>1 DEF Room, Chosen
  <2>3. Ledger'
    <3>1. PICK none : none = [p \in Pid |-> 0]  OBVIOUS
    <3>2. PICK f : f = [i \in 0..0 |-> none]  OBVIOUS
    <3>3. /\ none \in [Pid -> Nat] /\ CC_Active(none) <= losts'
      BY <2>1, <3>1, ActiveNone
    <3>4. Len(CC_Report') = 0  BY <2>1
    <3>5. f[0] = none /\ f \in [0..0 -> [Pid -> Nat]]  BY <3>2, <3>3
    <3>6. \A q \in Pid : /\ CC_Procs'[q] <= f[0][q]
                         /\ f[0][q] <= none[q] + One(q)'
      BY <2>1, <3>1, <3>5 DEF One
    <3>7. Bounds(f, none)'  BY <3>4, <3>5, <3>6 DEF Bounds
    <3>8. QED  BY <3>3, <3>7 DEF Ledger
  <2>4. QED  BY <2>2, <2>3 DEF LInv
<1>6. QED  BY <1>2, <1>3, <1>4, <1>5

\* In the beginning there are no entries.
LEMMA NoEntries == Init => LInv
<1> SUFFICES ASSUME Init PROVE LInv  OBVIOUS
<1>1. /\ CC_Procs = [p \in Pid |-> 0] /\ CC_Report = <<>> /\ losts = 0 /\ pc = "reap"
  BY DEF Init
<1>2. Room  BY <1>1 DEF Room, Chosen
<1>3. PICK none : none = [p \in Pid |-> 0]  OBVIOUS
<1>4. PICK f : f = [i \in 0..0 |-> none]  OBVIOUS
<1>5. none \in [Pid -> Nat] /\ CC_Active(none) <= losts  BY <1>1, <1>3, ActiveNone
<1>6. Len(CC_Report) = 0  BY <1>1
<1>7. f[0] = none /\ f \in [0..0 -> [Pid -> Nat]]  BY <1>4, <1>5
<1>8. \A q \in Pid : CC_Procs[q] <= f[0][q] /\ f[0][q] <= none[q] + One(q)
  BY <1>1, <1>3, <1>7 DEF One
<1>9. Bounds(f, none)  BY <1>6, <1>7, <1>8 DEF Bounds
<1>10. QED  BY <1>2, <1>5, <1>9 DEF LInv, Ledger

\* Only a fork makes NUM_CHILDREN bigger, and every step keeps the room.
LEMMA LedgerSteps ==
  ASSUME IInv, IInv', LInv, [Next]_vars
  PROVE  /\ LInv'
         /\ NUM_CHILDREN' > NUM_CHILDREN => Cardinality(Serving') <= MAX_DELEGATE + losts
<1> DEFINE Keeps == LInv' /\ (NUM_CHILDREN' > NUM_CHILDREN =>
                               Cardinality(Serving') <= MAX_DELEGATE + losts)
<1>0. NUM_CHILDREN \in Nat  BY Finite DEF IInv, TypeOK
<1>1. ASSUME NUM_CHILDREN' = NUM_CHILDREN, LInv' PROVE Keeps  BY <1>0, <1>1
<1>2. ASSUME NEW p \in Pid, dec_nproc(p), LInv' PROVE Keeps
  <2>1. NUM_CHILDREN' = IF NUM_CHILDREN > 0 THEN NUM_CHILDREN - 1 ELSE 0
    BY <1>2 DEF dec_nproc
  <2>2. ~(NUM_CHILDREN' > NUM_CHILDREN)  BY <1>0, <2>1
  <2>3. QED  BY <1>2, <2>2
<1>3. ASSUME NEW p \in Pid, Reap(p) \/ ForkReap(p) PROVE Keeps
  <2>1. LInv'  BY <1>3, WaitLedger DEF Reap, ForkReap
  <2>2. QED  BY <1>2, <1>3, <2>1 DEF Reap, ForkReap
<1>4. ASSUME FullWait PROVE Keeps
  <2>1. ASSUME NEW p \in Is({"dead"}), dec_nproc(p) PROVE Keeps
    <3>1. p \in Pid /\ proc[p].st = "dead"  BY DEF Is
    <3>2. LInv'  BY <1>4, <2>1, <3>1, WaitLedger DEF FullWait
    <3>3. QED  BY <1>2, <2>1, <3>1, <3>2
  <2>2. CASE UNCHANGED <<proc, counts, quiet>>
    <3>1. LInv'  BY <1>4, <2>2, LoopLedger
    <3>2. QED  BY <1>1, <2>2, <3>1 DEF counts
  <2>3. QED  BY <1>4, <2>1, <2>2 DEF FullWait
<1>5. ASSUME ReadCC \/ NumTest \/ FullTest PROVE Keeps
  <2>1. NUM_CHILDREN' = NUM_CHILDREN  BY <1>5 DEF ReadCC, NumTest, FullTest, counts
  <2>2. LInv'  BY <1>5, ReadLedger, TestLedger
  <2>3. QED  BY <1>1, <2>1, <2>2
<1>6. ASSUME \/ Reaped \/ FullLog \/ AcceptTimeout \/ AcceptAlone \/ AcceptLock \/ LockedOut
             \/ AcceptYield \/ AcceptClient \/ ForkFails \/ BreakWait \/ Sighup \/ Arrive
             \/ Defreeze
      PROVE  Keeps
  <2>1. NUM_CHILDREN' = NUM_CHILDREN
    BY <1>6 DEF Reaped, FullLog, AcceptTimeout, AcceptAlone, AcceptLock, LockedOut, AcceptYield,
                AcceptClient, ForkFails, BreakWait, Sighup, Arrive, Defreeze, counts
  <2>2. LInv'  BY <1>6, LoopLedger
  <2>3. QED  BY <1>1, <2>1, <2>2
<1>7. ASSUME NEW p \in Pid, NEW sticky \in BOOLEAN, ForkServer(p, sticky) PROVE Keeps
  BY <1>7, ForkLedger
<1>8. ASSUME \/ \E known \in Known : BreakHup(known) \/ BreakKill(known) \/ Hup(known)
             \/ Exec
      PROVE  Keeps
  <2>1. NUM_CHILDREN' = NUM_CHILDREN  BY <1>8 DEF BreakHup, BreakKill, Hup, Exec, counts
  <2>2. LInv'  BY <1>8, RestartLedger
  <2>3. QED  BY <1>1, <2>1, <2>2
<1>9. ASSUME NEW p \in Pid, \/ Child(p) \/ Detach(p) \/ StickyUnlock(p) \/ StartCC(p)
                            \/ Freeze(p) \/ Thaw(p) \/ Abort(p) \/ AbortCC(p)
      PROVE  Keeps
  <2>1. NUM_CHILDREN' = NUM_CHILDREN
    BY <1>9 DEF Child, ServeEnd, ServeNext, StickyLock, StickyAccept, StickyTimeout,
                sigHUPforAbort, FinishCC, Detach, StickyUnlock, StartCC, Freeze, Thaw, Abort,
                AbortCC, counts
  <2>2. LInv'  BY <1>9, PlainLedger, StartLedger, FinishLedger, AbortLedger DEF Child
  <2>3. QED  BY <1>1, <2>1, <2>2
<1>10. ASSUME UNCHANGED vars PROVE Keeps
  <2>1. /\ UNCHANGED <<proc, CC_Report, CC_Procs, losts>> /\ NUM_CHILDREN' = NUM_CHILDREN
        /\ Restarts' = Restarts /\ Chosen' = Chosen
    BY <1>10 DEF vars, counts, main, bounds, Restarts, Chosen
  <2>2. LInv'  BY <2>1, MainMoves
  <2>3. QED  BY <1>1, <2>1, <2>2
<1> HIDE DEF Keeps
<1>11. ASSUME Main PROVE Keeps
  <2>1. ASSUME \E p \in Pid : Reap(p) \/ ForkReap(p) PROVE Keeps  BY <1>3, <2>1
  <2>2. ASSUME \E p \in Pid, sticky \in BOOLEAN : ForkServer(p, sticky) PROVE Keeps
    BY <1>7, <2>2
  <2>3. QED  BY <1>11, <2>1, <2>2, <1>4, <1>5, <1>6, <1>8 DEF Main
<1>12. Keeps
  <2>1. ASSUME \E p \in Pid : \/ Child(p) \/ Detach(p) \/ StickyUnlock(p) \/ StartCC(p)
                              \/ Freeze(p) \/ Thaw(p) \/ Abort(p) \/ AbortCC(p)
        PROVE  Keeps
    BY <1>9, <2>1
  <2>2. QED  BY <1>6, <1>10, <1>11, <2>1 DEF Next
<1>13. QED  BY <1>12 DEF Keeps

(***************************************************************************)
(* When a server is forked, no more than MAX_DELEGATE serve, apart from    *)
(* one more for each connection cache that ended without a word: whatever  *)
(* num_CC has read, whatever did not fit in CC_Report, and although wait() *)
(* may come before the messages of the child it returns.                   *)
(***************************************************************************)
THEOREM ServersLimited == Spec => Limited
<1>1. IInv /\ IInv' /\ LInv /\ [Next]_vars => LInv'  BY LedgerSteps
<1>2. IInv /\ IInv' /\ LInv /\ [Next]_vars
        => [NUM_CHILDREN' > NUM_CHILDREN => Cardinality(Serving') <= MAX_DELEGATE + losts]_vars
  BY LedgerSteps
<1>3. QED  BY <1>1, <1>2, NoEntries, Inductive, PTL DEF Spec, Limited

=============================================================================

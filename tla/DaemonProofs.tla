---------------------------- MODULE DaemonProofs ----------------------------
(***************************************************************************)
(* Proofs about the daemons of one key: the inductive invariant DaemonInv, *)
(* from it that one daemon listens, that the pid file names it and that an *)
(* idle exit spares clients, and that the idle timer keeps the promise of  *)
(* IdleExit.                                                               *)
(***************************************************************************)
EXTENDS Daemon, TLAPS, FiniteSetTheorems, WellFoundedInduction

ConnEvent == {"HelloPassed", "HelloFailed", "Ended"}
DaemonState == [pc : DaemonPC, init : {"pending", "ready", "failed"}, why : Why]
ConnState == [by : Proxy \cup Daemons \cup {None}, to : Daemons \cup {None},
              phase : {"free", "backlog", "hello", "active", "ended"}, open : BOOLEAN]
ProxyState == [pc : ProxyPC, conn : Conn \cup {None}, child : Daemons \cup {None}]

\* Proxies, daemons and None are told apart.
LEMMA Names ==
  /\ Daemons \subseteq Nat /\ None \notin Daemons /\ None \notin Proxy
  /\ Conn \subseteq Nat /\ None \notin Conn
  /\ \A p \in Proxy : p \notin Daemons
  BY DaemonBounds DEF Daemons, Conn, None

LEMMA MinIsMember ==
  ASSUME NEW S \in SUBSET Nat, S # {}
  PROVE  Min(S) \in S
<1> DEFINE Less == {ss \in Nat \X Nat : ss[1] < ss[2]}
<1>1. IsWellFoundedOn(Less, Nat)
  BY NatLessThanWellFounded, Zenon DEF OpToRel
<1>2. \A a, b \in Nat : a < b => <<a, b>> \in Less
  OBVIOUS
<1> HIDE DEF Less
<1>3. PICK x \in S : \A y \in S : ~(<<y, x>> \in Less)
  BY <1>1, WFMin
<1>4. \A y \in S : ~(y < x)
  BY <1>2, <1>3
<1>5. \A y \in S : x =< y
  BY <1>4
<1> QED
  BY <1>5 DEF Min

LEMMA NewConnIsFree ==
  ASSUME FreeConn # {}
  PROVE  NewConn \in Conn /\ conn[NewConn].phase = "free"
  BY Names, MinIsMember DEF FreeConn, NewConn

LEMMA UnbornChild ==
  ASSUME Unborn # {}
  PROVE  Min(Unborn) \in Daemons /\ daemon[Min(Unborn)].pc = "unborn"
  BY Names, MinIsMember DEF Unborn
-----------------------------------------------------------------------------
(* The idle timer *)

\* Never both a deadline and a suspended one.
Single(t) == t.deadline # Off => t.suspended = Off

LEMMA TimerFields ==
  ASSUME NEW t \in Timer
  PROVE  /\ t.initOk \in BOOLEAN /\ t.inHello \in Nat /\ t.active \in Nat
         /\ t.deadline \in Instant \cup {Off} /\ t.suspended \in Instant \cup {Off}
  BY DEF Timer

LEMMA InstantNumbers == Instant \subseteq Nat /\ 0 \in Instant /\ Timeout \in Instant /\ Off \notin Instant
  BY TimeoutAssumption DEF Instant, Off

LEMMA UpdateArms ==
  ASSUME NEW t \in Timer, Single(t)
  PROVE  /\ Update(t) \in Timer
         /\ Update(t).initOk = t.initOk /\ Update(t).inHello = t.inHello
         /\ Update(t).active = t.active
         /\ Single(Update(t)) /\ (Update(t).deadline # Off => ShouldArm(t))
         /\ Countdown(Update(t)) =
              IF ShouldArm(t) THEN IF Countdown(t) = Off THEN Timeout ELSE Countdown(t)
              ELSE t.suspended
<1> USE InstantNumbers
<1>1. CASE ShouldArm(t) /\ t.deadline = Off
  <2> DEFINE x == IF t.suspended # Off THEN t.suspended ELSE Timeout
  <2>1. Update(t) = [t EXCEPT !.deadline = x, !.suspended = Off]
    BY <1>1 DEF Update
  <2>2. x \in Instant
    BY TimerFields
  <2>3. /\ Update(t) \in Timer
        /\ Update(t).initOk = t.initOk /\ Update(t).inHello = t.inHello
        /\ Update(t).active = t.active /\ Update(t).deadline = x /\ Update(t).suspended = Off
    BY <2>1, <2>2 DEF Timer
  <2> QED
    BY <1>1, <2>2, <2>3 DEF Single, Countdown
<1>2. CASE ~ShouldArm(t) /\ t.deadline # Off
  <2>1. Update(t) = [t EXCEPT !.deadline = Off]
    BY <1>2 DEF Update
  <2>2. /\ Update(t) \in Timer
        /\ Update(t).initOk = t.initOk /\ Update(t).inHello = t.inHello
        /\ Update(t).active = t.active /\ Update(t).deadline = Off
        /\ Update(t).suspended = t.suspended
    BY <2>1 DEF Timer
  <2> QED
    BY <1>2, <2>2 DEF Single, Countdown
<1>3. CASE ShouldArm(t) <=> t.deadline # Off
  <2>1. Update(t) = t
    BY <1>3 DEF Update
  <2> QED
    BY <1>3, <2>1 DEF Single, Countdown
<1>4. ShouldArm(t) \in BOOLEAN
  BY TimerFields DEF ShouldArm
<1> QED
  BY <1>1, <1>2, <1>3, <1>4

LEMMA AcceptedSuspends ==
  ASSUME NEW t \in Timer, Single(t)
  PROVE  /\ Accepted(t) \in Timer /\ Single(Accepted(t)) /\ ~ShouldArm(Accepted(t))
         /\ Accepted(t).initOk = t.initOk /\ Accepted(t).inHello = t.inHello + 1
         /\ Accepted(t).active = t.active /\ Accepted(t).deadline = Off
         /\ Accepted(t).suspended = Countdown(t)
<1> DEFINE x == IF t.deadline # Off THEN t.deadline ELSE t.suspended
           n == t.inHello + 1
<1>1. x \in Instant \cup {Off} /\ n \in Nat /\ n # 0
  BY TimerFields
<1>2. Accepted(t) = [t EXCEPT !.suspended = x, !.deadline = Off, !.inHello = n]
  BY DEF Accepted
<1> HIDE DEF x, n
<1>3. /\ Accepted(t) \in Timer /\ Accepted(t).initOk = t.initOk /\ Accepted(t).inHello = n
      /\ Accepted(t).active = t.active /\ Accepted(t).deadline = Off /\ Accepted(t).suspended = x
  BY <1>1, <1>2 DEF Timer
<1> QED
  BY <1>1, <1>3 DEF Single, ShouldArm, Countdown, x, n

LEMMA AdoptSuspends ==
  ASSUME NEW t \in Timer, Single(t), NEW n \in Nat \ {0}
  PROVE  /\ Adopt(t, n) \in Timer /\ Single(Adopt(t, n)) /\ ~ShouldArm(Adopt(t, n))
         /\ Adopt(t, n).initOk = t.initOk /\ Adopt(t, n).inHello = t.inHello + n
         /\ Adopt(t, n).active = t.active /\ Adopt(t, n).deadline = Off
         /\ Adopt(t, n).suspended = Countdown(t)
<1> DEFINE m == t.inHello + n
<1>1. m \in Nat /\ m # 0
  BY TimerFields
<1>2. Adopt(t, n) = [Accepted(t) EXCEPT !.inHello = m]
  BY DEF Adopt
<1> HIDE DEF m
<1>3. Accepted(t) \in Timer
  BY AcceptedSuspends
<1>4. /\ Adopt(t, n) \in Timer /\ Adopt(t, n).initOk = Accepted(t).initOk /\ Adopt(t, n).inHello = m
      /\ Adopt(t, n).active = Accepted(t).active /\ Adopt(t, n).deadline = Accepted(t).deadline
      /\ Adopt(t, n).suspended = Accepted(t).suspended
  BY <1>1, <1>2, <1>3 DEF Timer
<1> QED
  BY <1>1, <1>4, AcceptedSuspends DEF Single, ShouldArm, m

LEMMA InitSucceededArms ==
  ASSUME NEW t \in Timer
  PROVE  /\ InitSucceeded(t) \in Timer /\ InitSucceeded(t).initOk
         /\ InitSucceeded(t).inHello = t.inHello /\ InitSucceeded(t).active = t.active
         /\ InitSucceeded(t).deadline = t.deadline /\ InitSucceeded(t).suspended = t.suspended
  BY DEF InitSucceeded, Timer

LEMMA ApplyCounts ==
  ASSUME NEW t \in Timer, NEW event \in ConnEvent
  PROVE  /\ Apply(t, event) \in Timer
         /\ Apply(t, event).initOk = t.initOk /\ Apply(t, event).deadline = t.deadline
         /\ Apply(t, event).suspended = IF event = "HelloPassed" THEN Off ELSE t.suspended
         /\ Apply(t, event).inHello = IF event = "Ended" THEN t.inHello ELSE Decrement(t.inHello)
         /\ Apply(t, event).active = CASE event = "HelloPassed" -> t.active + 1
                                       [] event = "HelloFailed" -> t.active
                                       [] event = "Ended" -> Decrement(t.active)
<1>1. CASE event = "HelloPassed"
  <2> DEFINE h == Decrement(t.inHello)
             a == t.active + 1
  <2>1. h \in Nat /\ a \in Nat
    BY TimerFields DEF Decrement
  <2>2. Apply(t, event) = [t EXCEPT !.suspended = Off, !.inHello = h, !.active = a]
    BY <1>1 DEF Apply
  <2> HIDE DEF h, a
  <2>3. /\ Apply(t, event) \in Timer
        /\ Apply(t, event).initOk = t.initOk /\ Apply(t, event).deadline = t.deadline
        /\ Apply(t, event).suspended = Off /\ Apply(t, event).inHello = h
        /\ Apply(t, event).active = a
    BY <2>1, <2>2 DEF Timer
  <2> QED
    BY <1>1, <2>3 DEF h, a
<1>2. CASE event = "HelloFailed"
  BY <1>2 DEF Apply, Timer, Decrement
<1>3. CASE event = "Ended"
  BY <1>3 DEF Apply, Timer, Decrement
<1> QED
  BY <1>1, <1>2, <1>3 DEF ConnEvent

LEMMA ElapseCounts ==
  ASSUME NEW t \in Timer, Single(t)
  PROVE  /\ Elapse(t) \in Timer /\ Single(Elapse(t))
         /\ Elapse(t).initOk = t.initOk /\ Elapse(t).inHello = t.inHello
         /\ Elapse(t).active = t.active
         /\ Elapse(t).deadline = Off <=> t.deadline = Off
         /\ t.deadline = 0 => Elapse(t).deadline = 0
         /\ Countdown(Elapse(t)) = Nearer(Countdown(t))
<1>1. \A i \in Instant \cup {Off} : /\ Nearer(i) \in Instant \cup {Off}
                                    /\ (Nearer(i) = Off <=> i = Off) /\ (i = 0 => Nearer(i) = 0)
  BY TimeoutAssumption DEF Nearer, Instant, Off
<1>2. /\ Nearer(t.deadline) \in Instant \cup {Off} /\ Nearer(t.suspended) \in Instant \cup {Off}
  BY <1>1, TimerFields
<1>3. /\ Elapse(t) \in Timer
      /\ Elapse(t).initOk = t.initOk /\ Elapse(t).inHello = t.inHello
      /\ Elapse(t).active = t.active
      /\ Elapse(t).deadline = Nearer(t.deadline) /\ Elapse(t).suspended = Nearer(t.suspended)
  BY <1>2 DEF Elapse, Timer
<1> QED
  BY <1>1, <1>3, TimerFields DEF Single, Countdown

LEMMA NewTimerIsTimer == NewTimer \in Timer /\ Countdown(NewTimer) = Off /\ Single(NewTimer)
  BY DEF NewTimer, Timer, Countdown, Single, Off, Instant

\* Nothing queued, nothing applied.
LEMMA NothingToApply ==
  ASSUME NEW t
  PROVE  ApplyAll(t, << >>) = t
<1> DEFINE queue == << >>
           After(g) == [n \in 0..Len(queue) |-> IF n = 0 THEN t ELSE Apply(g[n - 1], queue[n])]
           zero == [n \in 0..0 |-> t]
           after == CHOOSE g : g = After(g)
<1>1. 0..Len(queue) = 0..0 /\ Len(queue) = 0
  OBVIOUS
<1>2. zero = After(zero)
  BY <1>1
<1>3. after = After(after)
  BY <1>2
<1>4. after[0] = t
  BY <1>1, <1>3
<1> QED
  BY <1>1, <1>4 DEF ApplyAll
-----------------------------------------------------------------------------
(* The spawn lock, the socket path and the pid file *)

PathInv == LockInv /\ ProxyInv /\ (faults.orphan \/ SocketInv)

\* A daemon goes to another place, and no other moves.
Moves(d, pc) ==
    /\ daemon' \in [Daemons -> DaemonState]
    /\ daemon'[d].pc = pc
    /\ \A e \in Daemons \ {d} : daemon'[e] = daemon[e]

LEMMA GotoMoves ==
  ASSUME DaemonTypeOK, NEW d \in Daemons, NEW pc \in DaemonPC, Goto(d, pc)
  PROVE  /\ Moves(d, pc)
         /\ daemon'[d].init = daemon[d].init /\ daemon'[d].why = daemon[d].why
  BY DEF DaemonTypeOK, Goto, Moves, DaemonState

LEMMA DeadMoves ==
  ASSUME DaemonTypeOK, NEW d \in Daemons, Dead(d)
  PROVE  Moves(d, "dead") /\ daemon'[d].init = "pending"
  BY DEF DaemonTypeOK, Dead, Moves, DaemonState, DaemonPC, Why

LEMMA TurnMoves ==
  ASSUME DaemonTypeOK, NEW d \in Daemons, NEW pc \in DaemonPC, NEW why \in Why,
         daemon' = [daemon EXCEPT ![d].pc = pc, ![d].why = why]
  PROVE  /\ Moves(d, pc)
         /\ daemon'[d].init = daemon[d].init /\ daemon'[d].why = why
<1>1. daemon \in [Daemons -> DaemonState]
  BY DEF DaemonTypeOK, DaemonState
<1>2. daemon'[d] = [pc |-> pc, init |-> daemon[d].init, why |-> why]
  BY <1>1 DEF DaemonState
<1>3. daemon'[d] \in DaemonState
  BY <1>1, <1>2 DEF DaemonState
<1>4. \A e \in Daemons \ {d} : daemon'[e] = daemon[e]
  BY <1>1
<1>5. daemon' \in [Daemons -> DaemonState]
  BY <1>1, <1>3, <1>4
<1> QED
  BY <1>2, <1>4, <1>5 DEF Moves

LEMMA ProbePath ==
  ASSUME DaemonInv, NEW d \in Daemons, Probe(d)
  PROVE  PathInv'
<1> USE Names DEF files, PathInv, LockInv, ProxyInv, SocketInv, Listening
<1>1. DaemonTypeOK /\ PathInv
  BY DEF DaemonInv
<1>2. UNCHANGED <<files, proxy, retries, faults>> /\ daemon[d].pc = "probe"
  BY DEF Probe
<1>3. Moves(d, "dead") \/ Moves(d, "bind")
  BY <1>1, DeadMoves, GotoMoves DEF Probe, ExitsForAnother, DaemonPC
<1>4. CASE Moves(d, "dead")
  BY <1>1, <1>2, <1>4 DEF Moves
<1>5. CASE Moves(d, "bind")
  BY <1>1, <1>2, <1>5 DEF Moves
<1> QED
  BY <1>3, <1>4, <1>5

LEMMA BindPath ==
  ASSUME DaemonInv, NEW d \in Daemons, Bind(d)
  PROVE  PathInv'
<1> USE Names DEF files, PathInv, LockInv, ProxyInv, SocketInv, Listening
<1>1. DaemonTypeOK /\ PathInv
  BY DEF DaemonInv
<1>2. UNCHANGED <<lock, pidFile, proxy, retries, faults>> /\ daemon[d].pc = "bind"
  BY DEF Bind
<1>3. \/ sock = None /\ sock' = d /\ Moves(d, "bound")
      \/ sock' = sock /\ Moves(d, "dead")
  BY <1>1, DeadMoves, GotoMoves DEF Bind, ExitsForAnother, DaemonPC
<1>4. CASE sock' = sock /\ Moves(d, "dead")
  BY <1>1, <1>2, <1>4 DEF Moves
<1>5. CASE sock = None /\ sock' = d /\ Moves(d, "bound")
  BY <1>1, <1>2, <1>5 DEF Moves
<1> QED
  BY <1>3, <1>4, <1>5

LEMMA WritePidFilePath ==
  ASSUME DaemonInv, NEW d \in Daemons, WritePidFile(d)
  PROVE  PathInv'
<1> USE Names DEF files, PathInv, LockInv, ProxyInv, SocketInv, Listening
<1>1. DaemonTypeOK /\ PathInv
  BY DEF DaemonInv
<1>2. UNCHANGED <<lock, proxy, retries, faults>> /\ daemon[d].pc = "bound"
  BY DEF WritePidFile
<1>3. \/ pidFile' = d /\ sock' = sock /\ Moves(d, "serve")
      \/ pidFile' = pidFile /\ sock' = SockWithout(d) /\ Moves(d, "dead")
  BY <1>1, DeadMoves, GotoMoves DEF WritePidFile, DaemonPC
<1>4. CASE pidFile' = d /\ sock' = sock /\ Moves(d, "serve")
  BY <1>1, <1>2, <1>4 DEF Moves
<1>5. CASE pidFile' = pidFile /\ sock' = SockWithout(d) /\ Moves(d, "dead")
  BY <1>1, <1>2, <1>5 DEF Moves, SockWithout
<1> QED
  BY <1>3, <1>4, <1>5

\* A trigger, a lock that stays busy: the daemon listens on, in the loop or out of it.
LEMMA TriggerPath ==
  ASSUME DaemonInv, NEW d \in Daemons, IdleDeadline(d) \/ GraceDeadline(d) \/ Signal(d)
  PROVE  PathInv'
<1> USE Names DEF files, PathInv, LockInv, ProxyInv, SocketInv, Listening
<1>1. DaemonTypeOK /\ PathInv
  BY DEF DaemonInv
<1>2. UNCHANGED <<files, proxy, retries>> /\ daemon[d].pc = "serve"
  BY DEF IdleDeadline, GraceDeadline, Signal, Trigger
<1>3. Moves(d, "locking")
  BY <1>1, TurnMoves DEF IdleDeadline, GraceDeadline, Signal, Trigger, DaemonPC, Why
<1>4. faults'.orphan = faults.orphan
  BY <1>1 DEF IdleDeadline, GraceDeadline, Signal, DaemonTypeOK
<1> QED
  BY <1>1, <1>2, <1>3, <1>4 DEF Moves

LEMMA ShutdownLockBusyPath ==
  ASSUME DaemonInv, NEW d \in Daemons, ShutdownLockBusy(d)
  PROVE  PathInv'
<1> USE Names DEF files, PathInv, LockInv, ProxyInv, SocketInv, Listening
<1>1. DaemonTypeOK /\ PathInv
  BY DEF DaemonInv
<1>2. UNCHANGED <<files, proxy, retries, faults>> /\ daemon[d].pc = "locking"
  BY DEF ShutdownLockBusy
<1>3. Moves(d, "serve") \/ Moves(d, "close")
  <2>1. CASE daemon[d].why = "idle"
    BY <1>1, <2>1, TurnMoves DEF ShutdownLockBusy, DaemonPC, Why
  <2>2. CASE daemon[d].why # "idle"
    BY <1>1, <2>2, GotoMoves DEF ShutdownLockBusy, Commit, DaemonPC
  <2> QED
    BY <2>1, <2>2
<1>4. CASE Moves(d, "serve")
  BY <1>1, <1>2, <1>4 DEF Moves
<1>5. CASE Moves(d, "close")
  BY <1>1, <1>2, <1>5 DEF Moves
<1> QED
  BY <1>3, <1>4, <1>5

LEMMA ShutdownLocksPath ==
  ASSUME DaemonInv, NEW d \in Daemons, ShutdownLocks(d)
  PROVE  PathInv'
<1> USE Names DEF files, PathInv, LockInv, ProxyInv, SocketInv, Listening
<1>1. DaemonTypeOK /\ PathInv
  BY DEF DaemonInv
<1>2. /\ UNCHANGED <<sock, pidFile, proxy, retries, faults>>
      /\ daemon[d].pc = "locking" /\ lock = None /\ lock' = d
  BY DEF ShutdownLocks
<1>3. Moves(d, "recheck") \/ Moves(d, "close")
  BY <1>1, GotoMoves DEF ShutdownLocks, Commit, DaemonPC
<1>4. CASE Moves(d, "recheck")
  BY <1>1, <1>2, <1>4 DEF Moves
<1>5. CASE Moves(d, "close")
  BY <1>1, <1>2, <1>5 DEF Moves
<1> QED
  BY <1>3, <1>4, <1>5

LEMMA RecheckPath ==
  ASSUME DaemonInv, NEW d \in Daemons, Recheck(d)
  PROVE  PathInv'
<1> USE Names DEF files, PathInv, LockInv, ProxyInv, SocketInv, Listening
<1>1. DaemonTypeOK /\ PathInv
  BY DEF DaemonInv
<1>2. UNCHANGED <<sock, pidFile, proxy, retries, faults>> /\ daemon[d].pc = "recheck"
  BY DEF Recheck
<1>3. \/ Moves(d, "close") /\ lock' = lock
      \/ Moves(d, "serve") /\ Release(d)
  <2>1. CASE FoundInBacklog(d) = {} /\ ShouldArm(ApplyAll(timer[d], events[d]))
    BY <1>1, <2>1, GotoMoves DEF Recheck, Commit, DaemonPC
  <2>2. CASE ~(FoundInBacklog(d) = {} /\ ShouldArm(ApplyAll(timer[d], events[d])))
    <3>1. /\ daemon' = [daemon EXCEPT ![d].pc = "serve", ![d].why = "no"]
          /\ Release(d)
      BY <2>2 DEF Recheck, ReleaseAfterCancel
    <3> QED
      BY <1>1, <3>1, TurnMoves DEF DaemonPC, Why
  <2> QED
    BY <2>1, <2>2
<1>4. CASE Moves(d, "close") /\ lock' = lock
  BY <1>1, <1>2, <1>4 DEF Moves
<1>5. CASE Moves(d, "serve") /\ Release(d)
  BY <1>1, <1>2, <1>5 DEF Moves, Release
<1> QED
  BY <1>3, <1>4, <1>5

LEMMA DropListenerPath ==
  ASSUME DaemonInv, NEW d \in Daemons, DropListener(d)
  PROVE  PathInv'
<1> USE Names DEF files, PathInv, LockInv, ProxyInv, SocketInv, Listening
<1>1. DaemonTypeOK /\ PathInv
  BY DEF DaemonInv
<1>2. UNCHANGED <<files, proxy, retries, faults>> /\ daemon[d].pc = "close"
  BY DEF DropListener
<1>3. \/ Moves(d, "unlink") /\ lock = d
      \/ Moves(d, "abort") /\ lock # d
  BY <1>1, GotoMoves DEF DropListener, DaemonPC
<1>4. CASE Moves(d, "unlink") /\ lock = d
  BY <1>1, <1>2, <1>4 DEF Moves
<1>5. CASE Moves(d, "abort") /\ lock # d
  BY <1>1, <1>2, <1>5 DEF Moves
<1> QED
  BY <1>3, <1>4, <1>5

LEMMA RemoveFilesPath ==
  ASSUME DaemonInv, NEW d \in Daemons, RemoveFiles(d)
  PROVE  PathInv'
<1> USE Names DEF files, PathInv, LockInv, ProxyInv, SocketInv, Listening
<1>1. DaemonTypeOK /\ PathInv
  BY DEF DaemonInv
<1>2. /\ UNCHANGED <<proxy, retries, faults>> /\ daemon[d].pc = "unlink"
      /\ pidFile' = (IF pidFile = d THEN None ELSE pidFile)
      /\ sock' = SockWithout(d) /\ lock' = None
  BY DEF RemoveFiles
<1>3. Moves(d, "abort")
  BY <1>1, GotoMoves DEF RemoveFiles, DaemonPC
<1> QED
  BY <1>1, <1>2, <1>3 DEF Moves, SockWithout

LEMMA AbortSessionsPath ==
  ASSUME DaemonInv, NEW d \in Daemons, AbortSessions(d)
  PROVE  PathInv'
<1> USE Names DEF files, PathInv, LockInv, ProxyInv, SocketInv, Listening
<1>1. DaemonTypeOK /\ PathInv
  BY DEF DaemonInv
<1>2. UNCHANGED <<files, proxy, retries, faults>> /\ daemon[d].pc = "abort"
  BY DEF AbortSessions
<1>3. Moves(d, "stop")
  BY <1>1, GotoMoves DEF AbortSessions, DaemonPC
<1>4. \A e \in Daemons : e # d => daemon'[e].pc = daemon[e].pc
  BY <1>3 DEF Moves
<1>5. LockInv' /\ ProxyInv'
  <2>1. daemon'[d].pc = "stop" /\ lock # d
    BY <1>1, <1>2, <1>3 DEF Moves
  <2> QED
    BY <1>1, <1>2, <1>4, <2>1
<1>6. (faults.orphan \/ SocketInv)'
  BY <1>1, <1>2, <1>3 DEF Moves
<1> QED
  BY <1>5, <1>6

LEMMA ExitPath ==
  ASSUME DaemonInv, NEW d \in Daemons, Exit(d)
  PROVE  PathInv'
<1> USE Names DEF files, PathInv, LockInv, ProxyInv, SocketInv, Listening
<1>1. DaemonTypeOK /\ PathInv
  BY DEF DaemonInv
<1>2. UNCHANGED <<files, proxy, retries, faults>> /\ daemon[d].pc = "stop"
  BY DEF Exit
<1>3. Moves(d, "dead")
  BY <1>1, DeadMoves DEF Exit
<1> QED
  BY <1>1, <1>2, <1>3 DEF Moves

LEMMA CrashPath ==
  ASSUME DaemonInv, NEW d \in Daemons, Crash(d)
  PROVE  PathInv'
<1> USE Names DEF files, PathInv, LockInv, ProxyInv, SocketInv, Listening
<1>1. DaemonTypeOK /\ PathInv
  BY DEF DaemonInv
<1>2. UNCHANGED <<sock, pidFile, proxy, retries>> /\ Release(d)
  BY DEF Crash
<1>3. Moves(d, "dead")
  BY <1>1, DeadMoves DEF Crash, Killed
<1>4. faults'.orphan = faults.orphan
  BY <1>1 DEF Crash, DaemonTypeOK
<1> QED
  BY <1>1, <1>2, <1>3, <1>4 DEF Moves, Release

\* A proxy goes to another place, and no other moves.
Steps(p, pc, c, child) ==
    /\ proxy' \in [Proxy -> ProxyState]
    /\ proxy'[p] = [pc |-> pc, conn |-> c, child |-> child]
    /\ \A o \in Proxy \ {p} : proxy'[o] = proxy[o]

LEMMA StepSteps ==
  ASSUME DaemonTypeOK, NEW p \in Proxy, NEW pc \in ProxyPC, Step(p, pc)
  PROVE  Steps(p, pc, proxy[p].conn, proxy[p].child)
  BY DEF DaemonTypeOK, Step, Steps, ProxyState

LEMMA RetrySteps ==
  ASSUME DaemonTypeOK, NEW p \in Proxy, Retry(p)
  PROVE  /\ Steps(p, "connect", None, None) \/ Steps(p, "failed", None, None)
         /\ retries' \in 0..MaxRetries
<1>1. PICK pc \in {"connect", "failed"} :
        /\ pc = "connect" => retries < MaxRetries
        /\ retries' = retries + (IF pc = "connect" THEN 1 ELSE 0)
        /\ proxy' = [proxy EXCEPT ![p] = [pc |-> pc, conn |-> None, child |-> None]]
  BY DEF Retry
<1>2. Steps(p, pc, None, None)
  BY <1>1 DEF DaemonTypeOK, Steps, ProxyState, ProxyPC
<1>3. retries' \in 0..MaxRetries
  BY <1>1, DaemonBounds DEF DaemonTypeOK
<1> QED
  BY <1>2, <1>3

LEMMA OpenedSteps ==
  ASSUME DaemonTypeOK, NEW p \in Proxy, Opened(p)
  PROVE  Steps(p, "opened", NewConn, None) /\ NewConn \in Conn
<1>1. NewConn \in Conn
  BY NewConnIsFree DEF Opened, Connects
<1>2. /\ proxy \in [Proxy -> ProxyState]
      /\ proxy' = [proxy EXCEPT ![p].pc = "opened", ![p].conn = NewConn, ![p].child = None]
  BY DEF Opened, DaemonTypeOK, ProxyState
<1> HIDE DEF NewConn
<1>3. proxy'[p] = [pc |-> "opened", conn |-> NewConn, child |-> None]
  BY <1>2 DEF ProxyState
<1>4. proxy'[p] \in ProxyState
  BY <1>1, <1>3 DEF ProxyState, ProxyPC
<1>5. \A o \in Proxy \ {p} : proxy'[o] = proxy[o]
  BY <1>2
<1>6. proxy' \in [Proxy -> ProxyState]
  BY <1>2, <1>4, <1>5
<1> QED
  BY <1>1, <1>3, <1>5, <1>6 DEF Steps

\* A step of one proxy that no daemon but its child notices.
LEMMA PathByProxy ==
  ASSUME DaemonInv, NEW p \in Proxy, UNCHANGED <<sock, pidFile>>,
         \A o \in Proxy \ {p} : proxy'[o] = proxy[o],
         lock' \in {lock, p, None}, lock' = p \/ lock' = lock \/ lock = p,
         lock' = p <=> proxy'[p].pc \in {"reconnect", "spawn", "wait"},
         lock' = p => lock \in {p, None},
         proxy'[p].child # None <=> proxy'[p].pc = "wait",
         proxy'[p].conn # None <=> proxy'[p].pc = "opened",
         \A d \in Daemons : \/ daemon'[d].pc = daemon[d].pc
                            \/ daemon'[d].pc = "dead" /\ lock # d,
         faults.orphan => faults'.orphan,
         faults'.orphan \/ \A d \in Daemons :
            /\ Listening(d) => proxy'[p].pc # "spawn" /\ proxy'[p].child \in {None, d}
            /\ daemon'[d].pc \in {"probe", "bind"} => proxy[p].child # d \/ proxy'[p].child = d
  PROVE  PathInv'
<1> USE Names DEF Listening
<1>1. LockInv /\ ProxyInv /\ (faults.orphan \/ SocketInv)
  BY DEF DaemonInv
<1>2. LockInv'
  <2>1. ASSUME NEW o \in Proxy PROVE (lock = o <=> proxy[o].pc \in {"reconnect", "spawn", "wait"})'
    <3>1. CASE o = p
      BY <3>1
    <3>2. CASE o # p
      BY <1>1, <3>2 DEF LockInv
    <3> QED
      BY <3>1, <3>2
  <2>2. ASSUME NEW d \in Daemons
        PROVE  (/\ lock = d => daemon[d].pc \in {"recheck", "close", "unlink"}
                /\ daemon[d].pc \in {"recheck", "unlink"} => lock = d)'
    <3>1. lock' = d <=> lock = d
      BY <1>1
    <3> QED
      BY <1>1, <3>1 DEF LockInv
  <2> QED
    BY <2>1, <2>2 DEF LockInv
<1>3. ProxyInv'
  BY <1>1 DEF ProxyInv
<1>4. faults'.orphan \/ SocketInv'
  <2> SUFFICES ASSUME ~faults'.orphan, NEW d \in Daemons
               PROVE  (/\ Listening(d) => sock = d
                       /\ Listening(d) /\ daemon[d].pc # "bound" => pidFile = d
                       /\ daemon[d].pc \in {"probe", "bind"} => \E o \in Proxy : proxy[o].child = d
                       /\ Listening(d) => \A o \in Proxy : /\ proxy[o].pc # "spawn"
                                                           /\ proxy[o].child \in {None, d})'
    BY DEF SocketInv
  <2>1. SocketInv
    BY <1>1
  <2>2. CASE daemon'[d].pc = daemon[d].pc
    <3>1. /\ Listening(d) => sock = d
          /\ Listening(d) /\ daemon[d].pc # "bound" => pidFile = d
      BY <2>1 DEF SocketInv
    <3>2. daemon[d].pc \in {"probe", "bind"} => \E o \in Proxy : proxy'[o].child = d
      <4>1. SUFFICES ASSUME daemon[d].pc \in {"probe", "bind"} PROVE \E o \in Proxy : proxy'[o].child = d
        OBVIOUS
      <4>2. PICK o \in Proxy : proxy[o].child = d
        BY <4>1, <2>1 DEF SocketInv
      <4>3. CASE o = p
        BY <4>1, <4>2, <4>3, <2>2
      <4>4. CASE o # p
        BY <4>2, <4>4
      <4> QED
        BY <4>3, <4>4
    <3>3. Listening(d) => \A o \in Proxy : proxy'[o].pc # "spawn" /\ proxy'[o].child \in {None, d}
      BY <2>1 DEF SocketInv
    <3> QED
      BY <2>2, <3>1, <3>2, <3>3
  <2>3. CASE daemon'[d].pc = "dead"
    BY <2>3
  <2> QED
    BY <2>2, <2>3
<1> QED
  BY <1>2, <1>3, <1>4 DEF PathInv

LEMMA FirstConnectPath ==
  ASSUME DaemonInv, NEW p \in Proxy, FirstConnect(p)
  PROVE  PathInv'
<1> USE Names
<1>1. DaemonTypeOK /\ LockInv /\ ProxyInv
  BY DEF DaemonInv
<1>2. UNCHANGED <<sock, pidFile, daemon, faults>> /\ proxy[p].pc = "connect"
  BY DEF FirstConnect, ProxyVars
<1>3. lock # p /\ proxy[p].child = None /\ proxy[p].conn = None
  BY <1>1, <1>2 DEF LockInv, ProxyInv
<1>4. lock' = lock
  BY <1>3 DEF FirstConnect, Opened, Release
<1>5. \/ Steps(p, "opened", NewConn, None) /\ NewConn # None
      \/ Steps(p, "lock", None, None)
  <2>1. CASE Opened(p)
    BY <1>1, <2>1, OpenedSteps
  <2>2. CASE Step(p, "lock")
    BY <1>1, <1>3, <2>2, StepSteps DEF ProxyPC
  <2> QED
    BY <2>1, <2>2 DEF FirstConnect
<1> HIDE DEF NewConn
<1>6. \A o \in Proxy \ {p} : proxy'[o] = proxy[o]
  BY <1>5 DEF Steps
<1>7. /\ proxy'[p].child = None /\ proxy'[p].pc \in {"opened", "lock"}
      /\ proxy'[p].conn # None <=> proxy'[p].pc = "opened"
  BY <1>5 DEF Steps
<1> QED
  BY <1>2, <1>3, <1>4, <1>6, <1>7, PathByProxy

LEMMA AcquireLockPath ==
  ASSUME DaemonInv, NEW p \in Proxy, AcquireLock(p)
  PROVE  PathInv'
<1> USE Names
<1>1. DaemonTypeOK /\ LockInv /\ ProxyInv
  BY DEF DaemonInv
<1>2. UNCHANGED <<sock, pidFile, daemon, faults>> /\ proxy[p].pc = "lock"
  BY DEF AcquireLock, ProxyVars
<1>3. lock # p /\ proxy[p].child = None /\ proxy[p].conn = None
  BY <1>1, <1>2 DEF LockInv, ProxyInv
<1>4. \/ lock = None /\ lock' = p /\ Steps(p, "reconnect", None, None)
      \/ lock' = lock /\ Steps(p, "failed", None, None)
  BY <1>1, <1>3, StepSteps DEF AcquireLock, ProxyPC
<1>5. \A o \in Proxy \ {p} : proxy'[o] = proxy[o]
  BY <1>4 DEF Steps
<1>6. /\ proxy'[p].child = None /\ proxy'[p].conn = None
      /\ \/ lock = None /\ lock' = p /\ proxy'[p].pc = "reconnect"
         \/ lock' = lock /\ proxy'[p].pc = "failed"
  BY <1>4 DEF Steps
<1> QED
  BY <1>2, <1>3, <1>5, <1>6, PathByProxy

\* Under the lock, a socket is taken for stale only if nobody listens on it.
LEMMA ConnectUnderLockPath ==
  ASSUME DaemonInv, NEW p \in Proxy, ConnectUnderLock(p)
  PROVE  PathInv'
<1> USE Names
<1>1. DaemonTypeOK /\ LockInv /\ ProxyInv /\ (faults.orphan \/ SocketInv)
  BY DEF DaemonInv
<1>2. UNCHANGED <<sock, pidFile, daemon, faults>> /\ proxy[p].pc = "reconnect"
  BY DEF ConnectUnderLock, ProxyVars
<1>3. lock = p /\ proxy[p].child = None /\ proxy[p].conn = None
  BY <1>1, <1>2 DEF LockInv, ProxyInv
<1>4. \/ lock' = None /\ Steps(p, "opened", NewConn, None) /\ NewConn # None
      \/ lock' = p /\ Steps(p, "spawn", None, None) /\ TakenForStale
      \/ lock' = None /\ (Steps(p, "connect", None, None) \/ Steps(p, "failed", None, None))
  <2>1. CASE Opened(p)
    <3>1. lock' = None
      BY <1>3, <2>1 DEF Opened, Release
    <3> QED
      BY <1>1, <2>1, <3>1, OpenedSteps
  <2>2. CASE TakenForStale /\ Step(p, "spawn") /\ UNCHANGED lock
    BY <1>1, <1>3, <2>2, StepSteps DEF ProxyPC
  <2>3. CASE Retry(p)
    <3>1. lock' = None
      BY <1>3, <2>3 DEF Retry, Release
    <3> QED
      BY <1>1, <2>3, <3>1, RetrySteps
  <2> QED
    BY <2>1, <2>2, <2>3 DEF ConnectUnderLock
<1>5. TakenForStale => faults.orphan \/ \A d \in Daemons : ~Listening(d)
  BY <1>1 DEF TakenForStale, MayRefuse, PidFileHeld, Alive, SocketInv, Listening
<1> HIDE DEF NewConn, TakenForStale
<1>6. \A o \in Proxy \ {p} : proxy'[o] = proxy[o]
  BY <1>4 DEF Steps
<1>7. /\ proxy'[p].child = None
      /\ proxy'[p].conn # None <=> proxy'[p].pc = "opened"
      /\ \/ lock' = None /\ proxy'[p].pc \in {"opened", "connect", "failed"}
         \/ lock' = p /\ proxy'[p].pc = "spawn" /\ TakenForStale
  BY <1>4 DEF Steps
<1> QED
  BY <1>2, <1>3, <1>5, <1>6, <1>7, PathByProxy

LEMMA WaitConnectsPath ==
  ASSUME DaemonInv, NEW p \in Proxy, WaitConnects(p)
  PROVE  PathInv'
<1> USE Names
<1>1. DaemonTypeOK /\ LockInv /\ ProxyInv /\ (faults.orphan \/ SocketInv)
  BY DEF DaemonInv
<1>2. UNCHANGED <<sock, pidFile, daemon, faults>> /\ proxy[p].pc = "wait" /\ Opened(p)
  BY DEF WaitConnects, ProxyVars
<1>3. lock = p /\ lock' = None
  BY <1>1, <1>2 DEF LockInv, Opened, Release
<1>4. Steps(p, "opened", NewConn, None) /\ NewConn # None
  BY <1>1, <1>2, OpenedSteps
<1>5. sock \in Daemons /\ Listening(sock)
  BY <1>1, <1>2 DEF Opened, Connects, ServerUp, DaemonTypeOK
<1>6. faults.orphan \/ (proxy[p].child = sock /\ daemon[sock].pc \notin {"probe", "bind"})
  BY <1>1, <1>2, <1>5 DEF SocketInv, ProxyInv, Listening
<1> HIDE DEF NewConn
<1>7. /\ \A o \in Proxy \ {p} : proxy'[o] = proxy[o]
      /\ proxy'[p].child = None /\ proxy'[p].pc = "opened" /\ proxy'[p].conn # None
  BY <1>4 DEF Steps
<1> QED
  BY <1>2, <1>3, <1>6, <1>7, PathByProxy

LEMMA WaitChildExitedPath ==
  ASSUME DaemonInv, NEW p \in Proxy, WaitChildExited(p)
  PROVE  PathInv'
<1> USE Names
<1>1. DaemonTypeOK /\ LockInv /\ ProxyInv
  BY DEF DaemonInv
<1>2. /\ UNCHANGED <<sock, pidFile, daemon, faults>> /\ proxy[p].pc = "wait"
      /\ ~Alive(proxy[p].child)
  BY DEF WaitChildExited, ProxyVars
<1>3. lock = p /\ lock' = None
  BY <1>1, <1>2 DEF LockInv, WaitChildExited, Retry, Release
<1>4. Steps(p, "connect", None, None) \/ Steps(p, "failed", None, None)
  BY <1>1, RetrySteps DEF WaitChildExited
<1>5. /\ \A o \in Proxy \ {p} : proxy'[o] = proxy[o]
      /\ proxy'[p].child = None /\ proxy'[p].pc \in {"connect", "failed"} /\ proxy'[p].conn = None
  BY <1>4 DEF Steps
<1>6. daemon[proxy[p].child].pc \notin {"probe", "bind"}
  BY <1>2 DEF Alive
<1> QED
  BY <1>2, <1>3, <1>5, <1>6, PathByProxy

LEMMA WaitBudgetEndsPath ==
  ASSUME DaemonInv, NEW p \in Proxy, WaitBudgetEnds(p)
  PROVE  PathInv'
<1> USE Names
<1>1. DaemonTypeOK /\ LockInv /\ ProxyInv
  BY DEF DaemonInv
<1>2. UNCHANGED <<sock, pidFile, faults>> /\ proxy[p].pc = "wait"
  BY DEF WaitBudgetEnds, ProxyVars
<1>3. lock = p /\ lock' = None
  BY <1>1, <1>2 DEF LockInv, WaitBudgetEnds, Retry, Release
<1>4. Steps(p, "connect", None, None) \/ Steps(p, "failed", None, None)
  BY <1>1, RetrySteps DEF WaitBudgetEnds
<1>5. /\ \A o \in Proxy \ {p} : proxy'[o] = proxy[o]
      /\ proxy'[p].child = None /\ proxy'[p].pc \in {"connect", "failed"} /\ proxy'[p].conn = None
  BY <1>4 DEF Steps
<1>6. proxy[p].child \in Daemons
  BY <1>1, <1>2 DEF ProxyInv, DaemonTypeOK
<1>7. Moves(proxy[p].child, "dead")
  BY <1>1, <1>6, DeadMoves DEF WaitBudgetEnds, Killed
<1>8. \A d \in Daemons : \/ daemon'[d].pc = daemon[d].pc /\ proxy[p].child # d
                         \/ daemon'[d].pc = "dead" /\ lock # d
  BY <1>3, <1>7 DEF Moves
<1> QED
  BY <1>2, <1>3, <1>5, <1>8, PathByProxy

LEMMA ConnectionLostPath ==
  ASSUME DaemonInv, NEW p \in Proxy, ConnectionLost(p)
  PROVE  PathInv'
<1> USE Names
<1>1. DaemonTypeOK /\ LockInv /\ ProxyInv
  BY DEF DaemonInv
<1>2. UNCHANGED <<sock, pidFile, daemon, faults>> /\ proxy[p].pc = "opened"
  BY DEF ConnectionLost, ProxyVars
<1>3. lock # p /\ lock' = lock /\ proxy[p].child = None
  BY <1>1, <1>2 DEF LockInv, ProxyInv, ConnectionLost, Retry, Release
<1>4. Steps(p, "connect", None, None) \/ Steps(p, "failed", None, None)
  BY <1>1, RetrySteps DEF ConnectionLost
<1>5. /\ \A o \in Proxy \ {p} : proxy'[o] = proxy[o]
      /\ proxy'[p].child = None /\ proxy'[p].pc \in {"connect", "failed"} /\ proxy'[p].conn = None
  BY <1>4 DEF Steps
<1> QED
  BY <1>2, <1>3, <1>5, PathByProxy

LEMMA LeaveSteps ==
  ASSUME DaemonTypeOK, NEW p \in Proxy, Leave(p)
  PROVE  Steps(p, "done", None, proxy[p].child)
<1>1. /\ proxy \in [Proxy -> ProxyState]
      /\ proxy' = [proxy EXCEPT ![p].pc = "done", ![p].conn = None]
  BY DEF Leave, DaemonTypeOK, ProxyState
<1>2. proxy'[p] = [pc |-> "done", conn |-> None, child |-> proxy[p].child]
  BY <1>1 DEF ProxyState
<1>3. proxy'[p] \in ProxyState
  BY <1>1, <1>2 DEF ProxyState, ProxyPC
<1>4. \A o \in Proxy \ {p} : proxy'[o] = proxy[o]
  BY <1>1
<1>5. proxy' \in [Proxy -> ProxyState]
  BY <1>1, <1>3, <1>4
<1> QED
  BY <1>2, <1>4, <1>5 DEF Steps

LEMMA LeavePath ==
  ASSUME DaemonInv, NEW p \in Proxy, Leave(p)
  PROVE  PathInv'
<1> USE Names
<1>1. DaemonTypeOK /\ LockInv /\ ProxyInv
  BY DEF DaemonInv
<1>2. UNCHANGED <<lock, sock, pidFile, daemon, faults>> /\ proxy[p].pc = "opened"
  BY DEF Leave, ProxyVars
<1>3. lock # p /\ proxy[p].child = None
  BY <1>1, <1>2 DEF LockInv, ProxyInv
<1>4. /\ \A o \in Proxy \ {p} : proxy'[o] = proxy[o]
      /\ proxy'[p].child = None /\ proxy'[p].pc = "done" /\ proxy'[p].conn = None
  <2>1. Steps(p, "done", None, None)
    BY <1>1, <1>3, LeaveSteps
  <2> QED
    BY <2>1 DEF Steps
<1> QED
  BY <1>2, <1>3, <1>4, PathByProxy

LEMMA KillSteps ==
  ASSUME DaemonTypeOK, NEW p \in Proxy, KillProxy(p)
  PROVE  Steps(p, "killed", None, None)
<1>1. /\ proxy \in [Proxy -> ProxyState]
      /\ proxy' = [proxy EXCEPT ![p].pc = "killed", ![p].conn = None, ![p].child = None]
  BY DEF KillProxy, DaemonTypeOK, ProxyState
<1>2. proxy'[p] = [pc |-> "killed", conn |-> None, child |-> None]
  BY <1>1 DEF ProxyState
<1>3. proxy'[p] \in ProxyState
  BY <1>1, <1>2 DEF ProxyState, ProxyPC
<1>4. \A o \in Proxy \ {p} : proxy'[o] = proxy[o]
  BY <1>1
<1>5. proxy' \in [Proxy -> ProxyState]
  BY <1>1, <1>3, <1>4
<1> QED
  BY <1>2, <1>4, <1>5 DEF Steps

\* A proxy killed before its child listens is what orphan records.
LEMMA KillProxyPath ==
  ASSUME DaemonInv, NEW p \in Proxy, KillProxy(p)
  PROVE  PathInv'
<1> USE Names
<1>1. DaemonTypeOK /\ LockInv /\ ProxyInv
  BY DEF DaemonInv
<1>2. UNCHANGED <<sock, pidFile, daemon>> /\ Release(p)
  BY DEF KillProxy
<1>3. lock' = IF lock = p THEN None ELSE lock
  BY <1>2 DEF Release
<1>4. /\ faults'.orphan = (faults.orphan \/ (proxy[p].child # None /\ ~Listening(proxy[p].child)))
  BY <1>1 DEF KillProxy, DaemonTypeOK
<1>5. /\ \A o \in Proxy \ {p} : proxy'[o] = proxy[o]
      /\ proxy'[p].child = None /\ proxy'[p].pc = "killed" /\ proxy'[p].conn = None
  BY <1>1, KillSteps DEF Steps
<1>6. faults'.orphan \/ \A d \in Daemons : daemon'[d].pc \in {"probe", "bind"} => proxy[p].child # d
  BY <1>2, <1>4 DEF Listening
<1>7. faults.orphan => faults'.orphan
  BY <1>4
<1>8. lock' # p /\ lock' \in {lock, None} /\ (lock' = lock \/ lock = p)
  BY <1>3
<1> QED
  BY <1>2, <1>5, <1>6, <1>7, <1>8, PathByProxy

LEMMA SpawnSteps ==
  ASSUME DaemonTypeOK, NEW p \in Proxy, NEW child \in Daemons,
         proxy' = [proxy EXCEPT ![p].pc = "wait", ![p].child = child]
  PROVE  Steps(p, "wait", proxy[p].conn, child)
<1>1. proxy \in [Proxy -> ProxyState]
  BY DEF DaemonTypeOK, ProxyState
<1>2. proxy'[p] = [pc |-> "wait", conn |-> proxy[p].conn, child |-> child]
  BY <1>1 DEF ProxyState
<1>3. proxy'[p] \in ProxyState
  BY <1>1, <1>2 DEF ProxyState, ProxyPC
<1>4. \A o \in Proxy \ {p} : proxy'[o] = proxy[o]
  BY <1>1
<1>5. proxy' \in [Proxy -> ProxyState]
  BY <1>1, <1>3, <1>4
<1> QED
  BY <1>2, <1>4, <1>5 DEF Steps

\* Nobody listens while a proxy is about to unlink the socket.
LEMMA SpawnDaemonPath ==
  ASSUME DaemonInv, NEW p \in Proxy, SpawnDaemon(p)
  PROVE  PathInv'
<1> USE Names
<1>1. DaemonTypeOK /\ LockInv /\ ProxyInv /\ (faults.orphan \/ SocketInv)
  BY DEF DaemonInv
<1>2. UNCHANGED <<pidFile, faults>> /\ proxy[p].pc = "spawn" /\ sock' = None
  BY DEF SpawnDaemon, ProxyVars
<1>3. /\ lock = p /\ proxy[p].child = None /\ proxy[p].conn = None
  BY <1>1, <1>2 DEF LockInv, ProxyInv
<1>4. faults.orphan \/ \A d \in Daemons : /\ daemon[d].pc \notin {"probe", "bind"}
                                          /\ ~Listening(d)
  <2>1. SUFFICES ASSUME ~faults.orphan, NEW d \in Daemons
                 PROVE  daemon[d].pc \notin {"probe", "bind"} /\ ~Listening(d)
    OBVIOUS
  <2>2. ~Listening(d)
    BY <1>1, <1>2, <2>1 DEF SocketInv
  <2>3. \A o \in Proxy : proxy[o].child = None
    BY <1>1, <1>2, <1>3 DEF LockInv, ProxyInv
  <2> QED
    BY <1>1, <2>1, <2>2, <2>3 DEF SocketInv
<1>5. CASE Retry(p) /\ UNCHANGED daemon
  <2>1. lock' = None
    BY <1>3, <1>5 DEF Retry, Release
  <2>2. Steps(p, "connect", None, None) \/ Steps(p, "failed", None, None)
    BY <1>1, <1>5, RetrySteps
  <2>3. /\ \A o \in Proxy \ {p} : proxy'[o] = proxy[o]
        /\ proxy'[p].child = None /\ proxy'[p].pc \in {"connect", "failed"} /\ proxy'[p].conn = None
    BY <2>2 DEF Steps
  <2>4. LockInv' /\ ProxyInv'
    BY <1>1, <1>3, <1>5, <2>1, <2>3 DEF LockInv, ProxyInv
  <2>5. faults'.orphan \/ SocketInv'
    BY <1>2, <1>4, <1>5 DEF SocketInv, Listening
  <2> QED
    BY <2>4, <2>5 DEF PathInv
<1>6. ASSUME NEW child \in Daemons, daemon[child].pc = "unborn", Goto(child, "probe"),
             proxy' = [proxy EXCEPT ![p].pc = "wait", ![p].child = child], UNCHANGED lock
      PROVE  PathInv'
  <2>1. Moves(child, "probe")
    BY <1>1, <1>6, GotoMoves DEF DaemonPC
  <2>2. Steps(p, "wait", None, child)
    BY <1>1, <1>3, <1>6, SpawnSteps
  <2>3. /\ \A o \in Proxy \ {p} : proxy'[o] = proxy[o]
        /\ proxy'[p].child = child /\ proxy'[p].pc = "wait" /\ proxy'[p].conn = None
    BY <2>2 DEF Steps
  <2>4. LockInv'
    BY <1>1, <1>3, <1>6, <2>1, <2>3 DEF LockInv, Moves
  <2>5. ProxyInv'
    BY <1>1, <2>3 DEF ProxyInv
  <2>6. faults'.orphan \/ SocketInv'
    BY <1>2, <1>4, <2>1, <2>3 DEF SocketInv, Listening, Moves
  <2> QED
    BY <2>4, <2>5, <2>6 DEF PathInv
<1> QED
  BY <1>5, <1>6, UnbornChild DEF SpawnDaemon

\* No path variable changes, and every daemon stays where it is.
LEMMA QuietPath ==
  ASSUME DaemonInv, UNCHANGED <<files, proxy, faults>>,
         \A d \in Daemons : daemon'[d].pc = daemon[d].pc
  PROVE  PathInv'
<1>1. LockInv /\ ProxyInv /\ (faults.orphan \/ SocketInv)
  BY DEF DaemonInv
<1>2. LockInv' /\ ProxyInv'
  BY <1>1 DEF LockInv, ProxyInv, files
<1>3. (faults.orphan \/ SocketInv)'
  BY <1>1 DEF SocketInv, Listening, files
<1> QED
  BY <1>2, <1>3 DEF PathInv

LEMMA PathHolds ==
  ASSUME DaemonInv, [Next]_vars
  PROVE  PathInv'
<1>1. ASSUME NEW d \in Daemons, DaemonStep(d) \/ Signal(d) \/ Crash(d)
      PROVE  PathInv'
  <2>1. CASE \E i \in Conn : Accept(d, i)
    BY <2>1, QuietPath DEF Accept
  <2>2. CASE InitResult(d)
    <3>1. PICK outcome \in InitOutcome : daemon' = [daemon EXCEPT ![d].init = outcome]
      BY <2>2 DEF InitResult
    <3>2. \A e \in Daemons : daemon'[e].pc = daemon[e].pc
      BY <3>1 DEF DaemonInv, DaemonTypeOK
    <3> QED
      BY <2>2, <3>2, QuietPath DEF InitResult
  <2>3. CASE Event(d)
    BY <2>3, QuietPath DEF Event
  <2>4. CASE IdleDeadline(d) \/ GraceDeadline(d) \/ Signal(d)
    BY <2>4, TriggerPath
  <2> QED
    BY <1>1, <2>1, <2>2, <2>3, <2>4, ProbePath, BindPath, WritePidFilePath, ShutdownLocksPath,
       ShutdownLockBusyPath, RecheckPath, DropListenerPath, RemoveFilesPath, AbortSessionsPath,
       ExitPath, CrashPath DEF DaemonStep
<1>2. ASSUME NEW i \in Conn, HelloEnds(i) \/ SessionEnds(i)
      PROVE  PathInv'
  BY <1>2, QuietPath DEF HelloEnds, HelloPasses, HelloFails, SessionEnds, SessionVars
<1>3. ASSUME NEW p \in Proxy, ProxyStep(p) \/ Leave(p) \/ KillProxy(p)
      PROVE  PathInv'
  BY <1>3, FirstConnectPath, AcquireLockPath, ConnectUnderLockPath, SpawnDaemonPath,
     WaitConnectsPath, WaitChildExitedPath, WaitBudgetEndsPath, ConnectionLostPath, LeavePath,
     KillProxyPath DEF ProxyStep
<1>4. CASE Tick \/ UNCHANGED vars
  BY <1>4, QuietPath DEF Tick, vars
<1> QED
  BY <1>1, <1>2, <1>3, <1>4 DEF Next
-----------------------------------------------------------------------------
(* Queues of events *)

\* The events of one kind among the first n of a queue.
Count(q, event, n) == Cardinality({k \in 1..n : q[k] = event})

LEMMA CountNumber ==
  ASSUME NEW q, NEW event, NEW n \in Nat
  PROVE  /\ IsFiniteSet({k \in 1..n : q[k] = event})
         /\ Count(q, event, n) \in Nat
<1>1. IsFiniteSet(1..n)
  BY FS_Interval
<1>2. IsFiniteSet({k \in 1..n : q[k] = event})
  BY <1>1, FS_Subset
<1> QED
  BY <1>2, FS_CardinalityType DEF Count

LEMMA CountNone ==
  ASSUME NEW q, NEW event
  PROVE  Count(q, event, 0) = 0
<1>1. {k \in 1..0 : q[k] = event} = {}
  OBVIOUS
<1> QED
  BY <1>1, FS_EmptySet DEF Count

LEMMA CountOne ==
  ASSUME NEW q, NEW event, NEW n \in Nat, NEW k \in 1..n, q[k] = event
  PROVE  Count(q, event, n) > 0
<1>1. {j \in 1..n : q[j] = event} # {}
  OBVIOUS
<1> QED
  BY <1>1, CountNumber, FS_EmptySet DEF Count

LEMMA CountNext ==
  ASSUME NEW q, NEW event, NEW n \in Nat
  PROVE  Count(q, event, n + 1) = Count(q, event, n) + (IF q[n + 1] = event THEN 1 ELSE 0)
<1> DEFINE A == {k \in 1..n : q[k] = event}
           B == {k \in 1..(n + 1) : q[k] = event}
<1>1. IsFiniteSet(A) /\ Cardinality(A) \in Nat
  BY CountNumber, FS_CardinalityType
<1>2. B = IF q[n + 1] = event THEN A \cup {n + 1} ELSE A
  OBVIOUS
<1>3. n + 1 \notin A
  OBVIOUS
<1>4. Cardinality(B) = Cardinality(A) + (IF q[n + 1] = event THEN 1 ELSE 0)
  <2> HIDE DEF A, B
  <2>1. Cardinality(A \cup {n + 1}) = Cardinality(A) + 1
    BY <1>1, <1>3, FS_AddElement
  <2> QED
    BY <1>1, <1>2, <2>1
<1> QED
  BY <1>4 DEF Count

LEMMA CountAppend ==
  ASSUME NEW q \in Seq(ConnEvent), NEW e \in ConnEvent, NEW event
  PROVE  /\ \A n \in 0..Len(q) : Count(Append(q, e), event, n) = Count(q, event, n)
         /\ Count(Append(q, e), event, Len(q) + 1) =
              Count(q, event, Len(q)) + (IF e = event THEN 1 ELSE 0)
<1>1. ASSUME NEW n \in 0..Len(q)
      PROVE  Count(Append(q, e), event, n) = Count(q, event, n)
  <2>1. {k \in 1..n : Append(q, e)[k] = event} = {k \in 1..n : q[k] = event}
    OBVIOUS
  <2> QED
    BY <2>1 DEF Count
<1>2. Append(q, e)[Len(q) + 1] = e /\ Len(q) \in Nat
  OBVIOUS
<1>3. Count(Append(q, e), event, Len(q) + 1) =
        Count(Append(q, e), event, Len(q)) + (IF e = event THEN 1 ELSE 0)
  <2> DEFINE r == Append(q, e)
             n == Len(q)
  <2>1. n \in Nat /\ r[n + 1] = e
    BY <1>2
  <2> HIDE DEF r, n
  <2>2. Count(r, event, n + 1) = Count(r, event, n) + (IF r[n + 1] = event THEN 1 ELSE 0)
    BY <2>1, CountNext
  <2>3. Count(r, event, n + 1) = Count(r, event, n) + (IF e = event THEN 1 ELSE 0)
    BY <2>1, <2>2
  <2> QED
    BY <2>3 DEF r, n
<1> QED
  BY <1>1, <1>2, <1>3

LEMMA CountTail ==
  ASSUME NEW q \in Seq(ConnEvent), q # << >>, NEW event, NEW n \in 0..(Len(q) - 1)
  PROVE  Count(q, event, n + 1) = Count(Tail(q), event, n) + (IF Head(q) = event THEN 1 ELSE 0)
<1> DEFINE A == {k \in 1..n : Tail(q)[k] = event}
           B == {k \in 2..(n + 1) : q[k] = event}
           C == {k \in 1..(n + 1) : q[k] = event}
           f == [k \in A |-> k + 1]
<1>1. Len(q) \in Nat /\ Len(q) > 0 /\ \A k \in 1..(Len(q) - 1) : Tail(q)[k] = q[k + 1]
  OBVIOUS
<1>2. Head(q) = q[1]
  OBVIOUS
<1>3. f \in [A -> B]
  BY <1>1
<1>4. \A k \in B : k - 1 \in A /\ f[k - 1] = k
  BY <1>1
<1>5. \A j, k \in A : f[j] = f[k] => j = k
  OBVIOUS
<1>6. f \in Bijection(A, B)
  <2> HIDE DEF f, A, B
  <2>1. f \in Injection(A, B)
    BY <1>3, <1>5 DEF Injection, IsInjective
  <2>2. f \in Surjection(A, B)
    BY <1>3, <1>4 DEF Surjection
  <2> QED
    BY <2>1, <2>2 DEF Bijection
<1>7. IsFiniteSet(A) /\ Cardinality(A) \in Nat
  <2> DEFINE r == Tail(q)
  <2> HIDE DEF r
  <2>1. n \in Nat
    BY <1>1
  <2>2. IsFiniteSet({k \in 1..n : r[k] = event})
    BY <2>1, CountNumber
  <2>3. IsFiniteSet(A)
    BY <2>2 DEF r
  <2> QED
    BY <2>3, FS_CardinalityType
<1>8. IsFiniteSet(B) /\ Cardinality(B) = Cardinality(A)
  <2> HIDE DEF f, A, B
  <2> QED
    BY <1>6, <1>7, FS_Bijection DEF ExistsBijection
<1>9. C = IF q[1] = event THEN B \cup {1} ELSE B
  OBVIOUS
<1>10. 1 \notin B
  OBVIOUS
<1>11. Cardinality(C) = Cardinality(A) + (IF q[1] = event THEN 1 ELSE 0)
  <2> HIDE DEF A, B, C
  <2>1. Cardinality(B \cup {1}) = Cardinality(B) + 1
    BY <1>8, <1>10, FS_AddElement
  <2> QED
    BY <1>7, <1>8, <1>9, <2>1
<1> QED
  BY <1>2, <1>11 DEF Count

-----------------------------------------------------------------------------
(* Connections *)

ConnOK ==
    /\ conn \in [Conn -> ConnState]
    /\ \A i \in Conn : conn[i].phase # "free" => conn[i].to \in Daemons

\* d's sessions stay as they are.
SameSessions(d) ==
    /\ To(d, {"hello"})' = To(d, {"hello"})
    /\ To(d, {"active"})' = To(d, {"active"})

LEMMA ConnTypes == DaemonInv => ConnOK
  BY DEF DaemonInv, DaemonTypeOK, ConnInv, ConnOK, ConnState

LEMMA NoConnIsFree == /\ NoConn \in ConnState /\ NoConn.phase = "free" /\ NoConn.to = None
  BY DEF NoConn, ConnState, None

LEMMA ServerEndsConn ==
  ASSUME NEW c \in ConnState
  PROVE  /\ ServerEnds(c) \in ConnState
         /\ ServerEnds(c).phase \in {"ended", "free"}
         /\ ServerEnds(c).phase = "ended" => ServerEnds(c).to = c.to
  BY NoConnIsFree DEF ServerEnds, ConnState

LEMMA ClientClosesConn ==
  ASSUME NEW c \in ConnState
  PROVE  /\ ClientCloses(c) \in ConnState
         /\ IF c.phase = "ended" THEN ClientCloses(c).phase = "free"
            ELSE ClientCloses(c).phase = c.phase /\ ClientCloses(c).to = c.to
  BY NoConnIsFree DEF ClientCloses, ConnState

\* What is enough for a daemon's sessions to stay the same.
LEMMA SessionsStay ==
  ASSUME NEW d,
         \A i \in Conn : \/ conn'[i].to = conn[i].to /\ conn'[i].phase = conn[i].phase
                         \/ /\ conn[i].to # d \/ conn[i].phase \notin {"hello", "active"}
                            /\ conn'[i].to # d \/ conn'[i].phase \notin {"hello", "active"}
  PROVE  SameSessions(d)
  BY DEF SameSessions, To

LEMMA SameConn ==
  ASSUME UNCHANGED conn
  PROVE  \A d : SameSessions(d)
  BY SessionsStay

LEMMA ConnectsConn ==
  ASSUME DaemonInv, NEW who \in Proxy \cup Daemons, NEW open \in BOOLEAN, Connects(who, open)
  PROVE  ConnOK' /\ \A d \in Daemons : SameSessions(d)
<1>1. ConnOK
  BY ConnTypes
<1>2. NewConn \in Conn /\ conn[NewConn].phase = "free"
  BY NewConnIsFree DEF Connects
<1>3. sock \in Daemons
  BY DEF Connects, ServerUp, DaemonInv, DaemonTypeOK
<1>4. conn' = [conn EXCEPT ![NewConn] = [by |-> who, to |-> sock, phase |-> "backlog", open |-> open]]
  BY DEF Connects
<1> HIDE DEF NewConn
<1>5. ConnOK'
  BY <1>1, <1>2, <1>3, <1>4 DEF ConnOK, ConnState
<1>6. ASSUME NEW i \in Conn
      PROVE  \/ conn'[i] = conn[i]
             \/ conn[i].phase = "free" /\ conn'[i].phase = "backlog"
  BY <1>1, <1>2, <1>4 DEF ConnOK
<1>7. ASSUME NEW d \in Daemons PROVE SameSessions(d)
  BY <1>6, SessionsStay
<1> QED
  BY <1>5, <1>7

LEMMA EndAllConn ==
  ASSUME DaemonInv, NEW d \in Daemons, NEW phases, EndAll(To(d, phases))
  PROVE  /\ ConnOK'
         /\ \A e \in Daemons : e # d \/ phases \cap {"hello", "active"} = {} => SameSessions(e)
         /\ {"hello", "active"} \subseteq phases => To(d, {"hello", "active"})' = {}
<1>1. ConnOK
  BY ConnTypes
<1>2. ASSUME NEW i \in Conn
      PROVE  conn'[i] = IF i \in To(d, phases) THEN ServerEnds(conn[i]) ELSE conn[i]
  BY DEF EndAll
<1>3. ASSUME NEW i \in Conn
      PROVE  /\ conn'[i] \in ConnState
             /\ conn'[i].phase # "free" => conn'[i].to \in Daemons
             /\ i \in To(d, phases) => conn'[i].phase \notin {"hello", "active"}
             /\ i \notin To(d, phases) => conn'[i] = conn[i]
  <2>1. conn[i] \in ConnState
    BY <1>1 DEF ConnOK
  <2>2. CASE i \in To(d, phases)
    <3>1. conn'[i] = ServerEnds(conn[i]) /\ conn[i].to = d
      BY <1>2, <2>2 DEF To
    <3> QED
      BY <2>1, <2>2, <3>1, ServerEndsConn
  <2>3. CASE i \notin To(d, phases)
    BY <1>1, <1>2, <2>3 DEF ConnOK
  <2> QED
    BY <2>2, <2>3
<1>4. ConnOK'
  <2>1. conn' = [i \in Conn |-> conn'[i]]
    BY DEF EndAll
  <2> QED
    BY <1>3, <2>1 DEF ConnOK
<1>5. ASSUME NEW e \in Daemons, e # d \/ phases \cap {"hello", "active"} = {}
      PROVE  SameSessions(e)
  <2>1. ASSUME NEW i \in Conn
        PROVE  \/ conn'[i].to = conn[i].to /\ conn'[i].phase = conn[i].phase
               \/ /\ conn[i].to # e \/ conn[i].phase \notin {"hello", "active"}
                  /\ conn'[i].to # e \/ conn'[i].phase \notin {"hello", "active"}
    BY <1>3, <1>5 DEF To
  <2> QED
    BY <2>1, SessionsStay
<1>6. ASSUME {"hello", "active"} \subseteq phases
      PROVE  To(d, {"hello", "active"})' = {}
  BY <1>3, <1>6 DEF To
<1> QED
  BY <1>4, <1>5, <1>6

\* One connection changes.
LEMMA OneConn ==
  ASSUME DaemonInv, NEW i \in Conn, NEW c \in ConnState, conn' = [conn EXCEPT ![i] = c],
         c.phase # "free" => c.to \in Daemons
  PROVE  /\ ConnOK' /\ conn'[i] = c
         /\ \A j \in Conn \ {i} : conn'[j] = conn[j]
         /\ \A d \in Daemons : conn[i].to # d /\ c.to \in {None, conn[i].to} => SameSessions(d)
<1>1. ConnOK
  BY ConnTypes
<1>2. conn'[i] = c /\ \A j \in Conn \ {i} : conn'[j] = conn[j]
  BY <1>1 DEF ConnOK
<1>3. ConnOK'
  BY <1>1 DEF ConnOK
<1>4. ASSUME NEW d \in Daemons, conn[i].to # d, c.to \in {None, conn[i].to}
      PROVE  SameSessions(d)
  <2>1. ASSUME NEW j \in Conn
        PROVE  \/ conn'[j] = conn[j]
               \/ conn[j].to # d /\ conn'[j].to # d
    BY <1>2, <1>4, Names
  <2> QED
    BY <2>1, SessionsStay
<1> QED
  BY <1>2, <1>3, <1>4

LEMMA ClosesConn ==
  ASSUME DaemonInv, NEW i \in Conn, conn' = [conn EXCEPT ![i] = ClientCloses(@)]
  PROVE  ConnOK' /\ \A d \in Daemons : SameSessions(d)
<1>1. ConnOK
  BY ConnTypes
<1>2. conn[i] \in ConnState /\ conn' = [conn EXCEPT ![i] = ClientCloses(conn[i])]
  BY <1>1 DEF ConnOK
<1>3. /\ ClientCloses(conn[i]) \in ConnState
      /\ ClientCloses(conn[i]).phase # "free" => ClientCloses(conn[i]).to \in Daemons
  BY <1>1, <1>2, ClientClosesConn DEF ConnOK
<1>4. ConnOK' /\ conn'[i] = ClientCloses(conn[i]) /\ \A j \in Conn \ {i} : conn'[j] = conn[j]
  BY <1>2, <1>3, OneConn
<1>5. ASSUME NEW j \in Conn
      PROVE  \/ conn'[j].to = conn[j].to /\ conn'[j].phase = conn[j].phase
             \/ conn[j].phase = "ended" /\ conn'[j].phase = "free"
  BY <1>2, <1>4, ClientClosesConn
<1>6. ASSUME NEW d \in Daemons PROVE SameSessions(d)
  BY <1>5, SessionsStay
<1> QED
  BY <1>4, <1>6

-----------------------------------------------------------------------------
(* The counts of the timer *)

\* A timer t, the events q it has not seen, h connections in their hello and a active ones.
Balanced(t, q, h, a) ==
    /\ t.inHello = h + Count(q, "HelloPassed", Len(q)) + Count(q, "HelloFailed", Len(q))
    /\ t.active + Count(q, "HelloPassed", Len(q)) = a + Count(q, "Ended", Len(q))
    /\ \A n \in 0..Len(q) : Count(q, "Ended", n) <= t.active + Count(q, "HelloPassed", n)

LEMMA BalancedEmpty == Balanced(NewTimer, << >>, 0, 0)
<1> DEFINE q == << >>
<1>1. Len(q) = 0 /\ 0..0 = {0}
  OBVIOUS
<1>2. NewTimer.inHello = 0 /\ NewTimer.active = 0
  BY DEF NewTimer
<1> HIDE DEF q
<1>3. Balanced(NewTimer, q, 0, 0)
  BY <1>1, <1>2, CountNone DEF Balanced
<1> QED
  BY <1>3 DEF q

LEMMA BalancedApply ==
  ASSUME NEW t \in Timer, NEW q \in Seq(ConnEvent), q # << >>, NEW h \in Nat, NEW a \in Nat,
         Balanced(t, q, h, a)
  PROVE  /\ Balanced(Apply(t, Head(q)), Tail(q), h, a)
         /\ Head(q) \in ConnEvent
         /\ Head(q) # "Ended" => t.inHello > 0
         /\ Head(q) = "Ended" => t.active > 0
<1> DEFINE r == Tail(q)
           e == Head(q)
           m == Len(r)
           u == Apply(t, e)
           One(event) == IF e = event THEN 1 ELSE 0
<1>1. /\ r \in Seq(ConnEvent) /\ e \in ConnEvent /\ m \in Nat /\ Len(q) = m + 1
      /\ \A n \in 0..m : n \in 0..(Len(q) - 1) /\ n + 1 \in 0..Len(q)
  OBVIOUS
<1>2. ASSUME NEW event, NEW n \in 0..m
      PROVE  Count(q, event, n + 1) = Count(r, event, n) + One(event)
  BY <1>1, CountTail
<1>3. t.inHello \in Nat /\ t.active \in Nat
  BY TimerFields
<1>4. u.inHello = (IF e = "Ended" THEN t.inHello ELSE Decrement(t.inHello))
  BY <1>1, ApplyCounts
<1>5. u.active = CASE e = "HelloPassed" -> t.active + 1
                   [] e = "HelloFailed" -> t.active
                   [] e = "Ended" -> Decrement(t.active)
  BY <1>1, ApplyCounts
<1> DEFINE hello == t.inHello
           active == t.active
<1> HIDE DEF r, e, m, u, hello, active
<1>6. ASSUME NEW event, NEW n \in 0..m PROVE Count(r, event, n) \in Nat
  <2>1. n \in Nat
    BY <1>1
  <2> QED
    BY <2>1, CountNumber
<1>7. 0 \in 0..m /\ m \in 0..m
  BY <1>1
<1>8. e # "Ended" => t.inHello > 0
  <2> DEFINE x == Count(r, "HelloPassed", m)
             y == Count(r, "HelloFailed", m)
  <2>1. x \in Nat /\ y \in Nat /\ hello \in Nat
    BY <1>3, <1>6, <1>7 DEF hello
  <2>2. hello = h + (x + One("HelloPassed")) + (y + One("HelloFailed"))
    BY <1>1, <1>2, <1>7 DEF Balanced, hello
  <2> HIDE DEF x, y
  <2>3. e # "Ended" => hello > 0
    BY <1>1, <2>1, <2>2 DEF ConnEvent
  <2> QED
    BY <2>3 DEF hello
<1>9. ASSUME NEW n \in 0..m
      PROVE  Count(r, "Ended", n) + One("Ended")
                <= t.active + (Count(r, "HelloPassed", n) + One("HelloPassed"))
  <2>1. /\ Count(q, "Ended", n + 1) = Count(r, "Ended", n) + One("Ended")
        /\ Count(q, "HelloPassed", n + 1) = Count(r, "HelloPassed", n) + One("HelloPassed")
    BY <1>2
  <2>2. Count(q, "Ended", n + 1) <= t.active + Count(q, "HelloPassed", n + 1)
    BY <1>1 DEF Balanced
  <2> QED
    BY <2>1, <2>2
<1>10. e = "Ended" => t.active > 0
  <2>1. /\ Count(r, "Ended", 0) = 0 /\ Count(r, "HelloPassed", 0) = 0
    BY CountNone
  <2>2. 0 + One("Ended") <= active + (0 + One("HelloPassed"))
    BY <1>7, <1>9, <2>1 DEF active
  <2>3. e = "Ended" => active > 0
    BY <1>3, <2>2 DEF active
  <2> QED
    BY <2>3 DEF active
<1>11. /\ u.inHello = hello - One("HelloPassed") - One("HelloFailed")
       /\ u.active = active + One("HelloPassed") - One("Ended")
  BY <1>1, <1>3, <1>4, <1>5, <1>8, <1>10 DEF ConnEvent, Decrement, hello, active
<1>12. ASSUME NEW n \in 0..m PROVE Count(r, "Ended", n) <= u.active + Count(r, "HelloPassed", n)
  <2> DEFINE x == Count(r, "HelloPassed", n)
             z == Count(r, "Ended", n)
  <2>1. x \in Nat /\ z \in Nat /\ active \in Nat
    BY <1>3, <1>6 DEF active
  <2>2. z + One("Ended") <= active + (x + One("HelloPassed"))
    BY <1>9 DEF active
  <2> HIDE DEF x, z
  <2>3. z <= u.active + x
    BY <1>11, <2>1, <2>2
  <2> QED
    BY <2>3 DEF x, z
<1>13. /\ u.inHello = h + Count(r, "HelloPassed", m) + Count(r, "HelloFailed", m)
       /\ u.active + Count(r, "HelloPassed", m) = a + Count(r, "Ended", m)
  <2> DEFINE x == Count(r, "HelloPassed", m)
             y == Count(r, "HelloFailed", m)
             z == Count(r, "Ended", m)
  <2>1. x \in Nat /\ y \in Nat /\ z \in Nat /\ hello \in Nat /\ active \in Nat
    BY <1>3, <1>6, <1>7 DEF hello, active
  <2>2. /\ hello = h + (x + One("HelloPassed")) + (y + One("HelloFailed"))
        /\ active + (x + One("HelloPassed")) = a + (z + One("Ended"))
    BY <1>1, <1>2, <1>7 DEF Balanced, hello, active
  <2> HIDE DEF x, y, z
  <2>3. u.inHello = h + x + y /\ u.active + x = a + z
    BY <1>1, <1>11, <2>1, <2>2 DEF ConnEvent
  <2> QED
    BY <2>3 DEF x, y, z
<1>14. Balanced(u, r, h, a)
  BY <1>12, <1>13 DEF Balanced, m
<1> QED
  BY <1>1, <1>8, <1>10, <1>14 DEF r, e, u

LEMMA BalancedAppend ==
  ASSUME NEW t \in Timer, NEW q \in Seq(ConnEvent), NEW e \in ConnEvent,
         NEW h \in Nat, NEW a \in Nat, NEW h2 \in Nat, NEW a2 \in Nat,
         Balanced(t, q, h, a),
         h = h2 + (IF e = "Ended" THEN 0 ELSE 1),
         a2 + (IF e = "Ended" THEN 1 ELSE 0) = a + (IF e = "HelloPassed" THEN 1 ELSE 0)
  PROVE  Balanced(t, Append(q, e), h2, a2)
<1> DEFINE r == Append(q, e)
           m == Len(q)
           One(event) == IF e = event THEN 1 ELSE 0
           hello == t.inHello
           active == t.active
<1>1. m \in Nat /\ Len(r) = m + 1
  OBVIOUS
<1>2. ASSUME NEW event
      PROVE  /\ \A n \in 0..m : Count(r, event, n) = Count(q, event, n)
             /\ Count(r, event, m + 1) = Count(q, event, m) + One(event)
  BY CountAppend
<1>3. hello \in Nat /\ active \in Nat
  BY TimerFields
<1> DEFINE x == Count(q, "HelloPassed", m)
           y == Count(q, "HelloFailed", m)
           z == Count(q, "Ended", m)
<1>4. /\ hello = h + x + y /\ active + x = a + z
  BY DEF Balanced
<1>5. \A n \in 0..m : Count(q, "Ended", n) <= active + Count(q, "HelloPassed", n)
  BY DEF Balanced
<1>6. x \in Nat /\ y \in Nat /\ z \in Nat
  BY <1>1, CountNumber
<1>7. /\ Count(r, "HelloPassed", m + 1) = x + One("HelloPassed")
      /\ Count(r, "HelloFailed", m + 1) = y + One("HelloFailed")
      /\ Count(r, "Ended", m + 1) = z + One("Ended")
  BY <1>2
<1> HIDE DEF r, m, x, y, z, hello, active
<1>8. /\ hello = h2 + (x + One("HelloPassed")) + (y + One("HelloFailed"))
      /\ active + (x + One("HelloPassed")) = a2 + (z + One("Ended"))
  BY <1>3, <1>4, <1>6 DEF ConnEvent
<1>9. ASSUME NEW n \in 0..(m + 1)
      PROVE  Count(r, "Ended", n) <= active + Count(r, "HelloPassed", n)
  <2>1. CASE n \in 0..m
    BY <1>2, <1>5, <2>1
  <2>2. CASE n = m + 1
    <3>1. z + One("Ended") <= active + (x + One("HelloPassed"))
      BY <1>3, <1>6, <1>8
    <3> QED
      BY <1>7, <2>2, <3>1
  <2> QED
    BY <1>1, <2>1, <2>2
<1>10. Balanced(t, r, h2, a2)
  BY <1>1, <1>7, <1>8, <1>9 DEF Balanced, hello, active
<1> QED
  BY <1>10 DEF r

\* Nothing counted: nothing queued, and nobody there.
LEMMA BalancedQuiet ==
  ASSUME NEW t \in Timer, NEW q \in Seq(ConnEvent), NEW h \in Nat, NEW a \in Nat,
         Balanced(t, q, h, a), t.inHello = 0, t.active = 0
  PROVE  q = << >> /\ h = 0 /\ a = 0
<1> DEFINE m == Len(q)
<1>1. m \in Nat
  OBVIOUS
<1>2. /\ 0 = h + Count(q, "HelloPassed", m) + Count(q, "HelloFailed", m)
      /\ 0 + Count(q, "HelloPassed", m) = a + Count(q, "Ended", m)
  BY DEF Balanced
<1>3. \A event : Count(q, event, m) \in Nat
  BY <1>1, CountNumber
<1>4. /\ Count(q, "HelloPassed", m) = 0 /\ Count(q, "HelloFailed", m) = 0
      /\ Count(q, "Ended", m) = 0 /\ h = 0 /\ a = 0
  <2> DEFINE x == Count(q, "HelloPassed", m)
             y == Count(q, "HelloFailed", m)
             z == Count(q, "Ended", m)
  <2>1. x \in Nat /\ y \in Nat /\ z \in Nat
    BY <1>3
  <2>2. 0 = h + x + y /\ 0 + x = a + z
    BY <1>2
  <2> HIDE DEF x, y, z
  <2>3. x = 0 /\ y = 0 /\ z = 0 /\ h = 0 /\ a = 0
    BY <2>1, <2>2
  <2> QED
    BY <2>3 DEF x, y, z
<1>5. ASSUME m > 0 PROVE FALSE
  <2>1. q[1] \in ConnEvent /\ 1 \in 1..m
    BY <1>1, <1>5
  <2>2. Count(q, q[1], m) > 0
    <3> DEFINE event == q[1]
    <3> HIDE DEF event, m
    <3>1. Count(q, event, m) > 0
      BY <1>1, <2>1, CountOne DEF event
    <3> QED
      BY <3>1 DEF event
  <2> QED
    BY <1>4, <2>1, <2>2 DEF ConnEvent
<1>6. m = 0
  BY <1>1, <1>5
<1> QED
  BY <1>4, <1>6

-----------------------------------------------------------------------------
(* A daemon's loop and its sessions *)

LoopPC == {"serve", "locking", "recheck"}
SessionPC == LoopPC \cup {"close", "unlink", "abort"}
LeavingPC == {"close", "unlink", "abort", "stop"}

\* What DaemonInv says of one daemon: its state, its timer, its queue, the connections in their
\* hello and the active ones.
Session(s, t, q, H, A) ==
    /\ IF s.pc \in LoopPC
       THEN /\ t.initOk <=> s.init = "ready"
            /\ t.deadline # Off => ShouldArm(t) /\ t.suspended = Off
            /\ s.pc = "locking" => s.why # "no"
            /\ s.pc = "recheck" => s.why = "idle"
            /\ s.pc # "serve" /\ s.why = "idle" => t.deadline = 0
            /\ Balanced(t, q, Cardinality(H), Cardinality(A))
       ELSE /\ t = NewTimer /\ q = << >>
            /\ s.pc \notin LeavingPC => s.init = "pending"
    /\ s.pc \notin SessionPC => H = {} /\ A = {}

SessionInv(d) == Session(daemon[d], timer[d], events[d], To(d, {"hello"}), To(d, {"active"}))

\* The types of the variables that SessionInv speaks of, and of the others.
InnerType ==
    /\ daemon \in [Daemons -> DaemonState] /\ timer \in [Daemons -> Timer]
    /\ events \in [Daemons -> Seq(ConnEvent)] /\ ConnOK
OuterType ==
    /\ lock \in Proxy \cup Daemons \cup {None}
    /\ sock \in Daemons \cup {None} /\ pidFile \in Daemons \cup {None}
    /\ proxy \in [Proxy -> ProxyState] /\ retries \in 0..MaxRetries
    /\ faults \in [daemons : 0..MaxFaults, proxies : 0..MaxKilled, orphan : BOOLEAN]
SessionsInv == InnerType /\ \A d \in Daemons : SessionInv(d)

LEMMA QueuedCount ==
  ASSUME NEW q \in Seq(ConnEvent), NEW event
  PROVE  Cardinality({n \in DOMAIN q : q[n] = event}) = Count(q, event, Len(q))
<1>1. DOMAIN q = 1..Len(q)
  OBVIOUS
<1> QED
  BY <1>1 DEF Count

LEMMA DaemonInvParts == DaemonInv <=> OuterType /\ SessionsInv /\ PathInv
<1>1. DaemonTypeOK /\ (\A i \in Conn : conn[i].phase # "free" => conn[i].to \in Daemons)
        <=> OuterType /\ InnerType
  BY DEF DaemonTypeOK, OuterType, InnerType, ConnOK, ConnState, DaemonState, ProxyState, ConnEvent
<1>2. ASSUME InnerType, NEW d \in Daemons
      PROVE  SessionInv(d) <=>
                /\ TimerInv(d)
                /\ InLoop(d) =>
                    /\ timer[d].inHello = Cardinality(To(d, {"hello"})) + Queued(d, "HelloPassed")
                                            + Queued(d, "HelloFailed")
                    /\ timer[d].active + Queued(d, "HelloPassed")
                         = Cardinality(To(d, {"active"})) + Queued(d, "Ended")
                /\ ~Sessions(d) => To(d, {"hello", "active"}) = {}
  <2>1. \A event : Queued(d, event) = Count(events[d], event, Len(events[d]))
    BY <1>2, QueuedCount DEF Queued, InnerType
  <2>2. EndsFollowHellos(d) <=>
          \A n \in 0..Len(events[d]) :
             Count(events[d], "Ended", n) <= timer[d].active + Count(events[d], "HelloPassed", n)
    BY DEF EndsFollowHellos, Upto, Count
  <2>3. InLoop(d) <=> daemon[d].pc \in LoopPC
    BY DEF InLoop, LoopPC
  <2>4. Sessions(d) <=> daemon[d].pc \in SessionPC
    BY DEF Sessions, InLoop, LoopPC, SessionPC
  <2>5. To(d, {"hello", "active"}) = {} <=> To(d, {"hello"}) = {} /\ To(d, {"active"}) = {}
    BY DEF To
  <2>6. CASE InLoop(d)
    BY <2>1, <2>2, <2>3, <2>4, <2>5, <2>6, Zenon DEF SessionInv, Session, Balanced, TimerInv
  <2>7. CASE ~InLoop(d)
    <3>1. Leaving(d) <=> daemon[d].pc \in LeavingPC
      BY DEF Leaving, LeavingPC
    <3> QED
      BY <2>3, <2>4, <2>5, <2>7, <3>1, Zenon DEF SessionInv, Session, TimerInv
  <2> QED
    BY <2>6, <2>7
<1>3. CASE InnerType
  BY <1>1, <1>2, <1>3, Zenon DEF DaemonInv, SessionsInv, PathInv, ConnInv, CountsMatch
<1>4. CASE ~InnerType
  BY <1>1, <1>4, Zenon DEF DaemonInv, SessionsInv, ConnInv
<1> QED
  BY <1>3, <1>4

LEMMA ConnFinite == IsFiniteSet(Conn)
  BY DaemonBounds, FS_Interval DEF Conn

LEMMA SessionsFinite ==
  ASSUME NEW d, NEW phases
  PROVE  IsFiniteSet(To(d, phases)) /\ Cardinality(To(d, phases)) \in Nat
<1>1. IsFiniteSet(Conn)
  BY ConnFinite
<1>2. To(d, phases) \subseteq Conn
  BY DEF To
<1> QED
  BY <1>1, <1>2, FS_Subset, FS_CardinalityType

\* Nothing is left of d's timer and queue.
Cleared(d) ==
    /\ timer' \in [Daemons -> Timer] /\ events' \in [Daemons -> Seq(ConnEvent)]
    /\ timer'[d] = NewTimer /\ events'[d] = << >>
    /\ \A e \in Daemons \ {d} : timer'[e] = timer[e] /\ events'[e] = events[e]

LEMMA ClearedByExcept ==
  ASSUME SessionsInv, NEW d \in Daemons,
         timer' = [timer EXCEPT ![d] = NewTimer], events' = [events EXCEPT ![d] = << >>]
  PROVE  Cleared(d)
  BY NewTimerIsTimer DEF Cleared, SessionsInv, InnerType

LEMMA ClearedAlready ==
  ASSUME SessionsInv, NEW d \in Daemons, daemon[d].pc \notin LoopPC, UNCHANGED <<timer, events>>
  PROVE  Cleared(d)
  BY DEF Cleared, SessionsInv, InnerType, SessionInv, Session

\* d is where it has no loop, before its bind or on its way out.
LEMMA OutOfLoop ==
  ASSUME SessionsInv, NEW d \in Daemons, NEW pc, Moves(d, pc), pc \notin LoopPC, Cleared(d), ConnOK',
         \A e \in Daemons : e # d => SameSessions(e),
         pc \in SessionPC \/ To(d, {"hello", "active"})' = {},
         pc \in LeavingPC \/ daemon'[d].init = "pending"
  PROVE  SessionsInv'
<1>1. InnerType'
  BY DEF InnerType, Moves, Cleared
<1>2. ASSUME NEW e \in Daemons, e # d PROVE SessionInv(e)'
  <2>1. /\ daemon'[e] = daemon[e] /\ timer'[e] = timer[e] /\ events'[e] = events[e]
        /\ SameSessions(e) /\ SessionInv(e)
    BY <1>2 DEF Moves, Cleared, SessionsInv
  <2> QED
    BY <2>1 DEF SessionInv, SameSessions
<1>3. SessionInv(d)'
  <2>1. pc \in SessionPC \/ (To(d, {"hello"})' = {} /\ To(d, {"active"})' = {})
    BY DEF To
  <2> QED
    BY <2>1 DEF SessionInv, Session, Moves, Cleared
<1> QED
  BY <1>1, <1>2, <1>3 DEF SessionsInv

\* Nobody's loop or sessions notice.
LEMMA SessionsUntouched ==
  ASSUME SessionsInv, UNCHANGED <<daemon, timer, events>>, ConnOK',
         \A e \in Daemons : SameSessions(e)
  PROVE  SessionsInv'
<1>1. InnerType'
  BY DEF InnerType, SessionsInv
<1>2. ASSUME NEW e \in Daemons PROVE SessionInv(e)'
  BY DEF SessionInv, SameSessions, SessionsInv
<1> QED
  BY <1>1, <1>2 DEF SessionsInv

\* A step of d's loop.
LEMMA OneLoop ==
  ASSUME SessionsInv, NEW d \in Daemons, ConnOK',
         daemon' \in [Daemons -> DaemonState],
         \A e \in Daemons \ {d} : daemon'[e] = daemon[e],
         NEW t \in Timer, timer' = [timer EXCEPT ![d] = t],
         NEW q \in Seq(ConnEvent), events' = [events EXCEPT ![d] = q],
         \A e \in Daemons : e # d => SameSessions(e),
         Session(daemon'[d], t, q, To(d, {"hello"})', To(d, {"active"})')
  PROVE  SessionsInv'
<1>1. InnerType'
  BY DEF InnerType, SessionsInv
<1>2. ASSUME NEW e \in Daemons, e # d PROVE SessionInv(e)'
  <2>1. /\ daemon'[e] = daemon[e] /\ timer'[e] = timer[e] /\ events'[e] = events[e]
        /\ SameSessions(e) /\ SessionInv(e)
    BY <1>2 DEF SessionsInv, InnerType
  <2> QED
    BY <2>1 DEF SessionInv, SameSessions
<1>3. SessionInv(d)'
  <2>1. timer'[d] = t /\ events'[d] = q
    BY DEF SessionsInv, InnerType
  <2> QED
    BY <2>1 DEF SessionInv
<1> QED
  BY <1>1, <1>2, <1>3 DEF SessionsInv

LEMMA Facts ==
  ASSUME DaemonInv
  PROVE  DaemonTypeOK /\ SessionsInv /\ OuterType /\ ConnOK /\ \A d \in Daemons : SessionInv(d)
  BY DaemonInvParts, ConnTypes DEF DaemonInv, SessionsInv

\* Before the bind and after the abort, a daemon has no sessions.
LEMMA NoSessions ==
  ASSUME DaemonInv, NEW d \in Daemons, daemon[d].pc \notin SessionPC, SameSessions(d)
  PROVE  To(d, {"hello", "active"})' = {}
<1>1. To(d, {"hello"}) = {} /\ To(d, {"active"}) = {}
  BY Facts DEF SessionInv, Session
<1>2. To(d, {"hello"})' = {} /\ To(d, {"active"})' = {}
  BY <1>1 DEF SameSessions
<1> QED
  BY <1>2 DEF To

LEMMA DeadClears ==
  ASSUME DaemonInv, NEW d \in Daemons, Dead(d)
  PROVE  Moves(d, "dead") /\ Cleared(d) /\ daemon'[d].init = "pending"
  BY Facts, DeadMoves, ClearedByExcept DEF Dead

LEMMA NotYetReady ==
  ASSUME DaemonInv, NEW d \in Daemons, daemon[d].pc \notin LoopPC \cup LeavingPC
  PROVE  daemon[d].init = "pending"
  BY Facts DEF SessionInv, Session

LEMMA ProbeSessions ==
  ASSUME DaemonInv, NEW d \in Daemons, Probe(d)
  PROVE  SessionsInv'
<1> USE Facts DEF LoopPC, SessionPC, LeavingPC
<1>1. daemon[d].pc = "probe"
  BY DEF Probe
<1>2. CASE ExitsForAnother(d)
  <2>1. ConnOK' /\ \A e \in Daemons : SameSessions(e)
    BY <1>2, ConnectsConn DEF ExitsForAnother
  <2>2. Moves(d, "dead") /\ Cleared(d) /\ daemon'[d].init = "pending"
    BY <1>2, DeadClears DEF ExitsForAnother
  <2>3. To(d, {"hello", "active"})' = {}
    BY <1>1, <2>1, NoSessions
  <2> QED
    BY <2>1, <2>2, <2>3, OutOfLoop
<1>3. CASE Goto(d, "bind") /\ UNCHANGED <<timer, events, conn>>
  <2>1. ConnOK' /\ \A e \in Daemons : SameSessions(e)
    BY <1>3, SameConn DEF ConnOK
  <2>2. Moves(d, "bind") /\ Cleared(d) /\ daemon'[d].init = "pending"
    BY <1>1, <1>3, GotoMoves, ClearedAlready, NotYetReady DEF DaemonPC
  <2>3. To(d, {"hello", "active"})' = {}
    BY <1>1, <2>1, NoSessions
  <2> QED
    BY <2>1, <2>2, <2>3, OutOfLoop
<1> QED
  BY <1>2, <1>3 DEF Probe

LEMMA BindSessions ==
  ASSUME DaemonInv, NEW d \in Daemons, Bind(d)
  PROVE  SessionsInv'
<1> USE Facts DEF LoopPC, SessionPC, LeavingPC
<1>1. daemon[d].pc = "bind"
  BY DEF Bind
<1>2. /\ ConnOK' /\ \A e \in Daemons : SameSessions(e)
  <2>1. CASE ExitsForAnother(d)
    BY <2>1, ConnectsConn DEF ExitsForAnother
  <2>2. CASE UNCHANGED conn
    BY <2>2, SameConn DEF ConnOK
  <2> QED
    BY <2>1, <2>2 DEF Bind
<1>3. (Moves(d, "dead") \/ Moves(d, "bound")) /\ Cleared(d) /\ daemon'[d].init = "pending"
  <2>1. CASE Dead(d)
    BY <2>1, DeadClears
  <2>2. CASE Goto(d, "bound") /\ UNCHANGED <<timer, events>>
    BY <1>1, <2>2, GotoMoves, ClearedAlready, NotYetReady DEF DaemonPC
  <2> QED
    BY <2>1, <2>2 DEF Bind, ExitsForAnother
<1>4. To(d, {"hello", "active"})' = {}
  BY <1>1, <1>2, NoSessions
<1> QED
  BY <1>2, <1>3, <1>4, OutOfLoop

\* The loop starts with a new timer, an empty queue and no session.
LEMMA WritePidFileSessions ==
  ASSUME DaemonInv, NEW d \in Daemons, WritePidFile(d)
  PROVE  SessionsInv'
<1> USE Facts DEF LoopPC, SessionPC, LeavingPC
<1>1. daemon[d].pc = "bound"
  BY DEF WritePidFile
<1>2. CASE Dead(d) /\ EndAll(To(d, {"backlog"}))
  <2>1. ConnOK' /\ \A e \in Daemons : SameSessions(e)
    <3>1. {"backlog"} \cap {"hello", "active"} = {}
      OBVIOUS
    <3> QED
      BY <1>2, <3>1, EndAllConn
  <2>2. Moves(d, "dead") /\ Cleared(d) /\ daemon'[d].init = "pending"
    BY <1>2, DeadClears
  <2>3. To(d, {"hello", "active"})' = {}
    BY <1>1, <2>1, NoSessions
  <2> QED
    BY <2>1, <2>2, <2>3, OutOfLoop
<1>3. CASE Goto(d, "serve") /\ UNCHANGED <<timer, events, conn>>
  <2>1. ConnOK' /\ \A e \in Daemons : SameSessions(e)
    BY <1>3, SameConn DEF ConnOK
  <2>2. Moves(d, "serve") /\ daemon'[d].init = daemon[d].init
    BY <1>3, GotoMoves DEF DaemonPC
  <2>3. timer[d] = NewTimer /\ events[d] = << >>
    BY <1>1 DEF SessionInv, Session
  <2>4. To(d, {"hello"})' = {} /\ To(d, {"active"})' = {}
    BY <1>1, <2>1 DEF SessionInv, Session, SameSessions
  <2>5. daemon'[d].init = "pending"
    BY <1>1, <2>2, NotYetReady
  <2>6. Session(daemon'[d], timer[d], events[d], To(d, {"hello"})', To(d, {"active"})')
    <3>1. Balanced(timer[d], events[d], Cardinality(To(d, {"hello"})'), Cardinality(To(d, {"active"})'))
      BY <2>3, <2>4, BalancedEmpty, FS_EmptySet
    <3>2. ~timer[d].initOk /\ timer[d].deadline = Off
      BY <2>3 DEF NewTimer
    <3>3. daemon'[d].pc = "serve"
      BY <2>2 DEF Moves
    <3> QED
      BY <2>5, <3>1, <3>2, <3>3 DEF Session
  <2>7. /\ timer' = [timer EXCEPT ![d] = timer[d]] /\ timer[d] \in Timer
        /\ events' = [events EXCEPT ![d] = events[d]] /\ events[d] \in Seq(ConnEvent)
    BY <1>3 DEF SessionsInv, InnerType
  <2> QED
    BY <2>1, <2>2, <2>6, <2>7, OneLoop DEF Moves
<1> QED
  BY <1>2, <1>3 DEF WritePidFile

\* One connection changes: what becomes of a count.
LEMMA CountAfter ==
  ASSUME NEW i \in Conn, \A j \in Conn \ {i} : conn'[j] = conn[j], NEW d, NEW phase
  PROVE  Cardinality(To(d, {phase})') =
            Cardinality(To(d, {phase})) + (IF conn'[i].to = d /\ conn'[i].phase = phase THEN 1 ELSE 0)
              - (IF conn[i].to = d /\ conn[i].phase = phase THEN 1 ELSE 0)
<1> DEFINE S == To(d, {phase})
           T == To(d, {phase})'
<1>1. IsFiniteSet(S) /\ Cardinality(S) \in Nat
  BY SessionsFinite
<1>2. i \in S <=> conn[i].to = d /\ conn[i].phase = phase
  BY DEF To
<1>3. i \in T <=> conn'[i].to = d /\ conn'[i].phase = phase
  BY DEF To
<1>4. T = IF i \in T THEN S \cup {i} ELSE S \ {i}
  BY DEF To
<1> HIDE DEF S, T
<1> DEFINE n == Cardinality(S)
<1>5. Cardinality(S \cup {i}) = n + (IF i \in S THEN 0 ELSE 1)
  <2>1. CASE i \in S
    <3>1. S \cup {i} = S
      BY <2>1
    <3> QED
      BY <1>1, <2>1, <3>1
  <2>2. CASE i \notin S
    BY <1>1, <2>2, FS_AddElement
  <2> QED
    BY <2>1, <2>2
<1>6. Cardinality(S \ {i}) = n - (IF i \in S THEN 1 ELSE 0)
  <2>1. CASE i \in S
    BY <1>1, <2>1, FS_RemoveElement
  <2>2. CASE i \notin S
    <3>1. S \ {i} = S
      BY <2>2
    <3> QED
      BY <1>1, <2>2, <3>1
  <2> QED
    BY <2>1, <2>2
<1>7. Cardinality(T) = Cardinality(S) + (IF i \in T THEN 1 ELSE 0) - (IF i \in S THEN 1 ELSE 0)
  <2> DEFINE x == Cardinality(S \cup {i})
             y == Cardinality(S \ {i})
  <2>1. Cardinality(T) = IF i \in T THEN x ELSE y
    BY <1>4
  <2>2. n \in Nat /\ n = Cardinality(S)
    BY <1>1
  <2> HIDE DEF x, y, n
  <2>3. x = n + (IF i \in S THEN 0 ELSE 1) /\ y = n - (IF i \in S THEN 1 ELSE 0)
    BY <1>5, <1>6 DEF x, y, n
  <2>4. Cardinality(T) = n + (IF i \in T THEN 1 ELSE 0) - (IF i \in S THEN 1 ELSE 0)
    BY <2>1, <2>2, <2>3
  <2> QED
    BY <2>2, <2>4
<1> QED
  BY <1>2, <1>3, <1>7 DEF S, T

LEMMA PhaseConn ==
  ASSUME DaemonInv, NEW i \in Conn, conn[i].phase # "free", NEW phase \in {"hello", "active"},
         conn' = [conn EXCEPT ![i].phase = phase]
  PROVE  /\ ConnOK' /\ conn[i].to \in Daemons
         /\ conn'[i].to = conn[i].to /\ conn'[i].phase = phase
         /\ \A j \in Conn \ {i} : conn'[j] = conn[j]
         /\ \A d \in Daemons : conn[i].to # d => SameSessions(d)
<1> DEFINE c == [conn[i] EXCEPT !.phase = phase]
<1>1. conn[i] \in ConnState /\ conn[i].to \in Daemons
  BY Facts DEF ConnOK
<1>2. c \in ConnState /\ c.to = conn[i].to /\ c.phase = phase
  BY <1>1 DEF ConnState
<1>3. conn' = [conn EXCEPT ![i] = c]
  BY Facts DEF ConnOK
<1> HIDE DEF c
<1>4. /\ ConnOK' /\ conn'[i] = c
      /\ \A j \in Conn \ {i} : conn'[j] = conn[j]
      /\ \A d \in Daemons : conn[i].to # d => SameSessions(d)
  BY <1>1, <1>2, <1>3, OneConn
<1> QED
  BY <1>1, <1>2, <1>4

LEMMA InTheLoop ==
  ASSUME DaemonInv, NEW d \in Daemons, daemon[d].pc \in LoopPC
  PROVE  /\ timer[d] \in Timer /\ events[d] \in Seq(ConnEvent) /\ Single(timer[d])
         /\ timer[d].initOk <=> daemon[d].init = "ready"
         /\ timer[d].deadline # Off => ShouldArm(timer[d]) /\ timer[d].suspended = Off
         /\ Balanced(timer[d], events[d], Cardinality(To(d, {"hello"})), Cardinality(To(d, {"active"})))
         /\ Cardinality(To(d, {"hello"})) \in Nat /\ Cardinality(To(d, {"active"})) \in Nat
<1>1. timer[d] \in Timer /\ events[d] \in Seq(ConnEvent)
  BY Facts DEF SessionsInv, InnerType
<1>2. SessionInv(d)
  BY Facts
<1>3. Cardinality(To(d, {"hello"})) \in Nat /\ Cardinality(To(d, {"active"})) \in Nat
  BY SessionsFinite
<1> QED
  BY <1>1, <1>2, <1>3 DEF SessionInv, Session, Single

\* A turn of the loop ends with idle.update.
LEMMA TurnSession ==
  ASSUME NEW s, s.pc = "serve", NEW t \in Timer, Single(t), t.initOk <=> s.init = "ready",
         NEW q, NEW H, NEW A, Balanced(t, q, Cardinality(H), Cardinality(A))
  PROVE  Update(t) \in Timer /\ Session(s, Update(t), q, H, A)
<1> DEFINE u == Update(t)
<1>1. /\ u \in Timer /\ u.initOk = t.initOk /\ u.inHello = t.inHello
      /\ u.active = t.active /\ Single(u) /\ (u.deadline # Off => ShouldArm(t))
  BY UpdateArms
<1> HIDE DEF u
<1>2. Balanced(u, q, Cardinality(H), Cardinality(A))
  BY <1>1 DEF Balanced
<1>3. u.deadline # Off => ShouldArm(u) /\ u.suspended = Off
  BY <1>1 DEF ShouldArm, Single
<1>4. Session(s, u, q, H, A)
  BY <1>1, <1>2, <1>3 DEF Session, LoopPC, SessionPC
<1> QED
  BY <1>1, <1>4 DEF u

LEMMA AcceptSessions ==
  ASSUME DaemonInv, NEW d \in Daemons, NEW i \in Conn, Accept(d, i)
  PROVE  SessionsInv'
<1> USE Facts
<1> DEFINE t == timer[d]
           u == Accepted(t)
           h == Cardinality(To(d, {"hello"}))
           a == Cardinality(To(d, {"active"}))
<1>1. /\ daemon[d].pc = "serve" /\ conn[i].to = d /\ conn[i].phase = "backlog"
      /\ conn' = [conn EXCEPT ![i].phase = "hello"]
      /\ timer' = [timer EXCEPT ![d] = Update(u)]
      /\ UNCHANGED <<daemon, events>>
  BY DEF Accept, Turn
<1>2. /\ ConnOK' /\ conn'[i].to = d /\ conn'[i].phase = "hello"
      /\ \A j \in Conn \ {i} : conn'[j] = conn[j]
      /\ \A e \in Daemons : e # d => SameSessions(e)
  BY <1>1, PhaseConn
<1>3. /\ t \in Timer /\ events[d] \in Seq(ConnEvent) /\ Single(t)
      /\ t.initOk <=> daemon[d].init = "ready"
      /\ Balanced(t, events[d], h, a)
      /\ h \in Nat /\ a \in Nat
  BY <1>1, InTheLoop DEF LoopPC
<1>4. /\ Cardinality(To(d, {"hello"})') = h + 1
      /\ Cardinality(To(d, {"active"})') = a
  <2>1. /\ Cardinality(To(d, {"hello"})') = h + 1 - 0
        /\ Cardinality(To(d, {"active"})') = a + 0 - 0
    <3>1. ASSUME NEW phase
          PROVE  Cardinality(To(d, {phase})') = Cardinality(To(d, {phase}))
                    + (IF conn'[i].to = d /\ conn'[i].phase = phase THEN 1 ELSE 0)
                    - (IF conn[i].to = d /\ conn[i].phase = phase THEN 1 ELSE 0)
      BY <1>2, CountAfter
    <3> QED
      BY <1>1, <1>2, <3>1
  <2> QED
    BY <1>3, <2>1
<1>5. /\ u \in Timer /\ Single(u) /\ u.initOk = t.initOk
      /\ u.inHello = t.inHello + 1 /\ u.active = t.active
  BY <1>3, AcceptedSuspends
<1>6. Balanced(u, events[d], h + 1, a)
  <2> DEFINE q == events[d]
             x == Count(q, "HelloPassed", Len(q))
             y == Count(q, "HelloFailed", Len(q))
  <2>1. x \in Nat /\ y \in Nat
    <3>1. Len(q) \in Nat
      BY <1>3
    <3> QED
      BY <3>1, CountNumber
  <2>2. t.inHello = h + x + y
    BY <1>3 DEF Balanced
  <2> HIDE DEF x, y, h, a
  <2>3. u.inHello = (h + 1) + x + y
    BY <1>3, <1>5, <2>1, <2>2
  <2> QED
    BY <1>3, <1>5, <2>3 DEF Balanced, x, y
<1> HIDE DEF u, h, a
<1>7. Update(u) \in Timer /\ Session(daemon[d], Update(u), events[d], To(d, {"hello"})', To(d, {"active"})')
  BY <1>1, <1>3, <1>4, <1>5, <1>6, TurnSession
<1>8. /\ events' = [events EXCEPT ![d] = events[d]] /\ daemon' \in [Daemons -> DaemonState]
  BY <1>1 DEF SessionsInv, InnerType
<1> QED
  BY <1>1, <1>2, <1>3, <1>7, <1>8, OneLoop

LEMMA InitResultSessions ==
  ASSUME DaemonInv, NEW d \in Daemons, InitResult(d)
  PROVE  SessionsInv'
<1> USE Facts
<1> DEFINE t == timer[d]
           u == InitSucceeded(t)
           h == Cardinality(To(d, {"hello"}))
           a == Cardinality(To(d, {"active"}))
<1>1. /\ daemon[d].pc = "serve" /\ daemon[d].init = "pending" /\ UNCHANGED <<events, conn>>
  BY DEF InitResult
<1>2. PICK outcome \in {"ready", "failed"} :
        /\ daemon' = [daemon EXCEPT ![d].init = outcome]
        /\ timer' = IF outcome = "ready" THEN [timer EXCEPT ![d] = Update(u)] ELSE timer
  BY DEF InitResult, InitOutcome, Turn
<1>3. /\ daemon' \in [Daemons -> DaemonState] /\ \A e \in Daemons \ {d} : daemon'[e] = daemon[e]
      /\ daemon'[d].pc = "serve" /\ daemon'[d].init = outcome
  BY <1>1, <1>2 DEF SessionsInv, InnerType, DaemonState
<1>4. ConnOK' /\ \A e \in Daemons : SameSessions(e)
  BY <1>1, SameConn DEF ConnOK
<1>5. /\ t \in Timer /\ events[d] \in Seq(ConnEvent) /\ Single(t)
      /\ t.initOk <=> daemon[d].init = "ready"
      /\ t.deadline # Off => ShouldArm(t) /\ t.suspended = Off
      /\ Balanced(t, events[d], h, a)
  BY <1>1, InTheLoop DEF LoopPC
<1>6. events' = [events EXCEPT ![d] = events[d]]
  BY <1>1 DEF SessionsInv, InnerType
<1>7. Cardinality(To(d, {"hello"})') = h /\ Cardinality(To(d, {"active"})') = a
  BY <1>4 DEF SameSessions
<1> HIDE DEF h, a
<1>8. CASE outcome = "ready"
  <2>1. /\ u \in Timer /\ u.initOk /\ u.inHello = t.inHello /\ u.active = t.active
        /\ u.deadline = t.deadline /\ u.suspended = t.suspended
    BY <1>5, InitSucceededArms
  <2>2. Single(u) /\ Balanced(u, events[d], h, a)
    BY <1>5, <2>1 DEF Single, Balanced
  <2> HIDE DEF u
  <2>3. Update(u) \in Timer /\ Session(daemon'[d], Update(u), events[d], To(d, {"hello"})', To(d, {"active"})')
    BY <1>3, <1>7, <1>8, <2>1, <2>2, TurnSession
  <2> QED
    BY <1>2, <1>3, <1>4, <1>5, <1>6, <1>8, <2>3, OneLoop
<1>9. CASE outcome = "failed"
  <2>1. Session(daemon'[d], t, events[d], To(d, {"hello"})', To(d, {"active"})')
    BY <1>1, <1>3, <1>5, <1>7, <1>9 DEF Session, LoopPC, SessionPC
  <2>2. timer' = [timer EXCEPT ![d] = t]
    BY <1>2, <1>9 DEF SessionsInv, InnerType
  <2> QED
    BY <1>3, <1>4, <1>5, <1>6, <2>1, <2>2, OneLoop
<1> QED
  BY <1>8, <1>9

LEMMA EventSessions ==
  ASSUME DaemonInv, NEW d \in Daemons, Event(d)
  PROVE  SessionsInv'
<1> USE Facts
<1> DEFINE t == timer[d]
           q == events[d]
           u == Apply(t, Head(q))
           h == Cardinality(To(d, {"hello"}))
           a == Cardinality(To(d, {"active"}))
<1>1. /\ daemon[d].pc = "serve" /\ q # << >> /\ UNCHANGED <<daemon, conn>>
      /\ timer' = [timer EXCEPT ![d] = Update(u)]
      /\ events' = [events EXCEPT ![d] = Tail(q)]
  BY DEF Event, Turn, SessionsInv, InnerType
<1>2. ConnOK' /\ \A e \in Daemons : SameSessions(e)
  BY <1>1, SameConn DEF ConnOK
<1>3. /\ t \in Timer /\ q \in Seq(ConnEvent) /\ Single(t)
      /\ t.initOk <=> daemon[d].init = "ready"
      /\ Balanced(t, q, h, a) /\ h \in Nat /\ a \in Nat
  BY <1>1, InTheLoop DEF LoopPC
<1>4. Balanced(u, Tail(q), h, a) /\ Head(q) \in ConnEvent
  BY <1>1, <1>3, BalancedApply
<1>5. /\ u \in Timer /\ u.initOk = t.initOk /\ u.deadline = t.deadline
      /\ u.suspended \in {Off, t.suspended}
  BY <1>3, <1>4, ApplyCounts
<1>6. Tail(q) \in Seq(ConnEvent)
  BY <1>1, <1>3
<1>7. Single(u)
  BY <1>3, <1>5 DEF Single
<1>8. Cardinality(To(d, {"hello"})') = h /\ Cardinality(To(d, {"active"})') = a
  BY <1>2 DEF SameSessions
<1> HIDE DEF u, h, a
<1>9. Update(u) \in Timer /\ Session(daemon[d], Update(u), Tail(q), To(d, {"hello"})', To(d, {"active"})')
  BY <1>1, <1>3, <1>4, <1>5, <1>7, <1>8, TurnSession
<1>10. daemon' \in [Daemons -> DaemonState]
  BY <1>1 DEF SessionsInv, InnerType
<1> HIDE DEF q
<1> QED
  BY <1>1, <1>2, <1>6, <1>9, <1>10, OneLoop

LEMMA TriggerSessions ==
  ASSUME DaemonInv, NEW d \in Daemons, IdleDeadline(d) \/ GraceDeadline(d) \/ Signal(d)
  PROVE  SessionsInv'
<1> USE Facts
<1>1. /\ daemon[d].pc = "serve" /\ UNCHANGED <<timer, events, conn>>
  BY DEF IdleDeadline, GraceDeadline, Signal, Trigger
<1>2. PICK why \in {"idle", "grace", "signal"} :
        /\ daemon' = [daemon EXCEPT ![d].pc = "locking", ![d].why = why]
        /\ why = "idle" => timer[d].deadline = 0
  BY DEF IdleDeadline, GraceDeadline, Signal, Trigger
<1>3. /\ Moves(d, "locking") /\ daemon'[d].why = why /\ daemon'[d].init = daemon[d].init
  BY <1>2, TurnMoves DEF DaemonPC, Why
<1>4. ConnOK' /\ \A e \in Daemons : SameSessions(e)
  BY <1>1, SameConn DEF ConnOK
<1>5. /\ timer[d] \in Timer /\ events[d] \in Seq(ConnEvent)
      /\ timer[d].initOk <=> daemon[d].init = "ready"
      /\ timer[d].deadline # Off => ShouldArm(timer[d]) /\ timer[d].suspended = Off
      /\ Balanced(timer[d], events[d], Cardinality(To(d, {"hello"})), Cardinality(To(d, {"active"})))
  BY <1>1, InTheLoop DEF LoopPC
<1>6. /\ events' = [events EXCEPT ![d] = events[d]] /\ timer' = [timer EXCEPT ![d] = timer[d]]
  BY <1>1 DEF SessionsInv, InnerType
<1>7. Session(daemon'[d], timer[d], events[d], To(d, {"hello"}), To(d, {"active"}))
  BY <1>2, <1>3, <1>5 DEF Session, LoopPC, SessionPC, Moves
<1>8. Session(daemon'[d], timer[d], events[d], To(d, {"hello"})', To(d, {"active"})')
  BY <1>4, <1>7 DEF SameSessions
<1> QED
  BY <1>3, <1>4, <1>5, <1>6, <1>8, OneLoop DEF Moves

\* The loop is left, with or without what its backlog holds.
LEMMA CommitSessions ==
  ASSUME DaemonInv, NEW d \in Daemons, Commit(d), UNCHANGED conn \/ EndAll(To(d, {"backlog"}))
  PROVE  SessionsInv'
<1> USE Facts DEF LoopPC, SessionPC, LeavingPC
<1>1. ConnOK' /\ \A e \in Daemons : SameSessions(e)
  <2>1. CASE UNCHANGED conn
    BY <2>1, SameConn DEF ConnOK
  <2>2. CASE EndAll(To(d, {"backlog"}))
    <3>1. {"backlog"} \cap {"hello", "active"} = {}
      OBVIOUS
    <3> QED
      BY <2>2, <3>1, EndAllConn
  <2> QED
    BY <2>1, <2>2
<1>2. Moves(d, "close") /\ Cleared(d)
  BY GotoMoves, ClearedByExcept DEF Commit, DaemonPC
<1> QED
  BY <1>1, <1>2, OutOfLoop

LEMMA ShutdownLocksSessions ==
  ASSUME DaemonInv, NEW d \in Daemons, ShutdownLocks(d)
  PROVE  SessionsInv'
<1> USE Facts
<1>1. daemon[d].pc = "locking"
  BY DEF ShutdownLocks
<1>2. CASE daemon[d].why = "idle"
  <2>1. Goto(d, "recheck") /\ UNCHANGED <<timer, events, conn>>
    BY <1>2 DEF ShutdownLocks
  <2>2. Moves(d, "recheck") /\ daemon'[d].why = "idle" /\ daemon'[d].init = daemon[d].init
    BY <1>2, <2>1, GotoMoves DEF DaemonPC
  <2>3. ConnOK' /\ \A e \in Daemons : SameSessions(e)
    BY <2>1, SameConn DEF ConnOK
  <2>4. SessionInv(d) /\ timer[d] \in Timer /\ events[d] \in Seq(ConnEvent)
    BY DEF SessionsInv, InnerType
  <2>5. Session(daemon'[d], timer[d], events[d], To(d, {"hello"}), To(d, {"active"}))
    BY <1>1, <1>2, <2>2, <2>4 DEF SessionInv, Session, LoopPC, SessionPC, Moves
  <2>6. Session(daemon'[d], timer[d], events[d], To(d, {"hello"})', To(d, {"active"})')
    BY <2>3, <2>5 DEF SameSessions
  <2>7. /\ events' = [events EXCEPT ![d] = events[d]] /\ timer' = [timer EXCEPT ![d] = timer[d]]
    BY <2>1 DEF SessionsInv, InnerType
  <2> QED
    BY <2>2, <2>3, <2>4, <2>6, <2>7, OneLoop DEF Moves
<1>3. CASE daemon[d].why # "idle"
  BY <1>3, CommitSessions DEF ShutdownLocks
<1> QED
  BY <1>2, <1>3

\* A daemon whose deadline has passed has nothing to count, nothing queued and no session.
LEMMA IdleIsQuiet ==
  ASSUME DaemonInv, NEW d \in Daemons, daemon[d].pc \in {"locking", "recheck"}, daemon[d].why = "idle"
  PROVE  /\ timer[d] \in Timer /\ timer[d].deadline = 0 /\ timer[d].suspended = Off
         /\ ShouldArm(timer[d]) /\ events[d] = << >>
         /\ Cardinality(To(d, {"hello"})) = 0 /\ Cardinality(To(d, {"active"})) = 0
         /\ To(d, {"hello"}) = {} /\ To(d, {"active"}) = {}
<1> USE Facts
<1>1. /\ timer[d] \in Timer /\ events[d] \in Seq(ConnEvent)
      /\ timer[d].deadline # Off => ShouldArm(timer[d]) /\ timer[d].suspended = Off
      /\ Balanced(timer[d], events[d], Cardinality(To(d, {"hello"})), Cardinality(To(d, {"active"})))
      /\ Cardinality(To(d, {"hello"})) \in Nat /\ Cardinality(To(d, {"active"})) \in Nat
  BY InTheLoop DEF LoopPC
<1>2. timer[d].deadline = 0
  BY DEF SessionInv, Session, LoopPC
<1>3. ShouldArm(timer[d]) /\ timer[d].suspended = Off
  BY <1>1, <1>2 DEF Off
<1>4. timer[d].inHello = 0 /\ timer[d].active = 0
  BY <1>3 DEF ShouldArm
<1>5. /\ events[d] = << >> /\ Cardinality(To(d, {"hello"})) = 0 /\ Cardinality(To(d, {"active"})) = 0
  BY <1>1, <1>4, BalancedQuiet
<1>6. To(d, {"hello"}) = {} /\ To(d, {"active"}) = {}
  BY <1>5, SessionsFinite, FS_EmptySet
<1> QED
  BY <1>1, <1>2, <1>3, <1>5, <1>6

LEMMA ShutdownLockBusySessions ==
  ASSUME DaemonInv, NEW d \in Daemons, ShutdownLockBusy(d)
  PROVE  SessionsInv'
<1> USE Facts
<1> DEFINE t == timer[d]
           u == Postpone(t)
<1>1. daemon[d].pc = "locking" /\ UNCHANGED conn
  BY DEF ShutdownLockBusy
<1>2. CASE daemon[d].why = "idle"
  <2>1. /\ daemon' = [daemon EXCEPT ![d].pc = "serve", ![d].why = "no"]
        /\ timer' = [timer EXCEPT ![d] = Update(u)] /\ UNCHANGED events
    BY <1>2 DEF ShutdownLockBusy, Turn
  <2>2. Moves(d, "serve") /\ daemon'[d].init = daemon[d].init
    BY <2>1, TurnMoves DEF DaemonPC, Why
  <2>3. ConnOK' /\ \A e \in Daemons : SameSessions(e)
    BY <1>1, SameConn DEF ConnOK
  <2>4. /\ t \in Timer /\ t.suspended = Off /\ events[d] \in Seq(ConnEvent)
        /\ t.initOk <=> daemon[d].init = "ready"
        /\ Balanced(t, events[d], Cardinality(To(d, {"hello"})), Cardinality(To(d, {"active"})))
    BY <1>1, <1>2, InTheLoop, IdleIsQuiet DEF LoopPC
  <2>5. /\ u \in Timer /\ u.initOk = t.initOk /\ u.inHello = t.inHello /\ u.active = t.active
        /\ u.suspended = Off
    BY <2>4, InstantNumbers DEF Postpone, Timer
  <2>6. Single(u) /\ Balanced(u, events[d], Cardinality(To(d, {"hello"})'), Cardinality(To(d, {"active"})'))
    BY <2>3, <2>4, <2>5 DEF Single, Balanced, SameSessions
  <2> HIDE DEF u
  <2>7. Update(u) \in Timer /\ Session(daemon'[d], Update(u), events[d], To(d, {"hello"})', To(d, {"active"})')
    BY <2>2, <2>4, <2>5, <2>6, TurnSession DEF Moves
  <2>8. events' = [events EXCEPT ![d] = events[d]]
    BY <2>1 DEF SessionsInv, InnerType
  <2> QED
    BY <2>1, <2>2, <2>3, <2>4, <2>7, <2>8, OneLoop DEF Moves
<1>3. CASE daemon[d].why # "idle"
  BY <1>1, <1>3, CommitSessions DEF ShutdownLockBusy
<1> QED
  BY <1>2, <1>3

\* The second look: what it adopts is the backlog, and the counts have not changed since the first.
LEMMA RecheckSteps ==
  ASSUME DaemonInv, NEW d \in Daemons, Recheck(d)
  PROVE  \/ Commit(d) /\ UNCHANGED conn /\ To(d, {"backlog"}) = {}
         \/ /\ To(d, {"backlog"}) # {}
            /\ conn' = [i \in Conn |-> IF i \in To(d, {"backlog"}) THEN [conn[i] EXCEPT !.phase = "hello"]
                                       ELSE conn[i]]
            /\ daemon' = [daemon EXCEPT ![d].pc = "serve", ![d].why = "no"]
            /\ timer' = [timer EXCEPT ![d] = Update(Adopt(timer[d], Cardinality(To(d, {"backlog"}))))]
            /\ events' = [events EXCEPT ![d] = << >>]
<1>1. daemon[d].pc = "recheck"
  BY DEF Recheck
<1>2. daemon[d].why = "idle"
  BY <1>1, Facts DEF SessionInv, Session, LoopPC
<1>3. events[d] = << >> /\ ShouldArm(timer[d])
  BY <1>1, <1>2, IdleIsQuiet
<1>4. ApplyAll(timer[d], events[d]) = timer[d]
  BY <1>3, NothingToApply
<1> QED
  BY <1>3, <1>4 DEF Recheck, FoundInBacklog, Turn

LEMMA RecheckSessions ==
  ASSUME DaemonInv, NEW d \in Daemons, Recheck(d)
  PROVE  SessionsInv'
<1> USE Facts
<1>1. CASE Commit(d) /\ UNCHANGED conn
  BY <1>1, CommitSessions
<1> DEFINE B == To(d, {"backlog"})
           n == Cardinality(B)
           t == timer[d]
           u == Adopt(t, n)
<1>2. CASE /\ B # {}
           /\ conn' = [i \in Conn |-> IF i \in B THEN [conn[i] EXCEPT !.phase = "hello"] ELSE conn[i]]
           /\ daemon' = [daemon EXCEPT ![d].pc = "serve", ![d].why = "no"]
           /\ timer' = [timer EXCEPT ![d] = Update(u)]
           /\ events' = [events EXCEPT ![d] = << >>]
  <2>1. daemon[d].pc = "recheck" /\ daemon[d].why = "idle"
    BY DEF Recheck, SessionInv, Session, LoopPC
  <2>2. /\ t \in Timer /\ Single(t)
        /\ t.initOk <=> daemon[d].init = "ready"
    BY <2>1, InTheLoop DEF LoopPC
  <2>3. /\ ShouldArm(t) /\ To(d, {"hello"}) = {} /\ To(d, {"active"}) = {} /\ events[d] = << >>
    BY <2>1, IdleIsQuiet
  <2>4. n \in Nat \ {0}
    BY <1>2, SessionsFinite, FS_EmptySet
  <2>5. Moves(d, "serve") /\ daemon'[d].init = daemon[d].init
    BY <1>2, TurnMoves DEF DaemonPC, Why
  <2>6. ASSUME NEW i \in Conn
        PROVE  /\ conn[i] \in ConnState /\ conn'[i] \in ConnState
               /\ i \in B => /\ conn[i].to = d /\ conn[i].phase = "backlog"
                             /\ conn'[i].to = d /\ conn'[i].phase = "hello"
               /\ i \notin B => conn'[i] = conn[i]
    <3>1. conn[i] \in ConnState
      BY DEF ConnOK
    <3>2. CASE i \in B
      BY <1>2, <3>1, <3>2 DEF To, ConnState
    <3>3. CASE i \notin B
      BY <1>2, <3>1, <3>3
    <3> QED
      BY <3>2, <3>3
  <2>7. ConnOK'
    <3>1. conn' = [i \in Conn |-> conn'[i]]
      BY <1>2
    <3> HIDE DEF B
    <3> QED
      BY <2>6, <3>1 DEF ConnOK
  <2>8. ASSUME NEW e \in Daemons, e # d PROVE SameSessions(e)
    <3>1. ASSUME NEW i \in Conn
          PROVE  conn'[i] = conn[i] \/ (conn[i].to # e /\ conn'[i].to # e)
      BY <2>6, <2>8
    <3> QED
      BY <3>1, SessionsStay
  <2>9. To(d, {"hello"})' = B /\ To(d, {"active"})' = {}
    BY <2>3, <2>6 DEF To
  <2>10. u \in Timer /\ Single(u) /\ u.initOk = t.initOk /\ u.inHello = n /\ u.active = 0
    <3>1. t.inHello = 0 /\ t.active = 0
      BY <2>3 DEF ShouldArm
    <3>2. t.inHello + n = n
      BY <2>4, <3>1
    <3> HIDE DEF n
    <3> QED
      BY <2>2, <2>4, <3>1, <3>2, AdoptSuspends
  <2>11. Balanced(u, << >>, Cardinality(To(d, {"hello"})'), Cardinality(To(d, {"active"})'))
    <3> DEFINE q == << >>
    <3>1. Len(q) = 0 /\ 0..0 = {0}
      OBVIOUS
    <3>2. Cardinality(To(d, {"hello"})') = n /\ Cardinality(To(d, {"active"})') = 0
      BY <2>9, FS_EmptySet
    <3> HIDE DEF q, n, u
    <3>3. n = n + 0 + 0 /\ 0 + 0 = 0 + 0
      BY <2>4
    <3>4. Balanced(u, q, n, 0)
      BY <2>10, <3>1, <3>3, CountNone DEF Balanced
    <3> QED
      BY <3>2, <3>4 DEF q
  <2> HIDE DEF u
  <2>12. Update(u) \in Timer /\ Session(daemon'[d], Update(u), << >>, To(d, {"hello"})', To(d, {"active"})')
    BY <2>2, <2>5, <2>10, <2>11, TurnSession DEF Moves
  <2>13. << >> \in Seq(ConnEvent)
    OBVIOUS
  <2> QED
    BY <1>2, <2>5, <2>7, <2>8, <2>12, <2>13, OneLoop DEF Moves
<1> QED
  BY <1>1, <1>2, RecheckSteps

\* Out of the loop, timer and queue stay as they were left.
LEMMA LeavingSessions ==
  ASSUME DaemonInv, NEW d \in Daemons, NEW pc \in LeavingPC, daemon[d].pc \in LeavingPC, Goto(d, pc),
         UNCHANGED <<timer, events>>, ConnOK', \A e \in Daemons : e # d => SameSessions(e),
         pc \in SessionPC \/ To(d, {"hello", "active"})' = {}
  PROVE  SessionsInv'
<1> USE Facts DEF LoopPC, SessionPC, LeavingPC
<1>1. Moves(d, pc) /\ Cleared(d)
  BY GotoMoves, ClearedAlready DEF DaemonPC
<1> QED
  BY <1>1, OutOfLoop

LEMMA DropListenerSessions ==
  ASSUME DaemonInv, NEW d \in Daemons, DropListener(d)
  PROVE  SessionsInv'
<1> USE Facts DEF LoopPC, SessionPC, LeavingPC
<1>1. ConnOK' /\ \A e \in Daemons : SameSessions(e)
  <2>1. {"backlog"} \cap {"hello", "active"} = {} /\ EndAll(To(d, {"backlog"}))
    BY DEF DropListener
  <2> QED
    BY <2>1, EndAllConn
<1>2. \E pc \in {"unlink", "abort"} : Goto(d, pc)
  BY DEF DropListener
<1> QED
  BY <1>1, <1>2, LeavingSessions DEF DropListener

LEMMA RemoveFilesSessions ==
  ASSUME DaemonInv, NEW d \in Daemons, RemoveFiles(d)
  PROVE  SessionsInv'
<1> USE Facts DEF LoopPC, SessionPC, LeavingPC
<1>1. ConnOK' /\ \A e \in Daemons : SameSessions(e)
  BY SameConn DEF RemoveFiles, ConnOK
<1> QED
  BY <1>1, LeavingSessions DEF RemoveFiles

LEMMA AbortSessionsSessions ==
  ASSUME DaemonInv, NEW d \in Daemons, AbortSessions(d)
  PROVE  SessionsInv'
<1> USE Facts DEF LoopPC, SessionPC, LeavingPC
<1>1. /\ ConnOK' /\ \A e \in Daemons : e # d => SameSessions(e)
      /\ To(d, {"hello", "active"})' = {}
  BY EndAllConn DEF AbortSessions
<1> QED
  BY <1>1, LeavingSessions DEF AbortSessions

LEMMA ExitSessions ==
  ASSUME DaemonInv, NEW d \in Daemons, Exit(d)
  PROVE  SessionsInv'
<1> USE Facts DEF LoopPC, SessionPC, LeavingPC
<1>1. ConnOK' /\ \A e \in Daemons : SameSessions(e)
  BY SameConn DEF Exit, ConnOK
<1>2. Moves(d, "dead") /\ Cleared(d) /\ daemon'[d].init = "pending"
  BY DeadClears DEF Exit
<1>3. To(d, {"hello", "active"})' = {}
  BY <1>1, NoSessions DEF Exit
<1> QED
  BY <1>1, <1>2, <1>3, OutOfLoop

LEMMA KilledSessions ==
  ASSUME DaemonInv, NEW d \in Daemons, Killed(d)
  PROVE  SessionsInv'
<1> USE Facts DEF LoopPC, SessionPC, LeavingPC
<1>1. Moves(d, "dead") /\ Cleared(d) /\ daemon'[d].init = "pending"
  BY DeadClears DEF Killed
<1>2. /\ ConnOK' /\ \A e \in Daemons : e # d => SameSessions(e)
      /\ To(d, {"hello", "active"})' = {}
  <2>1. {"hello", "active"} \subseteq {"backlog", "hello", "active"}
    OBVIOUS
  <2> QED
    BY <2>1, EndAllConn DEF Killed
<1> QED
  BY <1>1, <1>2, OutOfLoop

\* A session of d goes on to another phase or ends, and reports it if there is a loop to hear it.
LEMMA SessionStep ==
  ASSUME DaemonInv, NEW i \in Conn, NEW d \in Daemons, conn[i].to = d, Sessions(d),
         NEW event \in ConnEvent, Report(i, event), UNCHANGED <<daemon, timer>>, ConnOK',
         \A j \in Conn \ {i} : conn'[j] = conn[j],
         \A e \in Daemons : e # d => SameSessions(e),
         conn[i].phase = (IF event = "Ended" THEN "active" ELSE "hello"),
         IF event = "HelloPassed" THEN conn'[i].to = d /\ conn'[i].phase = "active"
         ELSE conn'[i].phase \notin {"hello", "active"}
  PROVE  SessionsInv'
<1> USE Facts
<1> DEFINE t == timer[d]
           q == events[d]
           h == Cardinality(To(d, {"hello"}))
           a == Cardinality(To(d, {"active"}))
           h2 == Cardinality(To(d, {"hello"})')
           a2 == Cardinality(To(d, {"active"})')
<1>1. InLoop(d) <=> daemon[d].pc \in LoopPC
  BY DEF InLoop, LoopPC
<1>2. daemon[d].pc \in SessionPC
  BY DEF Sessions, InLoop, SessionPC, LoopPC
<1>3. /\ daemon' \in [Daemons -> DaemonState] /\ t \in Timer /\ q \in Seq(ConnEvent)
      /\ timer' = [timer EXCEPT ![d] = t]
  BY DEF SessionsInv, InnerType
<1>4. CASE InLoop(d)
  <2>1. events' = [events EXCEPT ![d] = Append(q, event)]
    BY <1>4 DEF Report, SessionsInv, InnerType
  <2>2. Balanced(t, q, h, a) /\ h \in Nat /\ a \in Nat
    BY <1>1, <1>4, InTheLoop
  <2>3. h2 \in Nat /\ a2 \in Nat
    <3>1. ASSUME NEW phase PROVE Cardinality(To(d, {phase})') \in Nat
      <4>1. IsFiniteSet(Conn) /\ To(d, {phase})' \subseteq Conn
        <5>1. IsFiniteSet(Conn)
          BY ConnFinite
        <5>2. To(d, {phase})' \subseteq Conn
          BY DEF To
        <5> QED
          BY <5>1, <5>2
      <4> QED
        BY <4>1, FS_Subset, FS_CardinalityType
    <3> QED
      BY <3>1
  <2>4. ASSUME NEW phase
        PROVE  Cardinality(To(d, {phase})') = Cardinality(To(d, {phase}))
                    + (IF conn'[i].to = d /\ conn'[i].phase = phase THEN 1 ELSE 0)
                    - (IF conn[i].to = d /\ conn[i].phase = phase THEN 1 ELSE 0)
    BY CountAfter
  <2>5. /\ h2 = h + 0 - (IF event = "Ended" THEN 0 ELSE 1)
        /\ a2 = a + (IF event = "HelloPassed" THEN 1 ELSE 0) - (IF event = "Ended" THEN 1 ELSE 0)
    BY <2>4
  <2> HIDE DEF h, a, h2, a2
  <2>6. /\ h = h2 + (IF event = "Ended" THEN 0 ELSE 1)
        /\ a2 + (IF event = "Ended" THEN 1 ELSE 0) = a + (IF event = "HelloPassed" THEN 1 ELSE 0)
    BY <2>2, <2>3, <2>5
  <2>7. Balanced(t, Append(q, event), h2, a2)
    BY <1>3, <2>2, <2>3, <2>6, BalancedAppend
  <2>8. Session(daemon[d], t, q, To(d, {"hello"}), To(d, {"active"}))
    BY DEF SessionInv
  <2>9. Session(daemon'[d], t, Append(q, event), To(d, {"hello"})', To(d, {"active"})')
    BY <1>1, <1>2, <1>4, <2>7, <2>8 DEF Session, h2, a2
  <2>10. Append(q, event) \in Seq(ConnEvent)
    BY <1>3
  <2> HIDE DEF t, q
  <2> QED
    BY <1>3, <2>1, <2>9, <2>10, OneLoop
<1>5. CASE ~InLoop(d)
  <2>1. events' = [events EXCEPT ![d] = q]
    BY <1>5 DEF Report, SessionsInv, InnerType
  <2>2. Session(daemon'[d], t, q, To(d, {"hello"})', To(d, {"active"})')
    BY <1>1, <1>2, <1>5 DEF SessionInv, Session
  <2> HIDE DEF t, q
  <2> QED
    BY <1>3, <2>1, <2>2, OneLoop
<1> QED
  BY <1>4, <1>5

LEMMA HelloPassesSessions ==
  ASSUME DaemonInv, NEW i \in Conn, HelloPasses(i)
  PROVE  SessionsInv'
<1>1. /\ conn[i].phase = "hello" /\ Sessions(conn[i].to) /\ Report(i, "HelloPassed")
      /\ conn' = [conn EXCEPT ![i].phase = "active"] /\ UNCHANGED <<daemon, timer>>
  BY DEF HelloPasses, SessionVars
<1>2. /\ ConnOK' /\ conn[i].to \in Daemons
      /\ conn'[i].to = conn[i].to /\ conn'[i].phase = "active"
      /\ \A j \in Conn \ {i} : conn'[j] = conn[j]
      /\ \A d \in Daemons : conn[i].to # d => SameSessions(d)
  BY <1>1, PhaseConn
<1>3. PICK d \in Daemons : conn[i].to = d
  BY <1>2
<1> QED
  BY <1>1, <1>2, <1>3, SessionStep DEF ConnEvent

LEMMA ServerEndsStep ==
  ASSUME DaemonInv, NEW i \in Conn, conn[i].phase \in {"hello", "active"},
         conn' = [conn EXCEPT ![i] = ServerEnds(@)]
  PROVE  /\ ConnOK' /\ conn[i].to \in Daemons
         /\ conn'[i].phase \notin {"hello", "active"}
         /\ \A j \in Conn \ {i} : conn'[j] = conn[j]
         /\ \A d \in Daemons : conn[i].to # d => SameSessions(d)
<1> DEFINE c == ServerEnds(conn[i])
<1>1. conn[i] \in ConnState /\ conn[i].to \in Daemons
  BY Facts DEF ConnOK
<1>2. /\ c \in ConnState /\ c.phase \in {"ended", "free"}
      /\ c.phase = "ended" => c.to = conn[i].to
      /\ c.to \in {None, conn[i].to}
  BY <1>1, ServerEndsConn, NoConnIsFree DEF ServerEnds, ConnState
<1>3. conn' = [conn EXCEPT ![i] = c]
  BY Facts DEF ConnOK
<1> HIDE DEF c
<1>4. /\ ConnOK' /\ conn'[i] = c
      /\ \A j \in Conn \ {i} : conn'[j] = conn[j]
      /\ \A d \in Daemons : conn[i].to # d => SameSessions(d)
  BY <1>1, <1>2, <1>3, OneConn
<1> QED
  BY <1>1, <1>2, <1>4

LEMMA HelloFailsSessions ==
  ASSUME DaemonInv, NEW i \in Conn, HelloFails(i)
  PROVE  SessionsInv'
<1>1. /\ conn[i].phase = "hello" /\ Sessions(conn[i].to) /\ Report(i, "HelloFailed")
      /\ conn' = [conn EXCEPT ![i] = ServerEnds(@)] /\ UNCHANGED <<daemon, timer>>
  BY DEF HelloFails, SessionVars
<1>2. /\ ConnOK' /\ conn[i].to \in Daemons /\ conn'[i].phase \notin {"hello", "active"}
      /\ \A j \in Conn \ {i} : conn'[j] = conn[j]
      /\ \A d \in Daemons : conn[i].to # d => SameSessions(d)
  BY <1>1, ServerEndsStep
<1>3. PICK d \in Daemons : conn[i].to = d
  BY <1>2
<1> QED
  BY <1>1, <1>2, <1>3, SessionStep DEF ConnEvent

LEMMA SessionEndsSessions ==
  ASSUME DaemonInv, NEW i \in Conn, SessionEnds(i)
  PROVE  SessionsInv'
<1>1. /\ conn[i].phase = "active" /\ Sessions(conn[i].to) /\ Report(i, "Ended")
      /\ conn' = [conn EXCEPT ![i] = ServerEnds(@)] /\ UNCHANGED <<daemon, timer>>
  BY DEF SessionEnds, SessionVars
<1>2. /\ ConnOK' /\ conn[i].to \in Daemons /\ conn'[i].phase \notin {"hello", "active"}
      /\ \A j \in Conn \ {i} : conn'[j] = conn[j]
      /\ \A d \in Daemons : conn[i].to # d => SameSessions(d)
  BY <1>1, ServerEndsStep
<1>3. PICK d \in Daemons : conn[i].to = d
  BY <1>2
<1> QED
  BY <1>1, <1>2, <1>3, SessionStep DEF ConnEvent

LEMMA TickSessions ==
  ASSUME DaemonInv, Tick
  PROVE  SessionsInv'
<1> USE Facts
<1>1. /\ timer' = [d \in Daemons |-> IF InLoop(d) THEN Elapse(timer[d]) ELSE timer[d]]
      /\ UNCHANGED <<daemon, events, conn>>
  BY DEF Tick
<1>2. ConnOK' /\ \A e \in Daemons : SameSessions(e)
  BY <1>1, SameConn DEF ConnOK
<1>3. ASSUME NEW d \in Daemons
      PROVE  /\ timer'[d] \in Timer
             /\ Session(daemon[d], timer'[d], events[d], To(d, {"hello"}), To(d, {"active"}))
  <2> DEFINE t == timer[d]
             u == Elapse(t)
  <2>1. InLoop(d) <=> daemon[d].pc \in LoopPC
    BY DEF InLoop, LoopPC
  <2>2. SessionInv(d) /\ t \in Timer
    BY DEF SessionsInv, InnerType
  <2>3. CASE InLoop(d)
    <3>2. /\ u \in Timer /\ Single(u)
          /\ u.initOk = t.initOk /\ u.inHello = t.inHello /\ u.active = t.active
          /\ u.deadline = Off <=> t.deadline = Off
          /\ t.deadline = 0 => u.deadline = 0
      BY <2>1, <2>2, <2>3, InTheLoop, ElapseCounts
    <3>3. timer'[d] = u
      BY <1>1, <2>3
    <3> HIDE DEF u
    <3>4. u.deadline # Off => ShouldArm(u) /\ u.suspended = Off
      BY <2>1, <2>3, <3>2, InTheLoop DEF ShouldArm, Single
    <3>5. Balanced(u, events[d], Cardinality(To(d, {"hello"})), Cardinality(To(d, {"active"})))
      BY <2>1, <2>3, <3>2, InTheLoop DEF Balanced
    <3> QED
      BY <2>1, <2>2, <2>3, <3>2, <3>3, <3>4, <3>5 DEF SessionInv, Session
  <2>4. CASE ~InLoop(d)
    BY <1>1, <2>2, <2>4 DEF SessionInv
  <2> QED
    BY <2>3, <2>4
<1>4. ASSUME NEW d \in Daemons PROVE SessionInv(d)'
  BY <1>1, <1>2, <1>3 DEF SessionInv, SameSessions
<1>5. timer' \in [Daemons -> Timer]
  BY <1>1, <1>3
<1> QED
  BY <1>1, <1>2, <1>4, <1>5 DEF SessionsInv, InnerType

\* What a proxy does to connections leaves every session as it is.
LEMMA ProxyConn ==
  ASSUME DaemonInv, NEW p \in Proxy,
         \/ UNCHANGED conn
         \/ Opened(p)
         \/ ConnectionLost(p) \/ Leave(p) \/ KillProxy(p)
  PROVE  ConnOK' /\ \A d \in Daemons : SameSessions(d)
<1> USE Facts
<1>1. CASE UNCHANGED conn
  BY <1>1, SameConn DEF ConnOK
<1>2. CASE Opened(p)
  BY <1>2, ConnectsConn DEF Opened
<1>3. ASSUME proxy[p].pc = "opened" \/ proxy[p].conn # None
      PROVE  proxy[p].conn \in Conn
  <2>1. ProxyInv /\ proxy \in [Proxy -> ProxyState]
    BY DEF DaemonInv, OuterType
  <2> QED
    BY <1>3, <2>1 DEF ProxyInv, ProxyState
<1>4. CASE ConnectionLost(p)
  <2> DEFINE i == proxy[p].conn
  <2>1. /\ i \in Conn /\ conn[i].phase = "ended" /\ conn' = [conn EXCEPT ![i] = NoConn]
    BY <1>3, <1>4 DEF ConnectionLost
  <2> HIDE DEF i
  <2>2. /\ ConnOK' /\ conn'[i] = NoConn
        /\ \A j \in Conn \ {i} : conn'[j] = conn[j]
    BY <2>1, NoConnIsFree, OneConn
  <2>3. ASSUME NEW j \in Conn
        PROVE  conn'[j] = conn[j] \/ (conn[j].phase = "ended" /\ conn'[j].phase = "free")
    BY <2>1, <2>2, NoConnIsFree
  <2>4. ASSUME NEW d \in Daemons PROVE SameSessions(d)
    BY <2>3, SessionsStay
  <2> QED
    BY <2>2, <2>4
<1>5. CASE Leave(p)
  BY <1>3, <1>5, ClosesConn DEF Leave
<1>6. CASE KillProxy(p)
  <2>1. CASE proxy[p].conn = None
    BY <1>1, <1>6, <2>1 DEF KillProxy
  <2>2. CASE proxy[p].conn # None
    BY <1>3, <1>6, <2>2, ClosesConn DEF KillProxy
  <2> QED
    BY <2>1, <2>2
<1> QED
  BY <1>1, <1>2, <1>4, <1>5, <1>6

LEMMA SpawnSessions ==
  ASSUME DaemonInv, NEW p \in Proxy, SpawnDaemon(p)
  PROVE  SessionsInv'
<1> USE Facts DEF LoopPC, SessionPC, LeavingPC
<1>1. UNCHANGED <<timer, events, conn>>
  BY DEF SpawnDaemon
<1>2. ConnOK' /\ \A d \in Daemons : SameSessions(d)
  BY <1>1, SameConn DEF ConnOK
<1>3. CASE UNCHANGED daemon
  BY <1>1, <1>2, <1>3, SessionsUntouched
<1>4. ASSUME NEW d \in Daemons, daemon[d].pc = "unborn", Goto(d, "probe")
      PROVE  SessionsInv'
  <2>1. Moves(d, "probe") /\ Cleared(d) /\ daemon'[d].init = "pending"
    BY <1>1, <1>4, GotoMoves, ClearedAlready, NotYetReady DEF DaemonPC
  <2>2. To(d, {"hello", "active"})' = {}
    BY <1>2, <1>4, NoSessions
  <2> QED
    BY <1>2, <2>1, <2>2, OutOfLoop
<1> QED
  BY <1>3, <1>4, UnbornChild DEF SpawnDaemon

LEMMA ProxySessions ==
  ASSUME DaemonInv, NEW p \in Proxy, ProxyStep(p) \/ Leave(p) \/ KillProxy(p)
  PROVE  SessionsInv'
<1> USE Facts
<1>1. CASE SpawnDaemon(p)
  BY <1>1, SpawnSessions
<1>2. CASE WaitBudgetEnds(p)
  <2>1. proxy[p].child \in Daemons
    <3>1. ProxyInv /\ proxy \in [Proxy -> ProxyState]
      BY DEF DaemonInv, OuterType
    <3> QED
      BY <1>2, <3>1 DEF WaitBudgetEnds, ProxyInv, ProxyState
  <2> QED
    BY <1>2, <2>1, KilledSessions DEF WaitBudgetEnds
<1>3. CASE /\ UNCHANGED <<daemon, timer, events>>
           /\ \/ UNCHANGED conn
              \/ Opened(p)
              \/ ConnectionLost(p) \/ Leave(p) \/ KillProxy(p)
  BY <1>3, ProxyConn, SessionsUntouched
<1> QED
  BY <1>1, <1>2, <1>3 DEF ProxyStep, FirstConnect, AcquireLock, ConnectUnderLock, WaitConnects,
     WaitChildExited, ConnectionLost, Leave, KillProxy

LEMMA SessionsHold ==
  ASSUME DaemonInv, [Next]_vars
  PROVE  SessionsInv'
<1>1. ASSUME NEW d \in Daemons, DaemonStep(d) \/ Signal(d) \/ Crash(d)
      PROVE  SessionsInv'
  <2>1. CASE \E i \in Conn : Accept(d, i)
    BY <2>1, AcceptSessions
  <2>2. CASE IdleDeadline(d) \/ GraceDeadline(d) \/ Signal(d)
    BY <2>2, TriggerSessions
  <2>3. CASE Crash(d)
    BY <2>3, KilledSessions DEF Crash
  <2> QED
    BY <1>1, <2>1, <2>2, <2>3, ProbeSessions, BindSessions, WritePidFileSessions,
       InitResultSessions, EventSessions, ShutdownLocksSessions, ShutdownLockBusySessions,
       RecheckSessions, DropListenerSessions, RemoveFilesSessions, AbortSessionsSessions,
       ExitSessions DEF DaemonStep
<1>2. ASSUME NEW i \in Conn, HelloEnds(i) \/ SessionEnds(i)
      PROVE  SessionsInv'
  BY <1>2, HelloPassesSessions, HelloFailsSessions, SessionEndsSessions DEF HelloEnds
<1>3. ASSUME NEW p \in Proxy, ProxyStep(p) \/ Leave(p) \/ KillProxy(p)
      PROVE  SessionsInv'
  BY <1>3, ProxySessions
<1>4. CASE UNCHANGED vars
  <2>1. UNCHANGED <<daemon, timer, events, conn>>
    BY <1>4 DEF vars
  <2>2. ConnOK' /\ \A e \in Daemons : SameSessions(e)
    BY <2>1, Facts, SameConn DEF ConnOK
  <2> QED
    BY <2>1, <2>2, Facts, SessionsUntouched
<1> QED
  BY <1>1, <1>2, <1>3, <1>4, TickSessions DEF Next

-----------------------------------------------------------------------------
(* The invariant *)

LEMMA DaemonsOuter ==
  ASSUME DaemonInv, NEW d \in Daemons, DaemonStep(d) \/ Signal(d) \/ Crash(d)
  PROVE  OuterType'
<1> USE Facts DEF OuterType, files
<1>1. CASE \/ Probe(d) \/ (\E i \in Conn : Accept(d, i)) \/ InitResult(d) \/ Event(d)
           \/ IdleDeadline(d) \/ GraceDeadline(d) \/ ShutdownLockBusy(d) \/ DropListener(d)
           \/ AbortSessions(d) \/ Exit(d)
  <2>1. UNCHANGED <<lock, sock, pidFile, proxy, retries, faults>>
    BY <1>1 DEF Probe, Accept, InitResult, Event, IdleDeadline, GraceDeadline, Trigger,
       ShutdownLockBusy, DropListener, AbortSessions, Exit
  <2> QED
    BY <2>1
<1>2. CASE Bind(d) \/ WritePidFile(d) \/ ShutdownLocks(d) \/ Recheck(d) \/ RemoveFiles(d)
  <2>1. /\ lock' \in {lock, d, None} /\ sock' \in {sock, d, None} /\ pidFile' \in {pidFile, d, None}
        /\ UNCHANGED <<proxy, retries, faults>>
    BY <1>2 DEF Bind, WritePidFile, ShutdownLocks, Recheck, RemoveFiles, SockWithout,
       ReleaseAfterCancel, Release
  <2> QED
    BY <2>1
<1>3. CASE Signal(d) \/ Crash(d)
  <2>1. /\ lock' \in {lock, None} /\ UNCHANGED <<sock, pidFile, proxy, retries>>
        /\ faults.daemons < MaxFaults /\ faults' = [faults EXCEPT !.daemons = @ + 1]
    BY <1>3 DEF Signal, Trigger, Crash, Release
  <2>2. faults' \in [daemons : 0..MaxFaults, proxies : 0..MaxKilled, orphan : BOOLEAN]
    BY <2>1, DaemonBounds
  <2> QED
    BY <2>1, <2>2
<1> QED
  BY <1>1, <1>2, <1>3 DEF DaemonStep

LEMMA ProxiesOuter ==
  ASSUME DaemonInv, NEW p \in Proxy, ProxyStep(p) \/ Leave(p) \/ KillProxy(p)
  PROVE  OuterType'
<1> USE Facts
<1>1. /\ lock' \in {lock, p, None} /\ sock' \in {sock, None} /\ UNCHANGED pidFile
  BY DEF ProxyStep, FirstConnect, AcquireLock, ConnectUnderLock, SpawnDaemon, WaitConnects,
     WaitChildExited, WaitBudgetEnds, ConnectionLost, Leave, KillProxy, ProxyVars, Opened, Retry,
     Release
<1>2. /\ proxy' \in [Proxy -> ProxyState] /\ retries' \in 0..MaxRetries
  <2>0. retries \in 0..MaxRetries
    BY DEF OuterType
  <2>1. CASE Opened(p)
    BY <2>0, <2>1, OpenedSteps DEF Steps, Opened
  <2>2. CASE Retry(p)
    BY <2>2, RetrySteps DEF Steps
  <2>3. CASE \E pc \in {"lock", "reconnect", "failed", "spawn"} : Step(p, pc)
    BY <2>0, <2>3, StepSteps DEF Steps, Step, ProxyPC
  <2>4. CASE SpawnDaemon(p)
    <3>1. CASE Unborn # {} /\ UNCHANGED retries
               /\ proxy' = [proxy EXCEPT ![p].pc = "wait", ![p].child = Min(Unborn)]
      <4> DEFINE child == Min(Unborn)
      <4>1. child \in Daemons
        BY <3>1, UnbornChild
      <4> HIDE DEF child
      <4>2. Steps(p, "wait", proxy[p].conn, child)
        BY <3>1, <4>1, SpawnSteps DEF child
      <4> QED
        BY <2>0, <3>1, <4>2 DEF Steps
    <3> QED
      BY <2>2, <2>4, <3>1 DEF SpawnDaemon
  <2>5. CASE Leave(p)
    BY <2>0, <2>5, LeaveSteps DEF Steps, Leave
  <2>6. CASE KillProxy(p)
    BY <2>0, <2>6, KillSteps DEF Steps, KillProxy
  <2> QED
    BY <2>1, <2>2, <2>3, <2>4, <2>5, <2>6 DEF ProxyStep, FirstConnect, AcquireLock,
       ConnectUnderLock, WaitConnects, WaitChildExited, WaitBudgetEnds, ConnectionLost
<1>3. faults' \in [daemons : 0..MaxFaults, proxies : 0..MaxKilled, orphan : BOOLEAN]
  <2>1. faults \in [daemons : 0..MaxFaults, proxies : 0..MaxKilled, orphan : BOOLEAN]
    BY DEF OuterType
  <2>2. CASE KillProxy(p)
    <3> DEFINE n == faults.proxies + 1
               o == faults.orphan \/ (proxy[p].child # None /\ ~Listening(proxy[p].child))
    <3>1. n \in 0..MaxKilled /\ o \in BOOLEAN
      BY <2>1, <2>2, DaemonBounds DEF KillProxy, Listening
    <3>2. faults' = [faults EXCEPT !.proxies = n, !.orphan = o]
      BY <2>2 DEF KillProxy
    <3> HIDE DEF n, o
    <3> QED
      BY <2>1, <3>1, <3>2
  <2>3. CASE UNCHANGED faults
    BY <2>1, <2>3
  <2> QED
    BY <2>2, <2>3 DEF ProxyStep, FirstConnect, AcquireLock, ConnectUnderLock, SpawnDaemon,
       WaitConnects, WaitChildExited, WaitBudgetEnds, ConnectionLost, Leave, ProxyVars
<1> QED
  BY <1>1, <1>2, <1>3 DEF OuterType

LEMMA OuterHolds ==
  ASSUME DaemonInv, [Next]_vars
  PROVE  OuterType'
<1>1. CASE \/ \E i \in Conn : HelloEnds(i) \/ SessionEnds(i)
           \/ Tick \/ UNCHANGED vars
  <2>1. UNCHANGED <<lock, sock, pidFile, proxy, retries, faults>>
    BY <1>1 DEF HelloEnds, HelloPasses, HelloFails, SessionEnds, SessionVars, Tick, vars, files
  <2> QED
    BY <2>1, Facts DEF OuterType
<1> QED
  BY <1>1, DaemonsOuter, ProxiesOuter DEF Next

LEMMA InitHolds == Init => DaemonInv
<1> SUFFICES ASSUME Init PROVE DaemonInv
  OBVIOUS
<1> USE Names, DaemonBounds DEF Init
<1>1. OuterType
  BY DEF OuterType, ProxyState, ProxyPC
<1>2. ConnOK
  BY NoConnIsFree DEF ConnOK
<1>3. InnerType
  BY <1>2, NewTimerIsTimer DEF InnerType, DaemonState, DaemonPC, Why
<1>4. PathInv
  BY DEF PathInv, LockInv, ProxyInv, SocketInv, Listening
<1>5. ASSUME NEW d \in Daemons PROVE SessionInv(d)
  <2>1. To(d, {"hello"}) = {} /\ To(d, {"active"}) = {}
    BY NoConnIsFree DEF To
  <2> QED
    BY <2>1 DEF SessionInv, Session, LoopPC
<1> QED
  BY <1>1, <1>3, <1>4, <1>5, DaemonInvParts DEF SessionsInv

(***************************************************************************)
(* DaemonInv is an invariant, for every number of proxies, daemons,        *)
(* connections, retries and faults: the spawn lock covers a daemon from    *)
(* its spawn to its bind and from the second look of an idle exit to the   *)
(* removal of its files, and the timer counts what the sessions report.    *)
(***************************************************************************)
THEOREM DaemonInvariantHolds == DaemonSpec => []DaemonInv
<1>1. (OuterType /\ SessionsInv /\ PathInv => DaemonInv)'
  BY DaemonInvParts, PTL
<1>2. DaemonInv /\ [Next]_vars => DaemonInv'
  BY <1>1, OuterHolds, SessionsHold, PathHolds
<1> QED
  BY <1>2, InitHolds, PTL DEF DaemonSpec

(***************************************************************************)
(* At most one daemon of a key listens, on the socket at the path, unless  *)
(* a proxy was killed between the spawn and the accept (connect_or_spawn,  *)
(* SpawnGuard, Daemon::bind).                                              *)
(***************************************************************************)
THEOREM OneDaemonListens == DaemonSpec => []OneListener
<1>1. DaemonInv => OneListener
  BY DEF DaemonInv, SocketInv, OneListener
<1> QED
  BY <1>1, DaemonInvariantHolds, PTL

(***************************************************************************)
(* A daemon in its loop is the one that the pid file names, and admin      *)
(* commands refuse to run beside it, with the same exception               *)
(* (write_pid_file, remove_pid_file_if_ours, refuse_if_live).              *)
(***************************************************************************)
THEOREM ServerIsNamed == DaemonSpec => []PidFileNamesServer
<1>1. DaemonInv => PidFileNamesServer
  <2> SUFFICES ASSUME DaemonInv, ~faults.orphan, NEW d \in Daemons, InLoop(d)
               PROVE  pidFile = d /\ ~GuardPasses
    BY DEF PidFileNamesServer
  <2>1. pidFile = d
    BY DEF DaemonInv, SocketInv, InLoop, Listening
  <2> QED
    BY <2>1, Names DEF GuardPasses, PidFileHeld, Alive, InLoop
<1> QED
  BY <1>1, DaemonInvariantHolds, PTL

(***************************************************************************)
(* The counts of the idle timer and the events still queued add up to the  *)
(* sessions there are (PhaseGuard, IdleState::apply).                      *)
(***************************************************************************)
THEOREM CountsAlwaysMatch == DaemonSpec => []CountsMatch
<1>1. DaemonInv => CountsMatch
  BY DEF DaemonInv
<1> QED
  BY <1>1, DaemonInvariantHolds, PTL

-----------------------------------------------------------------------------
(* The idle exit *)

\* A daemon's own step moves no other daemon, and leaves the loop for good in begin_shutdown only.
LEMMA DaemonMoves ==
  ASSUME DaemonInv, NEW d \in Daemons, DaemonStep(d) \/ Signal(d) \/ Crash(d)
  PROVE  \/ UNCHANGED daemon
         \/ \E pc \in DaemonPC \ {"close"} : Moves(d, pc)
         \/ /\ Moves(d, "close") /\ daemon'[d].why = daemon[d].why
            /\ Recheck(d) \/ daemon[d].why # "idle"
<1> USE Facts DEF DaemonPC, Why
<1>1. CASE Probe(d) \/ Bind(d) \/ WritePidFile(d)
  BY <1>1, GotoMoves, DeadMoves DEF Probe, Bind, WritePidFile, ExitsForAnother
<1>2. CASE (\E i \in Conn : Accept(d, i)) \/ Event(d)
  BY <1>2 DEF Accept, Event
<1>3. CASE InitResult(d)
  <2>1. PICK outcome \in {"ready", "failed"} : daemon' = [daemon EXCEPT ![d].init = outcome]
    BY <1>3 DEF InitResult, InitOutcome
  <2>2. daemon[d].pc = "serve"
    BY <1>3 DEF InitResult
  <2>3. Moves(d, "serve")
    BY <2>1, <2>2 DEF SessionsInv, InnerType, DaemonState, Moves
  <2> QED
    BY <2>3
<1>4. CASE IdleDeadline(d) \/ GraceDeadline(d) \/ Signal(d)
  BY <1>4, TurnMoves DEF IdleDeadline, GraceDeadline, Signal, Trigger
<1>5. CASE ShutdownLocks(d)
  BY <1>5, GotoMoves DEF ShutdownLocks, Commit
<1>6. CASE ShutdownLockBusy(d)
  BY <1>6, GotoMoves, TurnMoves DEF ShutdownLockBusy, Commit
<1>7. CASE Recheck(d)
  BY <1>7, RecheckSteps, GotoMoves, TurnMoves DEF Commit
<1>8. CASE DropListener(d) \/ RemoveFiles(d) \/ AbortSessions(d)
  BY <1>8, GotoMoves DEF DropListener, RemoveFiles, AbortSessions
<1>9. CASE Exit(d) \/ Crash(d)
  BY <1>9, DeadMoves DEF Exit, Crash, Killed
<1> QED
  BY <1>1, <1>2, <1>3, <1>4, <1>5, <1>6, <1>7, <1>8, <1>9 DEF DaemonStep

\* A proxy moves at most its own child, to its first step or to its death.
LEMMA ProxyMoves ==
  ASSUME DaemonInv, NEW p \in Proxy, ProxyStep(p) \/ Leave(p) \/ KillProxy(p)
  PROVE  \/ UNCHANGED <<daemon, timer>>
         \/ \E d \in Daemons : daemon[d].pc = "unborn" /\ Goto(d, "probe") /\ UNCHANGED timer
         \/ \E d \in Daemons : Killed(d)
<1> USE Facts
<1>1. CASE SpawnDaemon(p)
  BY <1>1, UnbornChild DEF SpawnDaemon
<1>2. CASE WaitBudgetEnds(p)
  <2>1. ProxyInv /\ proxy \in [Proxy -> ProxyState]
    BY DEF DaemonInv, OuterType
  <2> QED
    BY <1>2, <2>1 DEF WaitBudgetEnds, ProxyInv, ProxyState
<1> QED
  BY <1>1, <1>2 DEF ProxyStep, FirstConnect, AcquireLock, ConnectUnderLock, WaitConnects,
     WaitChildExited, ConnectionLost, Leave, KillProxy

LEMMA IdleCommit ==
  ASSUME DaemonInv, [Next]_vars, NEW d \in Daemons, InLoop(d),
         daemon'[d].pc = "close", daemon'[d].why = "idle"
  PROVE  Recheck(d)
<1> USE Facts
<1>1. daemon[d].pc \in LoopPC
  BY DEF InLoop, LoopPC
<1>2. ASSUME UNCHANGED daemon PROVE FALSE
  BY <1>1, <1>2 DEF LoopPC
<1>3. ASSUME NEW e \in Daemons, NEW pc, Moves(e, pc), e # d \/ pc # "close" PROVE FALSE
  BY <1>1, <1>3 DEF Moves, LoopPC
<1>4. ASSUME NEW e \in Daemons, DaemonStep(e) \/ Signal(e) \/ Crash(e)
      PROVE  Recheck(d)
  <2>1. /\ Moves(e, "close") /\ daemon'[e].why = daemon[e].why
        /\ Recheck(e) \/ daemon[e].why # "idle"
    BY <1>2, <1>3, <1>4, DaemonMoves
  <2>2. e = d
    BY <1>3, <2>1
  <2> QED
    BY <2>1, <2>2
<1>5. ASSUME NEW i \in Conn, HelloEnds(i) \/ SessionEnds(i)
      PROVE  FALSE
  BY <1>2, <1>5 DEF HelloEnds, HelloPasses, HelloFails, SessionEnds, SessionVars
<1>6. ASSUME NEW p \in Proxy, ProxyStep(p) \/ Leave(p) \/ KillProxy(p)
      PROVE  FALSE
  <2>1. CASE UNCHANGED daemon
    BY <1>2, <2>1
  <2>2. ASSUME NEW e \in Daemons, Goto(e, "probe") PROVE FALSE
    BY <1>3, <2>2, GotoMoves DEF DaemonPC
  <2>3. ASSUME NEW e \in Daemons, Killed(e) PROVE FALSE
    BY <1>3, <2>3, DeadMoves DEF Killed
  <2> QED
    BY <1>6, <2>1, <2>2, <2>3, ProxyMoves
<1>7. CASE Tick \/ UNCHANGED vars
  BY <1>2, <1>7 DEF Tick, vars
<1> QED
  BY <1>4, <1>5, <1>6, <1>7 DEF Next

(***************************************************************************)
(* An idle exit drops no connection that was made before it was decided:   *)
(* under the lock, the backlog and the counts are looked at once more      *)
(* (Daemon::begin_shutdown).                                               *)
(***************************************************************************)
THEOREM ClientsAreSpared == DaemonSpec => IdleExitSparesClients
<1>1. ASSUME DaemonInv, [Next]_vars, NEW d \in Daemons,
             InLoop(d), daemon'[d].pc = "close", daemon'[d].why = "idle"
      PROVE  To(d, {"backlog", "hello", "active"}) = {}
  <2>1. Recheck(d)
    BY <1>1, IdleCommit
  <2>2. daemon[d].pc = "recheck" /\ daemon[d].why = "idle"
    BY <1>1, <2>1, Facts DEF Recheck, SessionInv, Session, LoopPC
  <2>3. To(d, {"hello"}) = {} /\ To(d, {"active"}) = {}
    BY <1>1, <2>2, IdleIsQuiet
  <2>4. To(d, {"backlog"}) = {}
    <3>1. CASE daemon' = [daemon EXCEPT ![d].pc = "serve", ![d].why = "no"]
      BY <1>1, <3>1, TurnMoves, Facts DEF DaemonPC, Why, Moves
    <3> QED
      BY <1>1, <2>1, <3>1, RecheckSteps
  <2> QED
    BY <2>3, <2>4 DEF To
<1>2. DaemonInv /\ [Next]_vars =>
        [\A d \in Daemons : InLoop(d) /\ daemon'[d].pc = "close" /\ daemon'[d].why = "idle"
            => To(d, {"backlog", "hello", "active"}) = {}]_vars
  BY <1>1
<1> QED
  BY <1>2, DaemonInvariantHolds, PTL DEF DaemonSpec, IdleExitSparesClients

-----------------------------------------------------------------------------
(* The idle timer keeps the promise of IdleExit *)

Gone(d) == IF daemon[d].pc = "dead" THEN "dead" ELSE IF Leaving(d) THEN daemon[d].why ELSE "no"

Ready == [d \in Daemons |-> timer[d].initOk]
Arriving == [d \in Daemons |-> timer[d].inHello]
Served == [d \in Daemons |-> timer[d].active]
Left == [d \in Daemons |-> Countdown(timer[d])]
GoneBy == [d \in Daemons |-> Gone(d)]

LEMMA OnlyAt ==
  ASSUME NEW S, NEW f, f = [e \in S |-> f[e]], NEW g, g = [e \in S |-> g[e]],
         NEW d \in S, NEW x, g[d] = x, \A e \in S \ {d} : g[e] = f[e]
  PROVE  g = [f EXCEPT ![d] = x] /\ (x = f[d] => g = f)
<1> DEFINE h == [f EXCEPT ![d] = x]
<1>1. h = [e \in S |-> h[e]]
  OBVIOUS
<1>2. \A e \in S : h[e] = g[e]
  OBVIOUS
<1> HIDE DEF h
<1>3. h = g
  BY <1>1, <1>2
<1>4. ASSUME x = f[d] PROVE g = f
  <2>1. \A e \in S : g[e] = f[e]
    BY <1>4
  <2> QED
    BY <2>1
<1> QED
  BY <1>3, <1>4 DEF h

\* What the promise sees of a daemon whose timer becomes t.
LEMMA PromiseSees ==
  ASSUME SessionsInv, NEW d \in Daemons, NEW t \in Timer, timer' = [timer EXCEPT ![d] = t]
  PROVE  /\ Ready' = [Ready EXCEPT ![d] = t.initOk]
         /\ t.initOk = timer[d].initOk => Ready' = Ready
         /\ Arriving' = [Arriving EXCEPT ![d] = t.inHello]
         /\ t.inHello = timer[d].inHello => Arriving' = Arriving
         /\ Served' = [Served EXCEPT ![d] = t.active]
         /\ t.active = timer[d].active => Served' = Served
         /\ Left' = [Left EXCEPT ![d] = Countdown(t)]
         /\ Countdown(t) = Countdown(timer[d]) => Left' = Left
         /\ Ready[d] = timer[d].initOk /\ Ready'[d] = t.initOk
         /\ Arriving[d] = timer[d].inHello /\ Arriving'[d] = t.inHello
         /\ Served[d] = timer[d].active /\ Served'[d] = t.active
         /\ Left[d] = Countdown(timer[d]) /\ Left'[d] = Countdown(t)
<1>1. timer'[d] = t /\ \A e \in Daemons : e # d => timer'[e] = timer[e]
  BY DEF SessionsInv, InnerType
<1>2. Ready' = [Ready EXCEPT ![d] = t.initOk] /\ (t.initOk = timer[d].initOk => Ready' = Ready)
  <2>1. /\ Ready = [e \in Daemons |-> Ready[e]] /\ Ready' = [e \in Daemons |-> Ready'[e]]
        /\ Ready[d] = timer[d].initOk /\ Ready'[d] = t.initOk
        /\ \A e \in Daemons \ {d} : Ready'[e] = Ready[e]
    BY <1>1 DEF Ready
  <2> DEFINE f == Ready
             g == Ready'
             x == t.initOk
  <2> HIDE DEF f, g, x
  <2>2. g = [f EXCEPT ![d] = x] /\ (x = f[d] => g = f)
    BY <2>1, OnlyAt DEF f, g, x
  <2> QED
    BY <2>1, <2>2 DEF f, g, x
<1>3. Arriving' = [Arriving EXCEPT ![d] = t.inHello] /\ (t.inHello = timer[d].inHello => Arriving' = Arriving)
  <2>1. /\ Arriving = [e \in Daemons |-> Arriving[e]] /\ Arriving' = [e \in Daemons |-> Arriving'[e]]
        /\ Arriving[d] = timer[d].inHello /\ Arriving'[d] = t.inHello
        /\ \A e \in Daemons \ {d} : Arriving'[e] = Arriving[e]
    BY <1>1 DEF Arriving
  <2> DEFINE f == Arriving
             g == Arriving'
             x == t.inHello
  <2> HIDE DEF f, g, x
  <2>2. g = [f EXCEPT ![d] = x] /\ (x = f[d] => g = f)
    BY <2>1, OnlyAt DEF f, g, x
  <2> QED
    BY <2>1, <2>2 DEF f, g, x
<1>4. Served' = [Served EXCEPT ![d] = t.active] /\ (t.active = timer[d].active => Served' = Served)
  <2>1. /\ Served = [e \in Daemons |-> Served[e]] /\ Served' = [e \in Daemons |-> Served'[e]]
        /\ Served[d] = timer[d].active /\ Served'[d] = t.active
        /\ \A e \in Daemons \ {d} : Served'[e] = Served[e]
    BY <1>1 DEF Served
  <2> DEFINE f == Served
             g == Served'
             x == t.active
  <2> HIDE DEF f, g, x
  <2>2. g = [f EXCEPT ![d] = x] /\ (x = f[d] => g = f)
    BY <2>1, OnlyAt DEF f, g, x
  <2> QED
    BY <2>1, <2>2 DEF f, g, x
<1>5. Left' = [Left EXCEPT ![d] = Countdown(t)] /\ (Countdown(t) = Countdown(timer[d]) => Left' = Left)
  <2>1. /\ Left = [e \in Daemons |-> Left[e]] /\ Left' = [e \in Daemons |-> Left'[e]]
        /\ Left[d] = Countdown(timer[d]) /\ Left'[d] = Countdown(t)
        /\ \A e \in Daemons \ {d} : Left'[e] = Left[e]
    BY <1>1 DEF Left
  <2> DEFINE f == Left
             g == Left'
             x == Countdown(t)
  <2> HIDE DEF f, g, x
  <2>2. g = [f EXCEPT ![d] = x] /\ (x = f[d] => g = f)
    BY <2>1, OnlyAt DEF f, g, x
  <2> QED
    BY <2>1, <2>2 DEF f, g, x
<1>6. /\ Ready[d] = timer[d].initOk /\ Ready'[d] = t.initOk
      /\ Arriving[d] = timer[d].inHello /\ Arriving'[d] = t.inHello
      /\ Served[d] = timer[d].active /\ Served'[d] = t.active
      /\ Left[d] = Countdown(timer[d]) /\ Left'[d] = Countdown(t)
  BY <1>1 DEF Ready, Arriving, Served, Left
<1> QED
  BY <1>2, <1>3, <1>4, <1>5, <1>6

(* The actions of IdleExit, in these names *)

LEMMA PromiseStutters ==
  ASSUME UNCHANGED timer, \A d \in Daemons : Gone(d)' = Gone(d)
  PROVE  UNCHANGED Promise!vars
<1>1. UNCHANGED <<Ready, Arriving, Served, Left, GoneBy>>
  BY DEF Ready, Arriving, Served, Left, GoneBy, Countdown
<1> QED
  BY <1>1 DEF Promise!vars, Gone, Leaving, Ready, Arriving, Served, Left, GoneBy

LEMMA ArriveIs ==
  ASSUME NEW d \in Daemons, NEW n \in 1..Arriving'[d],
         Arriving' = [Arriving EXCEPT ![d] = Arriving[d] + n], UNCHANGED <<Ready, Served, Left>>
  PROVE  Promise!Arrive(d)
  BY DEF Promise!Arrive, Ready, Arriving, Served, Left

\* The countdown of d after a step, if it was not restarted by a served connection.
SettledLeft(d) ==
    IF (Ready'[d] /\ Arriving'[d] = 0 /\ Served'[d] = 0) /\ Left[d] = Off THEN Timeout ELSE Left[d]

LEMMA BecomeReadyIs ==
  ASSUME NEW d \in Daemons, Ready' = [Ready EXCEPT ![d] = TRUE],
         Left' = [Left EXCEPT ![d] = SettledLeft(d)], UNCHANGED <<Arriving, Served>>
  PROVE  Promise!BecomeReady(d)
  BY DEF Promise!BecomeReady, Promise!Settle, Promise!Quiet, Promise!InUse, Off, SettledLeft,
     Ready, Arriving, Served, Left

LEMMA PassHelloIs ==
  ASSUME NEW d \in Daemons, Arriving[d] > 0, Arriving' = [Arriving EXCEPT ![d] = Arriving[d] - 1],
         Served' = [Served EXCEPT ![d] = Served[d] + 1], Left' = [Left EXCEPT ![d] = Off],
         UNCHANGED Ready
  PROVE  Promise!PassHello(d)
  BY DEF Promise!PassHello, Promise!InUse, Off, Ready, Arriving, Served, Left

LEMMA FailHelloIs ==
  ASSUME NEW d \in Daemons, Arriving[d] > 0, Arriving' = [Arriving EXCEPT ![d] = Arriving[d] - 1],
         Left' = [Left EXCEPT ![d] = SettledLeft(d)], UNCHANGED <<Ready, Served>>
  PROVE  Promise!FailHello(d)
  BY DEF Promise!FailHello, Promise!Settle, Promise!Quiet, Promise!InUse, Off, SettledLeft,
     Ready, Arriving, Served, Left

LEMMA EndSessionIs ==
  ASSUME NEW d \in Daemons, Served[d] > 0, Served' = [Served EXCEPT ![d] = Served[d] - 1],
         Left' = [Left EXCEPT ![d] = SettledLeft(d)], UNCHANGED <<Ready, Arriving>>
  PROVE  Promise!EndSession(d)
  BY DEF Promise!EndSession, Promise!Settle, Promise!Quiet, Promise!InUse, Off, SettledLeft,
     Ready, Arriving, Served, Left

LEMMA PostponeIs ==
  ASSUME NEW d \in Daemons, Ready[d], Arriving[d] = 0, Served[d] = 0, Left[d] = 0,
         Left' = [Left EXCEPT ![d] = Timeout], UNCHANGED <<Ready, Arriving, Served>>
  PROVE  Promise!Postpone(d)
  BY DEF Promise!Postpone, Promise!Quiet, Ready, Arriving, Served, Left

LEMMA LeaveIs ==
  ASSUME NEW d \in Daemons, NEW why, GoneBy' = [GoneBy EXCEPT ![d] = why],
         Ready' = [Ready EXCEPT ![d] = FALSE], Arriving' = [Arriving EXCEPT ![d] = 0],
         Served' = [Served EXCEPT ![d] = 0], Left' = [Left EXCEPT ![d] = Off]
  PROVE  Promise!Leave(d, why)
  BY DEF Promise!Leave, Promise!InUse, Off, Ready, Arriving, Served, Left, GoneBy, Gone, Leaving

LEMMA LoopStepIs ==
  ASSUME NEW d \in Daemons, GoneBy[d] = "no", UNCHANGED GoneBy,
         \/ Promise!BecomeReady(d) \/ Promise!Arrive(d) \/ Promise!PassHello(d)
         \/ Promise!FailHello(d) \/ Promise!EndSession(d) \/ Promise!Postpone(d)
  PROVE  Promise!Next
  BY DEF Promise!Next, GoneBy, Gone, Leaving

LEMMA GoneMoves ==
  ASSUME NEW d \in Daemons, \A e \in Daemons \ {d} : daemon'[e] = daemon[e],
         NEW why, Gone(d)' = why
  PROVE  GoneBy' = [GoneBy EXCEPT ![d] = why] /\ (why = Gone(d) => GoneBy' = GoneBy)
<1>1. /\ GoneBy = [e \in Daemons |-> GoneBy[e]] /\ GoneBy' = [e \in Daemons |-> GoneBy'[e]]
      /\ GoneBy[d] = Gone(d) /\ GoneBy'[d] = why
      /\ \A e \in Daemons \ {d} : GoneBy'[e] = GoneBy[e]
  BY DEF GoneBy, Gone, Leaving
<1> DEFINE f == GoneBy
           g == GoneBy'
<1> HIDE DEF f, g
<1>2. g = [f EXCEPT ![d] = why] /\ (why = f[d] => g = f)
  BY <1>1, OnlyAt DEF f, g
<1> QED
  BY <1>1, <1>2 DEF f, g

\* A daemon that has nothing left of its timer leaves.
LEMMA LeavePromise ==
  ASSUME DaemonInv, NEW d \in Daemons, NEW pc, Moves(d, pc),
         timer' = [timer EXCEPT ![d] = NewTimer], NEW why, Gone(d)' = why
  PROVE  Promise!Leave(d, why)
<1>1. GoneBy' = [GoneBy EXCEPT ![d] = why]
  BY GoneMoves DEF Moves
<1>2. /\ NewTimer \in Timer /\ NewTimer.initOk = FALSE /\ NewTimer.inHello = 0
      /\ NewTimer.active = 0 /\ Countdown(NewTimer) = Off
  BY NewTimerIsTimer DEF NewTimer
<1>3. SessionsInv
  BY Facts
<1>4. /\ Ready' = [Ready EXCEPT ![d] = NewTimer.initOk]
      /\ Arriving' = [Arriving EXCEPT ![d] = NewTimer.inHello]
      /\ Served' = [Served EXCEPT ![d] = NewTimer.active]
      /\ Left' = [Left EXCEPT ![d] = Countdown(NewTimer)]
  BY <1>2, <1>3, PromiseSees
<1>5. /\ Ready' = [Ready EXCEPT ![d] = FALSE] /\ Arriving' = [Arriving EXCEPT ![d] = 0]
      /\ Served' = [Served EXCEPT ![d] = 0] /\ Left' = [Left EXCEPT ![d] = Off]
  BY <1>2, <1>4
<1> QED
  BY <1>1, <1>5, LeaveIs

LEMMA DeadPromise ==
  ASSUME DaemonInv, NEW d \in Daemons, Dead(d)
  PROVE  Promise!Next
<1>1. Moves(d, "dead")
  BY Facts, DeadMoves
<1>2. Gone(d)' = "dead"
  BY <1>1 DEF Gone, Moves
<1>3. Promise!Leave(d, "dead")
  BY <1>1, <1>2, LeavePromise DEF Dead
<1> QED
  BY <1>3 DEF Promise!Next, Promise!Die

LEMMA CommitPromise ==
  ASSUME DaemonInv, NEW d \in Daemons, daemon[d].pc \in {"locking", "recheck"}, Commit(d)
  PROVE  Promise!Next
<1> USE Facts
<1>1. Moves(d, "close") /\ daemon'[d].why = daemon[d].why
  BY GotoMoves DEF Commit, DaemonPC
<1>2. Gone(d)' = daemon[d].why
  BY <1>1 DEF Gone, Leaving, Moves
<1>3. ASSUME NEW why, daemon[d].why = why PROVE Promise!Leave(d, why)
  BY <1>1, <1>2, <1>3, LeavePromise DEF Commit
<1>4. GoneBy[d] = "no"
  BY DEF GoneBy, Gone, Leaving
<1>5. daemon[d].why \in {"idle", "signal", "grace"}
  BY DEF SessionsInv, InnerType, DaemonState, Why, SessionInv, Session, LoopPC
<1>6. CASE daemon[d].why = "idle"
  <2>1. timer[d].deadline = 0 /\ ShouldArm(timer[d])
    BY <1>6, IdleIsQuiet
  <2>2. Promise!Quiet(d) /\ Left[d] = 0
    BY <2>1 DEF Promise!Quiet, ShouldArm, Left, Countdown, Off
  <2>3. Promise!LeaveIdle(d)
    BY <1>3, <1>6, <2>2 DEF Promise!LeaveIdle, Left
  <2> QED
    BY <1>4, <2>3 DEF Promise!Next, GoneBy, Gone, Leaving
<1>7. CASE daemon[d].why \in {"signal", "grace"}
  <2>1. Promise!LeaveOtherwise(d)
    BY <1>3, <1>7 DEF Promise!LeaveOtherwise
  <2> QED
    BY <1>4, <2>1 DEF Promise!Next, GoneBy, Gone, Leaving
<1> QED
  BY <1>5, <1>6, <1>7

LEMMA AcceptPromise ==
  ASSUME DaemonInv, NEW d \in Daemons, NEW i \in Conn, Accept(d, i)
  PROVE  Promise!Next
<1> USE Facts
<1> DEFINE t == timer[d]
           u == Accepted(t)
           v == Update(u)
<1>1. daemon[d].pc = "serve" /\ timer' = [timer EXCEPT ![d] = v] /\ UNCHANGED daemon
  BY DEF Accept, Turn
<1>2. t \in Timer /\ Single(t)
  BY <1>1, InTheLoop DEF LoopPC
<1>3. /\ u \in Timer /\ Single(u) /\ ~ShouldArm(u) /\ u.initOk = t.initOk
      /\ u.inHello = t.inHello + 1 /\ u.active = t.active /\ u.suspended = Countdown(t)
  BY <1>2, AcceptedSuspends
<1> HIDE DEF u
<1>4. /\ v \in Timer /\ v.initOk = t.initOk /\ v.inHello = t.inHello + 1
      /\ v.active = t.active /\ Countdown(v) = Countdown(t)
  BY <1>3, UpdateArms
<1>5. t.inHello \in Nat
  BY <1>2, TimerFields
<1> HIDE DEF v
<1>6. /\ Arriving' = [Arriving EXCEPT ![d] = Arriving[d] + 1] /\ UNCHANGED <<Ready, Served, Left>>
      /\ Arriving'[d] = t.inHello + 1
  <2>1. SessionsInv /\ timer' = [timer EXCEPT ![d] = v]
    BY <1>1
  <2>2. /\ Arriving' = [Arriving EXCEPT ![d] = v.inHello] /\ Arriving[d] = t.inHello
        /\ Arriving'[d] = v.inHello /\ Ready' = Ready /\ Served' = Served /\ Left' = Left
    BY <1>4, <2>1, PromiseSees
  <2> QED
    BY <1>4, <2>2
<1>7. 1 \in 1..Arriving'[d]
  BY <1>5, <1>6
<1>8. Promise!Arrive(d)
  BY <1>6, <1>7, ArriveIs
<1>9. UNCHANGED GoneBy /\ GoneBy[d] = "no"
  BY <1>1 DEF GoneBy, Gone, Leaving
<1> QED
  BY <1>8, <1>9, LoopStepIs

LEMMA InitResultPromise ==
  ASSUME DaemonInv, NEW d \in Daemons, InitResult(d)
  PROVE  [Promise!Next]_(Promise!vars)
<1> USE Facts
<1> DEFINE t == timer[d]
           u == InitSucceeded(t)
           v == Update(u)
<1>1. daemon[d].pc = "serve" /\ daemon[d].init = "pending"
  BY DEF InitResult
<1>2. PICK outcome \in {"ready", "failed"} :
        /\ daemon' = [daemon EXCEPT ![d].init = outcome]
        /\ timer' = IF outcome = "ready" THEN [timer EXCEPT ![d] = v] ELSE timer
  BY DEF InitResult, InitOutcome, Turn
<1>3. ASSUME NEW e \in Daemons PROVE daemon'[e].pc = daemon[e].pc /\ daemon'[e].why = daemon[e].why
  BY <1>2 DEF SessionsInv, InnerType, DaemonState
<1>4. ASSUME NEW e \in Daemons PROVE Gone(e)' = Gone(e)
  BY <1>3 DEF Gone, Leaving
<1>5. CASE outcome = "failed"
  BY <1>2, <1>4, <1>5, PromiseStutters
<1>6. CASE outcome = "ready"
  <2>1. /\ t \in Timer /\ Single(t)
        /\ t.initOk <=> daemon[d].init = "ready"
        /\ t.deadline # Off => ShouldArm(t) /\ t.suspended = Off
    BY <1>1, InTheLoop DEF LoopPC
  <2>2. t.deadline = Off
    BY <1>1, <2>1 DEF ShouldArm
  <2>3. /\ u \in Timer /\ u.initOk = TRUE /\ u.inHello = t.inHello /\ u.active = t.active
        /\ u.deadline = Off /\ u.suspended = t.suspended
    <3>1. u.initOk \in BOOLEAN
      BY <2>1, InitSucceededArms, TimerFields
    <3> QED
      BY <2>1, <2>2, <3>1, InitSucceededArms
  <2>4. Single(u) /\ Countdown(u) = Countdown(t) /\ Countdown(t) = u.suspended
    BY <2>2, <2>3 DEF Single, Countdown
  <2>5. ShouldArm(u) <=> TRUE /\ t.inHello = 0 /\ t.active = 0
    BY <2>3 DEF ShouldArm
  <2> HIDE DEF u
  <2>6. /\ v \in Timer /\ v.initOk = TRUE /\ v.inHello = t.inHello /\ v.active = t.active
        /\ Countdown(v) = IF ShouldArm(u) THEN IF Countdown(u) = Off THEN Timeout ELSE Countdown(u)
                          ELSE u.suspended
    BY <2>3, <2>4, UpdateArms
  <2> HIDE DEF v
  <2>7. timer' = [timer EXCEPT ![d] = v]
    BY <1>2, <1>6
  <2>8. /\ Ready' = [Ready EXCEPT ![d] = TRUE] /\ UNCHANGED <<Arriving, Served>>
        /\ Left' = [Left EXCEPT ![d] = Countdown(v)]
        /\ Ready'[d] = TRUE /\ Arriving'[d] = t.inHello /\ Served'[d] = t.active
        /\ Left[d] = Countdown(t)
    BY <2>6, <2>7, PromiseSees
  <2>9. Countdown(v) = SettledLeft(d)
    BY <2>4, <2>5, <2>6, <2>8 DEF SettledLeft
  <2>10. Promise!BecomeReady(d)
    BY <2>8, <2>9, BecomeReadyIs
  <2>11. UNCHANGED GoneBy /\ GoneBy[d] = "no"
    BY <1>1, <1>4 DEF GoneBy, Gone, Leaving
  <2> QED
    BY <2>10, <2>11, LoopStepIs
<1> QED
  BY <1>5, <1>6

LEMMA EventPromise ==
  ASSUME DaemonInv, NEW d \in Daemons, Event(d)
  PROVE  Promise!Next
<1> USE Facts
<1> DEFINE t == timer[d]
           q == events[d]
           e == Head(q)
           u == Apply(t, e)
           v == Update(u)
<1>1. daemon[d].pc = "serve" /\ q # << >> /\ UNCHANGED daemon
  BY DEF Event
<1>2. SessionsInv /\ timer' = [timer EXCEPT ![d] = v]
  BY DEF Event, Turn
<1>3. /\ t \in Timer /\ q \in Seq(ConnEvent) /\ Single(t)
      /\ t.deadline # Off => ShouldArm(t) /\ t.suspended = Off
      /\ Balanced(t, q, Cardinality(To(d, {"hello"})), Cardinality(To(d, {"active"})))
      /\ Cardinality(To(d, {"hello"})) \in Nat /\ Cardinality(To(d, {"active"})) \in Nat
  BY <1>1, InTheLoop DEF LoopPC
<1>4. /\ e \in ConnEvent
      /\ e # "Ended" => t.inHello > 0
      /\ e = "Ended" => t.active > 0
  BY <1>1, <1>3, BalancedApply
<1>5. t.inHello \in Nat /\ t.active \in Nat
  BY <1>3, TimerFields
<1>6. t.deadline = Off
  BY <1>3, <1>4, <1>5 DEF ConnEvent, ShouldArm
<1>7. /\ u \in Timer /\ u.initOk = t.initOk /\ u.deadline = Off
      /\ u.suspended = (IF e = "HelloPassed" THEN Off ELSE t.suspended)
      /\ u.inHello = (IF e = "Ended" THEN t.inHello ELSE t.inHello - 1)
      /\ u.active = CASE e = "HelloPassed" -> t.active + 1
                      [] e = "HelloFailed" -> t.active
                      [] e = "Ended" -> t.active - 1
  <2>1. /\ u \in Timer /\ u.initOk = t.initOk /\ u.deadline = t.deadline
        /\ u.suspended = IF e = "HelloPassed" THEN Off ELSE t.suspended
        /\ u.inHello = IF e = "Ended" THEN t.inHello ELSE Decrement(t.inHello)
        /\ u.active = CASE e = "HelloPassed" -> t.active + 1
                        [] e = "HelloFailed" -> t.active
                        [] e = "Ended" -> Decrement(t.active)
    BY <1>3, <1>4, ApplyCounts
  <2> HIDE DEF t, e, u
  <2>2. CASE e = "HelloPassed"
    BY <2>1, <2>2, <1>4, <1>5, <1>6 DEF Decrement
  <2>3. CASE e = "HelloFailed"
    BY <2>1, <2>3, <1>4, <1>5, <1>6 DEF Decrement
  <2>4. CASE e = "Ended"
    BY <2>1, <2>4, <1>4, <1>5, <1>6 DEF Decrement
  <2> QED
    BY <2>2, <2>3, <2>4, <1>4 DEF ConnEvent
<1> HIDE DEF e, u
<1>8. Single(u) /\ Countdown(u) = u.suspended /\ Countdown(t) = t.suspended
  BY <1>6, <1>7 DEF Single, Countdown
<1>9. /\ v \in Timer /\ v.initOk = u.initOk /\ v.inHello = u.inHello /\ v.active = u.active
      /\ Countdown(v) = IF ShouldArm(u) THEN IF Countdown(u) = Off THEN Timeout ELSE Countdown(u)
                        ELSE u.suspended
  BY <1>7, <1>8, UpdateArms
<1> HIDE DEF v
<1>10. /\ Ready' = Ready
       /\ Arriving' = [Arriving EXCEPT ![d] = v.inHello] /\ (v.inHello = t.inHello => Arriving' = Arriving)
       /\ Served' = [Served EXCEPT ![d] = v.active] /\ (v.active = t.active => Served' = Served)
       /\ Left' = [Left EXCEPT ![d] = Countdown(v)]
       /\ Ready'[d] = v.initOk /\ Arriving[d] = t.inHello /\ Arriving'[d] = v.inHello
       /\ Served[d] = t.active /\ Served'[d] = v.active /\ Left[d] = Countdown(t)
  <2>1. v.initOk = t.initOk
    BY <1>7, <1>9
  <2> QED
    BY <1>2, <1>9, <2>1, PromiseSees
<1>11. UNCHANGED GoneBy /\ GoneBy[d] = "no"
  BY <1>1 DEF GoneBy, Gone, Leaving
<1>12. e # "HelloPassed" => Countdown(v) = SettledLeft(d)
  <2>1. ShouldArm(u) <=> v.initOk /\ v.inHello = 0 /\ v.active = 0
    BY <1>9 DEF ShouldArm
  <2> QED
    BY <1>7, <1>8, <1>9, <1>10, <2>1 DEF SettledLeft
<1>13. CASE e = "HelloPassed"
  <2>1. u.active # 0 /\ u.suspended = Off
    BY <1>5, <1>7, <1>13
  <2>2. Countdown(v) = Off
    BY <1>9, <2>1 DEF ShouldArm
  <2>3. v.inHello = t.inHello - 1 /\ v.active = t.active + 1
    BY <1>7, <1>9, <1>13
  <2>4. Promise!PassHello(d)
    BY <1>4, <1>10, <1>13, <2>2, <2>3, PassHelloIs
  <2> QED
    BY <1>11, <2>4, LoopStepIs
<1>14. CASE e = "HelloFailed"
  <2>1. v.inHello = t.inHello - 1 /\ v.active = t.active
    BY <1>7, <1>9, <1>14
  <2>2. Promise!FailHello(d)
    BY <1>4, <1>10, <1>12, <1>14, <2>1, FailHelloIs
  <2> QED
    BY <1>11, <2>2, LoopStepIs
<1>15. CASE e = "Ended"
  <2>1. v.inHello = t.inHello /\ v.active = t.active - 1
    BY <1>7, <1>9, <1>15
  <2>2. Promise!EndSession(d)
    BY <1>4, <1>10, <1>12, <1>15, <2>1, EndSessionIs
  <2> QED
    BY <1>11, <2>2, LoopStepIs
<1> QED
  BY <1>4, <1>13, <1>14, <1>15 DEF ConnEvent

LEMMA ShutdownLockBusyPromise ==
  ASSUME DaemonInv, NEW d \in Daemons, ShutdownLockBusy(d)
  PROVE  Promise!Next
<1> USE Facts
<1> DEFINE t == timer[d]
           u == Postpone(t)
           v == Update(u)
<1>1. daemon[d].pc = "locking"
  BY DEF ShutdownLockBusy
<1>2. CASE daemon[d].why = "idle"
  <2>1. /\ daemon' = [daemon EXCEPT ![d].pc = "serve", ![d].why = "no"]
        /\ SessionsInv /\ timer' = [timer EXCEPT ![d] = v]
    BY <1>2 DEF ShutdownLockBusy, Turn
  <2>2. t \in Timer /\ t.deadline = 0 /\ t.suspended = Off /\ ShouldArm(t)
    BY <1>1, <1>2, IdleIsQuiet
  <2>3. /\ u \in Timer /\ u.initOk = t.initOk /\ u.inHello = t.inHello /\ u.active = t.active
        /\ u.suspended = Off /\ u.deadline = Timeout
    BY <2>2, InstantNumbers DEF Postpone, Timer
  <2>4. Single(u) /\ ShouldArm(u) /\ Countdown(u) = Timeout /\ Timeout # Off
    BY <2>2, <2>3, InstantNumbers DEF Single, ShouldArm, Countdown
  <2> HIDE DEF u
  <2>5. /\ v \in Timer /\ v.initOk = t.initOk /\ v.inHello = t.inHello /\ v.active = t.active
        /\ Countdown(v) = Timeout
    BY <2>3, <2>4, UpdateArms
  <2> HIDE DEF v
  <2>6. /\ Ready' = Ready /\ Arriving' = Arriving /\ Served' = Served
        /\ Left' = [Left EXCEPT ![d] = Countdown(v)] /\ Left[d] = Countdown(t)
        /\ Ready[d] = t.initOk /\ Arriving[d] = t.inHello /\ Served[d] = t.active
    BY <2>1, <2>5, PromiseSees
  <2>7. Countdown(t) = 0
    BY <2>2 DEF Countdown, Off
  <2>8. Promise!Postpone(d)
    BY <2>2, <2>5, <2>6, <2>7, PostponeIs DEF ShouldArm
  <2>9. UNCHANGED GoneBy /\ GoneBy[d] = "no"
    <3>1. Moves(d, "serve")
      BY <2>1, TurnMoves DEF DaemonPC, Why
    <3>2. Gone(d)' = "no" /\ Gone(d) = "no"
      BY <1>1, <3>1 DEF Gone, Leaving, Moves
    <3> QED
      BY <3>1, <3>2, GoneMoves DEF GoneBy, Moves
  <2> QED
    BY <2>8, <2>9, LoopStepIs
<1>3. CASE daemon[d].why # "idle"
  BY <1>1, <1>3, CommitPromise DEF ShutdownLockBusy
<1> QED
  BY <1>2, <1>3

LEMMA RecheckPromise ==
  ASSUME DaemonInv, NEW d \in Daemons, Recheck(d)
  PROVE  Promise!Next
<1> USE Facts
<1> DEFINE t == timer[d]
           n == Cardinality(To(d, {"backlog"}))
           u == Adopt(t, n)
           v == Update(u)
<1>1. daemon[d].pc = "recheck"
  BY DEF Recheck
<1>2. CASE Commit(d)
  BY <1>1, <1>2, CommitPromise
<1>3. CASE /\ To(d, {"backlog"}) # {}
           /\ daemon' = [daemon EXCEPT ![d].pc = "serve", ![d].why = "no"]
           /\ timer' = [timer EXCEPT ![d] = v]
  <2>1. t \in Timer /\ Single(t) /\ SessionsInv
    BY <1>1, InTheLoop DEF LoopPC
  <2>2. n \in Nat \ {0} /\ t.inHello \in Nat
    BY <1>3, <2>1, SessionsFinite, FS_EmptySet, TimerFields
  <2> HIDE DEF n
  <2>3. /\ u \in Timer /\ Single(u) /\ ~ShouldArm(u) /\ u.initOk = t.initOk
        /\ u.inHello = t.inHello + n /\ u.active = t.active /\ u.suspended = Countdown(t)
    BY <2>1, <2>2, AdoptSuspends
  <2> HIDE DEF u
  <2>4. /\ v \in Timer /\ v.initOk = t.initOk /\ v.inHello = t.inHello + n
        /\ v.active = t.active /\ Countdown(v) = Countdown(t)
    BY <2>3, UpdateArms
  <2> HIDE DEF v
  <2>5. /\ Arriving' = [Arriving EXCEPT ![d] = v.inHello] /\ Arriving[d] = t.inHello
        /\ Arriving'[d] = v.inHello /\ Ready' = Ready /\ Served' = Served /\ Left' = Left
    BY <1>3, <2>1, <2>4, PromiseSees
  <2>6. n \in 1..Arriving'[d]
    BY <2>2, <2>4, <2>5
  <2>7. Promise!Arrive(d)
    BY <2>4, <2>5, <2>6, ArriveIs
  <2>8. UNCHANGED GoneBy /\ GoneBy[d] = "no"
    <3>1. Moves(d, "serve")
      BY <1>3, TurnMoves DEF DaemonPC, Why
    <3>2. Gone(d)' = "no" /\ Gone(d) = "no"
      BY <1>1, <3>1 DEF Gone, Leaving, Moves
    <3> QED
      BY <3>1, <3>2, GoneMoves DEF GoneBy, Moves
  <2> QED
    BY <2>7, <2>8, LoopStepIs
<1> QED
  BY <1>2, <1>3, RecheckSteps

LEMMA TickPromise ==
  ASSUME DaemonInv, Tick
  PROVE  Promise!Next
<1> USE Facts
<1>1. /\ timer' = [d \in Daemons |-> IF InLoop(d) THEN Elapse(timer[d]) ELSE timer[d]]
      /\ UNCHANGED daemon
  BY DEF Tick
<1>2. ASSUME NEW d \in Daemons
      PROVE  /\ timer'[d].initOk = timer[d].initOk /\ timer'[d].inHello = timer[d].inHello
             /\ timer'[d].active = timer[d].active
             /\ Countdown(timer'[d]) = IF Countdown(timer[d]) > 0 THEN Countdown(timer[d]) - 1
                                       ELSE Countdown(timer[d])
  <2>1. CASE InLoop(d)
    <3>1. timer[d] \in Timer /\ Single(timer[d])
      BY <2>1, InTheLoop DEF InLoop, LoopPC
    <3>2. timer'[d] = Elapse(timer[d])
      BY <1>1, <2>1
    <3> QED
      BY <3>1, <3>2, ElapseCounts DEF Nearer
  <2>2. CASE ~InLoop(d)
    <3>1. timer'[d] = timer[d] /\ timer[d] = NewTimer
      BY <1>1, <2>2 DEF SessionInv, Session, InLoop, LoopPC
    <3>2. Countdown(timer[d]) = -1
      BY <3>1, NewTimerIsTimer DEF Off
    <3> QED
      BY <3>1, <3>2
  <2> QED
    BY <2>1, <2>2
<1>3. UNCHANGED <<Ready, Arriving, Served, GoneBy>>
  BY <1>1, <1>2 DEF Ready, Arriving, Served, GoneBy, Gone, Leaving
<1>4. Left' = [d \in Daemons |-> IF Left[d] > 0 THEN Left[d] - 1 ELSE Left[d]]
  BY <1>2 DEF Left
<1>5. Promise!Tick
  BY <1>3, <1>4 DEF Promise!Tick, Ready, Arriving, Served, Left, GoneBy, Gone, Leaving
<1> QED
  BY <1>5 DEF Promise!Next

\* A daemon that goes from one place to another of the same kind.
LEMMA MovesPromise ==
  ASSUME DaemonInv, NEW d \in Daemons, NEW pc, Moves(d, pc), UNCHANGED timer, Gone(d)' = Gone(d)
  PROVE  UNCHANGED Promise!vars
<1>1. ASSUME NEW e \in Daemons PROVE Gone(e)' = Gone(e)
  BY DEF Moves, Gone, Leaving
<1> QED
  BY <1>1, PromiseStutters

LEMMA GotoPromise ==
  ASSUME DaemonInv, NEW d \in Daemons, NEW pc \in DaemonPC, Goto(d, pc), UNCHANGED timer,
         \/ daemon[d].pc \notin LeavingPC \cup {"dead"} /\ pc \notin LeavingPC \cup {"dead"}
         \/ daemon[d].pc \in LeavingPC /\ pc \in LeavingPC
  PROVE  UNCHANGED Promise!vars
<1>1. Moves(d, pc) /\ daemon'[d].why = daemon[d].why
  BY Facts, GotoMoves
<1>2. Gone(d)' = Gone(d)
  BY <1>1 DEF Gone, Leaving, LeavingPC, Moves
<1> QED
  BY <1>1, <1>2, MovesPromise

LEMMA DaemonPromise ==
  ASSUME DaemonInv, NEW d \in Daemons, DaemonStep(d) \/ Signal(d) \/ Crash(d)
  PROVE  [Promise!Next]_(Promise!vars)
<1> USE Facts DEF DaemonPC, Why, LeavingPC
<1>1. CASE Probe(d)
  BY <1>1, DeadPromise, GotoPromise DEF Probe, ExitsForAnother
<1>2. CASE Bind(d)
  BY <1>2, DeadPromise, GotoPromise DEF Bind, ExitsForAnother
<1>3. CASE WritePidFile(d)
  BY <1>3, DeadPromise, GotoPromise DEF WritePidFile
<1>4. CASE IdleDeadline(d) \/ GraceDeadline(d) \/ Signal(d)
  <2>1. /\ daemon[d].pc = "serve" /\ UNCHANGED timer
        /\ \E why \in Why : daemon' = [daemon EXCEPT ![d].pc = "locking", ![d].why = why]
    BY <1>4 DEF IdleDeadline, GraceDeadline, Signal, Trigger
  <2>2. Moves(d, "locking")
    BY <2>1, TurnMoves
  <2>3. Gone(d)' = Gone(d)
    BY <2>1, <2>2 DEF Gone, Leaving, Moves
  <2> QED
    BY <2>1, <2>2, <2>3, MovesPromise
<1>5. CASE ShutdownLocks(d)
  BY <1>5, GotoPromise, CommitPromise DEF ShutdownLocks
<1>6. CASE DropListener(d) \/ RemoveFiles(d) \/ AbortSessions(d)
  BY <1>6, GotoPromise DEF DropListener, RemoveFiles, AbortSessions
<1>7. CASE Exit(d) \/ Crash(d)
  BY <1>7, DeadPromise DEF Exit, Crash, Killed
<1> QED
  BY <1>1, <1>2, <1>3, <1>4, <1>5, <1>6, <1>7, AcceptPromise, InitResultPromise, EventPromise,
     ShutdownLockBusyPromise, RecheckPromise DEF DaemonStep

LEMMA PromiseStep ==
  ASSUME DaemonInv, [Next]_vars
  PROVE  [Promise!Next]_(Promise!vars)
<1>1. ASSUME UNCHANGED <<daemon, timer>> PROVE UNCHANGED Promise!vars
  BY <1>1, PromiseStutters DEF Gone, Leaving
<1>2. ASSUME NEW i \in Conn, HelloEnds(i) \/ SessionEnds(i)
      PROVE  UNCHANGED Promise!vars
  BY <1>1, <1>2 DEF HelloEnds, HelloPasses, HelloFails, SessionEnds, SessionVars
<1>3. ASSUME NEW p \in Proxy, ProxyStep(p) \/ Leave(p) \/ KillProxy(p)
      PROVE  [Promise!Next]_(Promise!vars)
  <2>1. ASSUME NEW d \in Daemons, daemon[d].pc = "unborn", Goto(d, "probe"), UNCHANGED timer
        PROVE  UNCHANGED Promise!vars
    BY <2>1, GotoPromise DEF DaemonPC, LeavingPC
  <2>2. ASSUME NEW d \in Daemons, Killed(d) PROVE Promise!Next
    BY <2>2, DeadPromise DEF Killed
  <2> QED
    BY <1>1, <1>3, <2>1, <2>2, ProxyMoves
<1>4. CASE UNCHANGED vars
  BY <1>1, <1>4 DEF vars
<1> QED
  BY <1>2, <1>3, <1>4, DaemonPromise, TickPromise DEF Next

LEMMA PromiseInit == Init => Promise!Init
<1> SUFFICES ASSUME Init PROVE Promise!Init
  OBVIOUS
<1>1. ASSUME NEW d \in Daemons
      PROVE  /\ timer[d].initOk = FALSE /\ timer[d].inHello = 0 /\ timer[d].active = 0
             /\ Countdown(timer[d]) = -1 /\ Gone(d) = "no"
  BY NewTimerIsTimer DEF Init, NewTimer, Off, Gone, Leaving
<1> QED
  BY <1>1 DEF Promise!Init, Promise!InUse, Gone, Leaving

(***************************************************************************)
(* The idle timer, with its deadline that an accept suspends and a failed  *)
(* hello restores, implements the single countdown of IdleExit: every step *)
(* of the daemons is one of its steps or changes nothing it speaks of      *)
(* (IdleState, Daemon::serve, Daemon::begin_shutdown).                     *)
(***************************************************************************)
THEOREM PromiseKept == DaemonSpec => IdleExitPromise
<1>1. DaemonInv /\ [Next]_vars => [Promise!Next]_(Promise!vars)
  BY PromiseStep
<1> QED
  BY <1>1, PromiseInit, DaemonInvariantHolds, PTL DEF DaemonSpec, IdleExitPromise, Promise!IdleExitSpec
=============================================================================

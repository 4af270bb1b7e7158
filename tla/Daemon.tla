------------------------------- MODULE Daemon -------------------------------
(***************************************************************************)
(* The shared daemons of one key and the proxies that find or start them:  *)
(* the spawn lock, the socket path and the pid file in the run directory;  *)
(* a daemon's bind, accept loop, initialisation, sessions and exits (idle, *)
(* signal, failed initialisation); a proxy's connect-or-spawn; and what    *)
(* the guard of admin commands sees of them.                               *)
(*                                                                         *)
(* A socket or pid file is named by the daemon that made it, which stands  *)
(* for its inode and for the pid written in it.  The kernel drops a        *)
(* process's file locks and closes its connections when it dies.           *)
(***************************************************************************)
EXTENDS IdleTimer, Sequences, FiniteSets, FiniteSetsExt

CONSTANTS
    Proxy,          \* ferrex proxies
    MaxDaemons,     \* bound: daemons ever spawned
    MaxConns,       \* bound: connections that exist at a time
    MaxRetries,     \* bound: attempts after the first, of all proxies together
    MaxFaults,      \* bound: signals to daemons, and daemons killed
    MaxKilled       \* bound: proxies killed

ASSUME DaemonBounds ==
    /\ {MaxDaemons, MaxConns, MaxRetries, MaxFaults, MaxKilled} \subseteq Nat
    /\ Proxy \cap Nat = {}

Daemons == 1..MaxDaemons
Conn == 1..MaxConns
None == 0

VARIABLES
    lock,       \* the owner of the spawn lock (<key>.lock)
    sock,       \* the daemon whose socket is at the path
    pidFile,    \* the daemon named by the pid file at the path
    daemon,     \* [Daemons -> where it is, its init state, why it leaves]
    timer,      \* [Daemons -> Timer]
    events,     \* [Daemons -> queue of ConnEvents its loop has not applied]
    conn,       \* [Conn -> both ends of a connection]
    proxy,      \* [Proxy -> where it is, its connection, its child]
    retries,    \* attempts after the first so far
    faults      \* signals and kills so far; ghost: a daemon lost its spawner before it listened

files == <<lock, sock, pidFile>>
vars == <<files, daemon, timer, events, conn, proxy, retries, faults>>

DaemonPC == {"unborn", "probe", "bind", "bound", "serve", "locking", "recheck",
             "close", "unlink", "abort", "stop", "dead"}
ProxyPC == {"connect", "lock", "reconnect", "spawn", "wait", "opened", "done", "failed",
            "killed"}
Why == {"no", "idle", "signal", "grace"}

NoConn == [by |-> None, to |-> None, phase |-> "free", open |-> FALSE]

DaemonTypeOK ==
    /\ lock \in Proxy \cup Daemons \cup {None}
    /\ {sock, pidFile} \subseteq Daemons \cup {None}
    /\ daemon \in [Daemons -> [pc : DaemonPC, init : {"pending", "ready", "failed"}, why : Why]]
    /\ timer \in [Daemons -> Timer]
    /\ events \in [Daemons -> Seq({"HelloPassed", "HelloFailed", "Ended"})]
    /\ conn \in [Conn -> [by : Proxy \cup Daemons \cup {None}, to : Daemons \cup {None},
                          phase : {"free", "backlog", "hello", "active", "ended"},
                          open : BOOLEAN]]
    /\ proxy \in [Proxy -> [pc : ProxyPC, conn : Conn \cup {None}, child : Daemons \cup {None}]]
    /\ retries \in 0..MaxRetries
    /\ faults \in [daemons : 0..MaxFaults, proxies : 0..MaxKilled, orphan : BOOLEAN]

-----------------------------------------------------------------------------
(* Sockets, files and processes *)

Alive(d) == daemon[d].pc \notin {"unborn", "dead"}
Listening(d) == daemon[d].pc \in {"bound", "serve", "locking", "recheck", "close"}
InLoop(d) == daemon[d].pc \in {"serve", "locking", "recheck"}
\* Session tasks run until they are aborted.
Sessions(d) == InLoop(d) \/ daemon[d].pc \in {"close", "unlink", "abort"}
Leaving(d) == daemon[d].pc \in {"close", "unlink", "abort", "stop"}

\* A connect succeeds, or finds no file, a socket nobody listens on, or a full backlog.
ServerUp == sock # None /\ Listening(sock)
FreeConn == {i \in Conn : conn[i].phase = "free"}
NewConn == Min(FreeConn)
Connects(who, open) ==
    /\ ServerUp /\ FreeConn # {}
    /\ conn' = [conn EXCEPT ![NewConn] =
                    [by |-> who, to |-> sock, phase |-> "backlog", open |-> open]]

\* A connection disappears once both ends are closed.
ServerEnds(c) == IF c.open THEN [c EXCEPT !.phase = "ended"] ELSE NoConn
ClientCloses(c) == IF c.phase = "ended" THEN NoConn ELSE [c EXCEPT !.open = FALSE]
To(d, phases) == {i \in Conn : conn[i].to = d /\ conn[i].phase \in phases}
EndAll(ends) == conn' = [i \in Conn |-> IF i \in ends THEN ServerEnds(conn[i]) ELSE conn[i]]

\* addr.rs pid_file_held: the lock on a pid file lasts as long as its daemon.
PidFileHeld == pidFile # None /\ Alive(pidFile)

\* refuse_if_live finds no daemon: audit --fix, backfill and nuke go ahead.
GuardPasses == ~PidFileHeld

Goto(d, pc) == daemon' = [daemon EXCEPT ![d].pc = pc]

\* The loop is left for good: its counts and its events have no reader any more.
Commit(d) ==
    /\ Goto(d, "close")
    /\ timer' = [timer EXCEPT ![d] = NewTimer]
    /\ events' = [events EXCEPT ![d] = << >>]

Release(who) == lock' = IF lock = who THEN None ELSE lock

\* The process ends, and with it what it kept in memory.
Dead(d) ==
    /\ daemon' = [daemon EXCEPT ![d] = [pc |-> "dead", init |-> "pending", why |-> "no"]]
    /\ timer' = [timer EXCEPT ![d] = NewTimer]
    /\ events' = [events EXCEPT ![d] = << >>]

-----------------------------------------------------------------------------
(* A daemon starts: Daemon::bind, bind_listener *)

\* The daemon's own connect leaves a connection that is closed at once.
ExitsForAnother(d) == Connects(d, FALSE) /\ Dead(d)

Probe(d) ==
    /\ daemon[d].pc = "probe"
    /\ \/ ExitsForAnother(d)
       \/ Goto(d, "bind") /\ UNCHANGED <<timer, events, conn>>
    /\ UNCHANGED <<files, proxy, retries, faults>>

\* AddrInUse: the daemon leaves, to the winner of the race or from a stale or busy socket that
\* it does not unlink.
Bind(d) ==
    /\ daemon[d].pc = "bind"
    /\ \/ sock = None /\ sock' = d /\ Goto(d, "bound") /\ UNCHANGED <<timer, events, conn>>
       \/ ExitsForAnother(d) /\ UNCHANGED sock
       \/ sock # None /\ Dead(d) /\ UNCHANGED <<sock, conn>>
    /\ UNCHANGED <<lock, pidFile, proxy, retries, faults>>

\* remove_socket_if_ours
SockWithout(d) == IF sock = d THEN None ELSE sock

\* Mutant: the loop starts before the pid file is written.
WritePidFileLater(d) ==
    /\ daemon[d].pc = "bound" /\ Goto(d, "serve")
    /\ UNCHANGED <<files, timer, events, conn, proxy, retries, faults>>

WritePidFile(d) ==
    /\ daemon[d].pc = "bound"
    /\ \/ pidFile' = d /\ Goto(d, "serve") /\ UNCHANGED <<sock, timer, events, conn>>
       \/ /\ sock' = SockWithout(d)
          /\ Dead(d) /\ EndAll(To(d, {"backlog"}))
          /\ UNCHANGED pidFile
    /\ UNCHANGED <<lock, proxy, retries, faults>>

-----------------------------------------------------------------------------
(* The accept loop: Daemon::serve.  Every turn begins with idle.update.    *)

Turn(d, t) == timer' = [timer EXCEPT ![d] = Update(t)]

Accept(d, i) ==
    /\ daemon[d].pc = "serve" /\ conn[i].to = d /\ conn[i].phase = "backlog"
    /\ conn' = [conn EXCEPT ![i].phase = "hello"]
    /\ Turn(d, Accepted(timer[d]))
    /\ UNCHANGED <<files, daemon, events, proxy, retries, faults>>

\* What the task of start_init sends: the service, or the error it could not be built for.
InitOutcome == {"ready", "failed"}

InitResult(d) ==
    /\ daemon[d].pc = "serve" /\ daemon[d].init = "pending"
    /\ \E outcome \in InitOutcome :
        /\ daemon' = [daemon EXCEPT ![d].init = outcome]
        /\ IF outcome = "ready" THEN Turn(d, InitSucceeded(timer[d])) ELSE UNCHANGED timer
    /\ UNCHANGED <<files, events, conn, proxy, retries, faults>>

Event(d) ==
    /\ daemon[d].pc = "serve" /\ events[d] # << >>
    /\ Turn(d, Apply(timer[d], Head(events[d])))
    /\ events' = [events EXCEPT ![d] = Tail(@)]
    /\ UNCHANGED <<files, daemon, conn, proxy, retries, faults>>

Trigger(d, why) ==
    /\ daemon[d].pc = "serve"
    /\ daemon' = [daemon EXCEPT ![d].pc = "locking", ![d].why = why]
    /\ UNCHANGED <<files, timer, events, conn, proxy, retries>>

IdleDeadline(d) == timer[d].deadline = 0 /\ Trigger(d, "idle") /\ UNCHANGED faults
GraceDeadline(d) == daemon[d].init = "failed" /\ Trigger(d, "grace") /\ UNCHANGED faults
Signal(d) ==
    /\ faults.daemons < MaxFaults
    /\ Trigger(d, "signal")
    /\ faults' = [faults EXCEPT !.daemons = @ + 1]

-----------------------------------------------------------------------------
(* Daemon::begin_shutdown *)

ShutdownLocks(d) ==
    /\ daemon[d].pc = "locking" /\ lock = None
    /\ lock' = d
    /\ IF daemon[d].why = "idle" THEN Goto(d, "recheck") /\ UNCHANGED <<timer, events, conn>>
       ELSE Commit(d) /\ EndAll(To(d, {"backlog"}))
    /\ UNCHANGED <<sock, pidFile, proxy, retries, faults>>

\* The lock stayed busy for SHUTDOWN_LOCK_WAIT.
ShutdownLockBusy(d) ==
    /\ daemon[d].pc = "locking" /\ lock # None
    /\ IF daemon[d].why = "idle"
       THEN /\ daemon' = [daemon EXCEPT ![d].pc = "serve", ![d].why = "no"]
            /\ Turn(d, Postpone(timer[d]))
            /\ UNCHANGED events
       ELSE Commit(d)
    /\ UNCHANGED <<files, conn, proxy, retries, faults>>

\* drain_backlog, then the events queued so far.
ApplyAll(t, queue) ==
    LET after[n \in 0..Len(queue)] == IF n = 0 THEN t ELSE Apply(after[n - 1], queue[n])
    IN after[Len(queue)]

\* n connections found are adopted; the first one suspends the deadline.
Adopt(t, n) == IF n = 0 THEN t ELSE [Accepted(t) EXCEPT !.inHello = t.inHello + n]

\* Mutant: the idle exit looks at the counts alone.
FoundInBacklogNone(d) == {}

FoundInBacklog(d) == To(d, {"backlog"})

\* Mutant: an idle exit that is called off keeps the lock.
ReleaseAfterCancelNever(d) == UNCHANGED lock

ReleaseAfterCancel(d) == Release(d)

Recheck(d) ==
    /\ daemon[d].pc = "recheck"
    /\ LET drained == FoundInBacklog(d)
           t == ApplyAll(timer[d], events[d])
       IN IF drained = {} /\ ShouldArm(t)
          THEN Commit(d) /\ UNCHANGED <<lock, conn>>
          ELSE /\ conn' = [i \in Conn |-> IF i \in drained THEN [conn[i] EXCEPT !.phase = "hello"]
                                          ELSE conn[i]]
               /\ daemon' = [daemon EXCEPT ![d].pc = "serve", ![d].why = "no"]
               /\ Turn(d, Adopt(t, Cardinality(drained)))
               /\ events' = [events EXCEPT ![d] = << >>]
               /\ ReleaseAfterCancel(d)
    /\ UNCHANGED <<sock, pidFile, proxy, retries, faults>>

-----------------------------------------------------------------------------
(* Daemon::finish *)

DropListener(d) ==
    /\ daemon[d].pc = "close"
    /\ EndAll(To(d, {"backlog"}))
    /\ Goto(d, IF lock = d THEN "unlink" ELSE "abort")
    /\ UNCHANGED <<files, timer, events, proxy, retries, faults>>

\* remove_pid_file_if_ours, remove_socket_if_ours, release_lock.  One step: without the lock
\* no process looks at both files.
RemoveFiles(d) ==
    /\ daemon[d].pc = "unlink"
    /\ pidFile' = IF pidFile = d THEN None ELSE pidFile
    /\ sock' = SockWithout(d) /\ lock' = None
    /\ Goto(d, "abort")
    /\ UNCHANGED <<timer, events, conn, proxy, retries, faults>>

AbortSessions(d) ==
    /\ daemon[d].pc = "abort"
    /\ EndAll(To(d, {"hello", "active"}))
    /\ Goto(d, "stop")
    /\ UNCHANGED <<files, timer, events, proxy, retries, faults>>

\* service.shutdown has ended or timed out; the process exits.
Exit(d) ==
    /\ daemon[d].pc = "stop"
    /\ Dead(d)
    /\ UNCHANGED <<files, conn, proxy, retries, faults>>

\* The kernel closes the connections of a process that is killed.
Killed(d) == Dead(d) /\ EndAll(To(d, {"backlog", "hello", "active"}))

Crash(d) ==
    /\ Alive(d) /\ faults.daemons < MaxFaults
    /\ faults' = [faults EXCEPT !.daemons = @ + 1]
    /\ Killed(d) /\ Release(d)
    /\ UNCHANGED <<sock, pidFile, proxy, retries>>

-----------------------------------------------------------------------------
(* Sessions: serve_connection, PhaseGuard *)

\* Nobody reads the events of a daemon that leaves.
Report(i, event) ==
    events' = IF InLoop(conn[i].to) THEN [events EXCEPT ![conn[i].to] = Append(@, event)] ELSE events
SessionVars == <<files, daemon, timer, proxy, retries, faults>>

\* The hello is read, initialisation has succeeded, and the reply is sent.
HelloPasses(i) ==
    /\ conn[i].phase = "hello" /\ Sessions(conn[i].to)
    /\ daemon[conn[i].to].init = "ready"
    /\ conn' = [conn EXCEPT ![i].phase = "active"]
    /\ Report(i, "HelloPassed")
    /\ UNCHANGED SessionVars

\* No hello in time, or refused: initialisation, protocol, key or namespace.
HelloFails(i) ==
    /\ conn[i].phase = "hello" /\ Sessions(conn[i].to)
    /\ conn' = [conn EXCEPT ![i] = ServerEnds(@)]
    /\ Report(i, "HelloFailed")
    /\ UNCHANGED SessionVars

\* The client has closed the connection, or the session fails.
SessionEnds(i) ==
    /\ conn[i].phase = "active" /\ Sessions(conn[i].to)
    /\ conn' = [conn EXCEPT ![i] = ServerEnds(@)]
    /\ Report(i, "Ended")
    /\ UNCHANGED SessionVars

-----------------------------------------------------------------------------
(* A proxy: connect_or_spawn, wait_for_accept, send_hello, run_round *)

Step(p, pc) == proxy' = [proxy EXCEPT ![p].pc = pc] /\ UNCHANGED retries
ProxyVars == <<pidFile, faults>>

\* A retryable error ends the attempt and lets go of the lock; so does the last one.
Retry(p) ==
    /\ \E pc \in {"connect", "failed"} :
        /\ pc = "connect" => retries < MaxRetries
        /\ retries' = retries + (IF pc = "connect" THEN 1 ELSE 0)
        /\ proxy' = [proxy EXCEPT ![p] = [pc |-> pc, conn |-> None, child |-> None]]
    /\ Release(p)

Opened(p) ==
    /\ Connects(p, TRUE)
    /\ proxy' = [proxy EXCEPT ![p].pc = "opened", ![p].conn = NewConn, ![p].child = None]
    /\ Release(p) /\ UNCHANGED retries

FirstConnect(p) ==
    /\ proxy[p].pc = "connect"
    /\ \/ Opened(p)
       \/ Step(p, "lock") /\ UNCHANGED <<lock, conn>>
    /\ UNCHANGED <<ProxyVars, sock, daemon, timer, events>>

AcquireLock(p) ==
    /\ proxy[p].pc = "lock"
    /\ \/ lock = None /\ lock' = p /\ Step(p, "reconnect")
       \/ lock # None /\ Step(p, "failed") /\ UNCHANGED lock
    /\ UNCHANGED <<ProxyVars, sock, daemon, timer, events, conn>>

\* A connection is refused where nobody listens, and (on macOS) where the backlog is full; a
\* daemon that has just bound has not yet had the time for that.
MayRefuse == sock # None /\ daemon[sock].pc # "bound"

\* Mutant: a refused connection is taken for stale without a look at the pid file.
TakenForStaleUnchecked == sock = None \/ MayRefuse

\* No socket, or a refusal by one whose daemon is dead.  The look at the pid file is part of the
\* step: a socket that nobody listens on cannot be replaced while the lock is held.
TakenForStale == sock = None \/ (MayRefuse /\ ~PidFileHeld)

\* Connected; taken for stale; or busy, or alive but refusing.
ConnectUnderLock(p) ==
    /\ proxy[p].pc = "reconnect"
    /\ \/ Opened(p)
       \/ TakenForStale /\ Step(p, "spawn") /\ UNCHANGED <<lock, conn>>
       \/ (ServerUp \/ (MayRefuse /\ PidFileHeld)) /\ Retry(p) /\ UNCHANGED conn
    /\ UNCHANGED <<ProxyVars, sock, daemon, timer, events>>

Unborn == {d \in Daemons : daemon[d].pc = "unborn"}

\* remove_stale_socket removes whatever is at the path by now; then spawn_daemon, which may fail.
SpawnDaemon(p) ==
    /\ proxy[p].pc = "spawn"
    /\ sock' = None
    /\ \/ /\ Unborn # {}
          /\ Goto(Min(Unborn), "probe")
          /\ proxy' = [proxy EXCEPT ![p].pc = "wait", ![p].child = Min(Unborn)]
          /\ UNCHANGED <<lock, retries>>
       \/ Retry(p) /\ UNCHANGED daemon
    /\ UNCHANGED <<ProxyVars, timer, events, conn>>

\* The child accepts, has exited, or the accept budget ends and the child is killed.
WaitConnects(p) ==
    /\ proxy[p].pc = "wait"
    /\ Opened(p)
    /\ UNCHANGED <<ProxyVars, sock, daemon, timer, events>>

WaitChildExited(p) ==
    /\ proxy[p].pc = "wait" /\ ~Alive(proxy[p].child)
    /\ Retry(p)
    /\ UNCHANGED <<ProxyVars, sock, daemon, timer, events, conn>>

WaitBudgetEnds(p) ==
    /\ proxy[p].pc = "wait" /\ Alive(proxy[p].child)
    /\ Retry(p)
    /\ Killed(proxy[p].child)
    /\ UNCHANGED <<ProxyVars, sock>>

\* The connection ends, in its hello or later: another attempt.
ConnectionLost(p) ==
    /\ proxy[p].pc = "opened" /\ conn[proxy[p].conn].phase = "ended"
    /\ Retry(p)
    /\ conn' = [conn EXCEPT ![proxy[p].conn] = NoConn]
    /\ UNCHANGED <<ProxyVars, sock, daemon, timer, events>>

\* The hello budget ends, the refusal is fatal, or the client closes stdin.
Leave(p) ==
    /\ proxy[p].pc = "opened"
    /\ proxy' = [proxy EXCEPT ![p].pc = "done", ![p].conn = None]
    /\ conn' = [conn EXCEPT ![proxy[p].conn] = ClientCloses(@)]
    /\ UNCHANGED <<ProxyVars, lock, sock, daemon, timer, events, retries>>

\* The proxy is killed: its lock is free and its connection closed, and a daemon that it has
\* spawned lives on.
KillProxy(p) ==
    /\ faults.proxies < MaxKilled
    /\ proxy[p].pc \notin {"done", "failed", "killed"}
    /\ faults' = [faults EXCEPT !.proxies = @ + 1,
                     !.orphan = @ \/ (proxy[p].child # None /\ ~Listening(proxy[p].child))]
    /\ proxy' = [proxy EXCEPT ![p].pc = "killed", ![p].conn = None, ![p].child = None]
    /\ Release(p)
    /\ conn' = IF proxy[p].conn = None THEN conn
               ELSE [conn EXCEPT ![proxy[p].conn] = ClientCloses(@)]
    /\ UNCHANGED <<pidFile, sock, daemon, timer, events, retries>>

-----------------------------------------------------------------------------
\* Time passes for the deadlines of the daemons in their loop.
Tick ==
    /\ timer' = [d \in Daemons |-> IF InLoop(d) THEN Elapse(timer[d]) ELSE timer[d]]
    /\ timer' # timer
    /\ UNCHANGED <<files, daemon, events, conn, proxy, retries, faults>>

Init ==
    /\ lock = None /\ sock = None /\ pidFile = None
    /\ daemon = [d \in Daemons |-> [pc |-> "unborn", init |-> "pending", why |-> "no"]]
    /\ timer = [d \in Daemons |-> NewTimer]
    /\ events = [d \in Daemons |-> << >>]
    /\ conn = [i \in Conn |-> NoConn]
    /\ proxy = [p \in Proxy |-> [pc |-> "connect", conn |-> None, child |-> None]]
    /\ retries = 0
    /\ faults = [daemons |-> 0, proxies |-> 0, orphan |-> FALSE]

DaemonStep(d) ==
    \/ Probe(d) \/ Bind(d) \/ WritePidFile(d)
    \/ \E i \in Conn : Accept(d, i)
    \/ InitResult(d) \/ Event(d) \/ IdleDeadline(d) \/ GraceDeadline(d)
    \/ ShutdownLocks(d) \/ ShutdownLockBusy(d) \/ Recheck(d)
    \/ DropListener(d) \/ RemoveFiles(d) \/ AbortSessions(d) \/ Exit(d)

HelloEnds(i) == HelloPasses(i) \/ HelloFails(i)

ProxyStep(p) ==
    \/ FirstConnect(p) \/ AcquireLock(p) \/ ConnectUnderLock(p) \/ SpawnDaemon(p)
    \/ WaitConnects(p) \/ WaitChildExited(p) \/ WaitBudgetEnds(p) \/ ConnectionLost(p)

Next ==
    \/ \E d \in Daemons : DaemonStep(d) \/ Signal(d) \/ Crash(d)
    \/ \E i \in Conn : HelloEnds(i) \/ SessionEnds(i)
    \/ \E p \in Proxy : ProxyStep(p) \/ Leave(p) \/ KillProxy(p)
    \/ Tick

DaemonSpec == Init /\ [][Next]_vars

\* Every task runs on: daemons, their sessions, proxies and the clock.  Signals, crashes
\* and a client's leaving are not owed.
DaemonFairSpec ==
    /\ DaemonSpec
    /\ \A d \in Daemons : WF_vars(DaemonStep(d))
    /\ \A i \in Conn : WF_vars(HelloEnds(i)) /\ WF_vars(~conn[i].open /\ SessionEnds(i))
    /\ \A p \in Proxy : WF_vars(ProxyStep(p))
    /\ WF_vars(Tick)

-----------------------------------------------------------------------------
(* Properties *)

\* At most one daemon of a key listens, and the socket at the path is its own: nobody unlinks
\* a socket that is served, or binds beside it (spawn.rs connect_or_spawn, SpawnGuard).  A proxy
\* that is killed between the spawn and the accept leaves the child without the lock: from then
\* on another proxy may unlink the child's socket.
OneListener == faults.orphan \/ \A d \in Daemons : Listening(d) => sock = d

\* A daemon in its loop is the one that the pid file names, so that proxies find it and admin
\* commands refuse: a daemon on its way out never removes its successor's file
\* (remove_pid_file_if_ours).  With the same exception as OneListener.
PidFileNamesServer ==
    faults.orphan \/ \A d \in Daemons : InLoop(d) => pidFile = d /\ ~GuardPasses

\* An idle exit drops no connection that was made before it was decided, accepted or not
\* (begin_shutdown's second look at the backlog and the counts, under the lock).
IdleExitSparesClients ==
    [][\A d \in Daemons :
        InLoop(d) /\ daemon'[d].pc = "close" /\ daemon'[d].why = "idle"
            => To(d, {"backlog", "hello", "active"}) = {}]_vars

\* The counts of the idle timer and the events still queued add up to the sessions there are,
\* so that neither count falls below zero (PhaseGuard, IdleState::apply).
Queued(d, event) == Cardinality({n \in DOMAIN events[d] : events[d][n] = event})
CountsMatch ==
    \A d \in Daemons : InLoop(d) =>
        /\ timer[d].inHello = Cardinality(To(d, {"hello"})) + Queued(d, "HelloPassed") + Queued(d, "HelloFailed")
        /\ timer[d].active + Queued(d, "HelloPassed") = Cardinality(To(d, {"active"})) + Queued(d, "Ended")

\* The idle timer with its suspended deadline implements the single countdown of IdleExit.
Countdown(t) == IF t.deadline # Off THEN t.deadline ELSE t.suspended
Promise == INSTANCE IdleExit WITH
    ready <- [d \in Daemons |-> timer[d].initOk],
    arriving <- [d \in Daemons |-> timer[d].inHello],
    served <- [d \in Daemons |-> timer[d].active],
    left <- [d \in Daemons |-> Countdown(timer[d])],
    gone <- [d \in Daemons |-> IF daemon[d].pc = "dead" THEN "dead"
                               ELSE IF Leaving(d) THEN daemon[d].why ELSE "no"]
IdleExitPromise == Promise!IdleExitSpec

\* Nobody keeps the spawn lock for ever, so that an attempt never waits for a stuck holder.
LockFreed == lock # None ~> lock = None

\* Once no proxy is left, every daemon goes, the ones nobody could reach included.
Finished == \A p \in Proxy : proxy[p].pc \in {"done", "failed", "killed"}
DaemonsGo == Finished ~> \A d \in Daemons : ~Alive(d)

-----------------------------------------------------------------------------
(* The inductive invariant *)

\* Who holds the spawn lock, and who must.
LockInv ==
    /\ \A p \in Proxy : lock = p <=> proxy[p].pc \in {"reconnect", "spawn", "wait"}
    /\ \A d \in Daemons :
        /\ lock = d => daemon[d].pc \in {"recheck", "close", "unlink"}
        /\ daemon[d].pc \in {"recheck", "unlink"} => lock = d

ProxyInv ==
    \A p \in Proxy : /\ proxy[p].child # None <=> proxy[p].pc = "wait"
                     /\ proxy[p].conn # None <=> proxy[p].pc = "opened"

\* A daemon that has yet to bind is the child of the proxy with the lock; one that listens has
\* the path to itself, and no other proxy is about to unlink it.
SocketInv ==
    \A d \in Daemons :
        /\ Listening(d) => sock = d
        /\ Listening(d) /\ daemon[d].pc # "bound" => pidFile = d
        /\ daemon[d].pc \in {"probe", "bind"} => \E p \in Proxy : proxy[p].child = d
        /\ Listening(d) => \A p \in Proxy : proxy[p].pc # "spawn" /\ proxy[p].child \in {None, d}

\* Sessions are those of a daemon that has not aborted them.
ConnInv ==
    /\ \A i \in Conn : conn[i].phase # "free" => conn[i].to \in Daemons
    /\ \A d \in Daemons : ~Sessions(d) => To(d, {"hello", "active"}) = {}

\* The events of one kind among the first n in d's queue.
Upto(d, event, n) == Cardinality({k \in 1..n : events[d][k] = event})

\* A session's end is queued behind its passed hello: no prefix of the queue takes active below zero.
EndsFollowHellos(d) ==
    \A n \in 0..Len(events[d]) : Upto(d, "Ended", n) <= timer[d].active + Upto(d, "HelloPassed", n)

\* The deadline runs only while all is quiet, and what an idle exit saw stays true until the
\* daemon holds the lock.
TimerInv(d) ==
    LET t == timer[d] IN
    IF InLoop(d)
    THEN /\ t.initOk <=> daemon[d].init = "ready"
         /\ t.deadline # Off => ShouldArm(t) /\ t.suspended = Off
         /\ EndsFollowHellos(d)
         /\ daemon[d].pc = "locking" => daemon[d].why # "no"
         /\ daemon[d].pc = "recheck" => daemon[d].why = "idle"
         /\ daemon[d].pc # "serve" /\ daemon[d].why = "idle" => t.deadline = 0
    ELSE /\ t = NewTimer /\ events[d] = << >>
         /\ ~Leaving(d) => daemon[d].init = "pending"

(***************************************************************************)
(* Inductive: the spawn lock covers a daemon from its spawn to its bind    *)
(* and from the second look of an idle exit to the removal of its files,   *)
(* and the timer counts what the sessions have reported.                   *)
(***************************************************************************)
DaemonInv ==
    /\ DaemonTypeOK /\ LockInv /\ ProxyInv /\ ConnInv
    /\ faults.orphan \/ SocketInv
    /\ \A d \in Daemons : TimerInv(d)
    /\ CountsMatch
=============================================================================

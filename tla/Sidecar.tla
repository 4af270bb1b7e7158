------------------------------- MODULE Sidecar -------------------------------
(***************************************************************************)
(* The Qdrant sidecar that all ferrex processes of a directory share: who  *)
(* starts it, who reuses it, who stops it, and how watchers bring it back. *)
(*                                                                         *)
(* A qdrant is named by its pid.  It comes up, dies or hangs within the    *)
(* time that a health check waits and that a pid file counts as fresh (one *)
(* constant, HEALTH_CHECK_MAX_TIMEOUT, in the code): a probe of a fresh    *)
(* pid file therefore fails only once its qdrant has stopped starting.     *)
(***************************************************************************)
EXTENDS Naturals, FiniteSets, FiniteSetsExt

CONSTANTS
    Keeper,         \* ferrex processes that leave qdrant running and watch it (LeaveRunning)
    Owner,          \* ferrex processes that stop the qdrant they started (KillOnDrop)
    Port,           \* the values of qdrant_port in their configurations
    MaxQdrants,     \* bound: pids of qdrants
    MaxFaults,      \* bound: deaths, hangs, reused pids, failed writes, killed processes
    RestartLimit    \* restarts a watcher may spend in a window (RESTART_LIMIT)

ASSUME SidecarBounds ==
    /\ {MaxQdrants, MaxFaults} \subseteq Nat /\ RestartLimit \in Nat \ {0}
    /\ 0 \notin Keeper \cup Owner

Ferrex == Keeper \cup Owner
Qdrant == 1..MaxQdrants
None == 0

VARIABLES
    port,       \* [Ferrex -> its qdrant_port], fixed
    named,      \* whether qdrant runs under its own name and not a wrapper script's, fixed
    lock,       \* the process that holds the lock on the file qdrant.lock
    pidFile,    \* the pid in qdrant.pid
    portFile,   \* the pid in qdrant.port
    qdrant,     \* [Qdrant -> state and port of the process with that pid]
    ferrex,     \* [Ferrex -> where it is, its qdrant, whether that is its child]
    spent,      \* [Keeper -> restarts its budget still counts]
    lost,       \* ghost: qdrants whose spawner was killed before it had written both files
    faults

config == <<port, named>>
files == <<pidFile, portFile>>
vars == <<config, lock, files, qdrant, ferrex, spent, lost, faults>>

FerrexPC == {"new", "lock", "resolve", "probe", "relock", "recheck", "spawn", "record", "kill",
             "unrecord", "health", "reuse", "run", "restart", "off"}

\* Every variable has its type; in particular a watcher never spends more restarts in a window
\* than RESTART_LIMIT allows (RestartBudget).
SidecarTypeOK ==
    /\ port \in [Ferrex -> Port] /\ named \in BOOLEAN
    /\ lock \in Ferrex \cup {None}
    /\ {pidFile, portFile} \subseteq Qdrant \cup {None}
    /\ qdrant \in [Qdrant -> [state : {"none", "starting", "up", "hung", "dead", "foreign"},
                              port : Port \cup {None}]]
    /\ ferrex \in [Ferrex -> [pc : FerrexPC, q : Qdrant \cup {None}, child : BOOLEAN,
                              at : Port \cup {None}, restarting : BOOLEAN]]
    /\ spent \in [Keeper -> 0..RestartLimit]
    /\ lost \subseteq Qdrant
    /\ faults \in 0..MaxFaults

-----------------------------------------------------------------------------
(* Processes and files *)

\* pid_alive: a zombie is gone, a process that got the same pid is not.
PidAlive(q) == qdrant[q].state \in {"starting", "up", "hung", "foreign"}
IsQdrant(q) == named /\ qdrant[q].state \in {"starting", "up", "hung"}
Answers(n) == \E q \in Qdrant : qdrant[q].state = "up" /\ qdrant[q].port = n

\* The recorded port, or the configured one where none is recorded.
RecordedPort(p) == IF portFile = pidFile THEN qdrant[pidFile].port ELSE port[p]

\* A process that has no qdrant, at pc.
Idle(pc, restarting) ==
    [pc |-> pc, q |-> None, child |-> FALSE, at |-> None, restarting |-> restarting]

Goto(p, pc) == ferrex' = [ferrex EXCEPT ![p].pc = pc]
Acquire(p, pc) == lock = None /\ lock' = p /\ Goto(p, pc)
Release(p) == lock' = IF lock = p THEN None ELSE lock
Fault == faults < MaxFaults /\ faults' = faults + 1
RemovePidFiles == pidFile' = None /\ portFile' = None

\* start_inner returns an error: the process ends, or its watcher tries again and pays for it.
StartFailed(p) ==
    IF ferrex[p].restarting
    THEN /\ ferrex' = [ferrex EXCEPT ![p] = Idle("restart", TRUE)]
         /\ spent' = [spent EXCEPT ![p] = @ + 1]
    ELSE /\ ferrex' = [ferrex EXCEPT ![p] = Idle("off", FALSE)]
         /\ UNCHANGED spent

\* A restart that spawned is paid for, one that found a qdrant to reuse is free.
Spend(p) ==
    IF ferrex[p].restarting /\ ferrex[p].child THEN [spent EXCEPT ![p] = @ + 1] ELSE spent

-----------------------------------------------------------------------------
(* start_inner: resolve_existing, spawn, health_check *)

Start(p) ==
    /\ ferrex[p].pc = "new"
    /\ Goto(p, "lock")
    /\ UNCHANGED <<config, lock, files, qdrant, spent, lost, faults>>

AcquireLock(p) ==
    /\ \/ ferrex[p].pc = "lock" /\ Acquire(p, "resolve")
       \/ ferrex[p].pc = "relock" /\ Acquire(p, "recheck")
    /\ UNCHANGED <<config, files, qdrant, spent, lost, faults>>

\* Only a holder that stalls outlasts LOCK_WAIT: the lock is held for a few file operations.
LockTimesOut(p) ==
    /\ ferrex[p].pc \in {"lock", "relock"} /\ lock # None /\ Fault
    /\ StartFailed(p)
    /\ UNCHANGED <<config, lock, files, qdrant, lost>>

\* Nothing recorded, or a dead pid: spawn under the lock.  A qdrant by its name: reuse it.
\* Another name: ask the port, without the lock.
Resolve(p) ==
    /\ ferrex[p].pc = "resolve"
    /\ \/ /\ pidFile = None
          /\ Goto(p, "spawn")
          /\ UNCHANGED <<lock, files>>
       \/ /\ pidFile # None /\ ~PidAlive(pidFile)
          /\ RemovePidFiles
          /\ Goto(p, "spawn")
          /\ UNCHANGED lock
       \/ /\ pidFile # None /\ PidAlive(pidFile)
          /\ ferrex' = [ferrex EXCEPT ![p].pc = IF IsQdrant(pidFile) THEN "reuse" ELSE "probe",
                                      ![p].q = pidFile, ![p].at = RecordedPort(p)]
          /\ Release(p)
          /\ UNCHANGED files
    /\ UNCHANGED <<config, qdrant, spent, lost, faults>>

\* A fresh pid file gets a whole health check, an older one a single question.
Probe(p) ==
    /\ ferrex[p].pc = "probe"
    /\ \/ Answers(ferrex[p].at) /\ Goto(p, "reuse")
       \/ ~Answers(ferrex[p].at) /\ qdrant[ferrex[p].q].state # "starting" /\ Goto(p, "relock")
    /\ UNCHANGED <<config, lock, files, qdrant, spent, lost, faults>>

\* Mutant: the pid file is replaced without a second look at the pid in it.
StillRecordedUnchecked(p) == TRUE

StillRecorded(p) == pidFile = ferrex[p].q

Recheck(p) ==
    /\ ferrex[p].pc = "recheck"
    /\ IF StillRecorded(p) THEN RemovePidFiles /\ Goto(p, "spawn")
       ELSE UNCHANGED files /\ Goto(p, "resolve")
    /\ UNCHANGED <<config, lock, qdrant, spent, lost, faults>>

\* check_recorded_port refuses a qdrant of another port.
PortRefused(p) == ferrex[p].at # port[p]

\* A pid is free when no process has it and nothing here still refers to it.
FreePids ==
    {q \in Qdrant : \/ qdrant[q].state = "none"
                    \/ /\ qdrant[q].state = "dead" /\ q \notin {pidFile, portFile}
                       /\ \A p \in Ferrex : ferrex[p].q # q}

Spawn(p) ==
    /\ ferrex[p].pc = "spawn" /\ FreePids # {}
    /\ LET q == Min(FreePids) IN
        /\ qdrant' = [qdrant EXCEPT ![q] = [state |-> "starting", port |-> port[p]]]
        /\ ferrex' = [ferrex EXCEPT ![p].pc = "record", ![p].q = q, ![p].child = TRUE,
                                    ![p].at = None]
        /\ lost' = lost \ {q}
    /\ UNCHANGED <<config, lock, files, spent, faults>>

\* The port is too low, the config cannot be written or the binary does not start.
SpawnFails(p) ==
    /\ ferrex[p].pc = "spawn" /\ Fault
    /\ StartFailed(p) /\ Release(p)
    /\ UNCHANGED <<config, files, qdrant, lost>>

\* Mutant: the lock is let go before the pid is written.
RecordUnlocked(p) ==
    /\ ferrex[p].pc = "record"
    /\ IF lock = p THEN Release(p) /\ UNCHANGED <<files, ferrex>>
       ELSE /\ pidFile' = ferrex[p].q /\ portFile' = ferrex[p].q
            /\ Goto(p, "health")
            /\ UNCHANGED lock
    /\ UNCHANGED <<config, qdrant, spent, lost, faults>>

Record(p) ==
    /\ ferrex[p].pc = "record"
    /\ pidFile' = ferrex[p].q /\ portFile' = ferrex[p].q
    /\ Release(p)
    /\ Goto(p, "health")
    /\ UNCHANGED <<config, qdrant, spent, lost, faults>>

\* write_pid_files fails on either file: the lock is dropped, then the child reaped.
RecordFails(p) ==
    /\ ferrex[p].pc = "record" /\ Fault
    /\ pidFile' \in {None, ferrex[p].q}
    /\ Release(p)
    /\ Goto(p, "kill")
    /\ UNCHANGED <<config, portFile, qdrant, spent, lost>>

\* Healthy as soon as any qdrant answers on the port, unless the child has exited.
HealthOk(p) ==
    /\ \/ ferrex[p].pc = "reuse" /\ ~PortRefused(p)
       \/ ferrex[p].pc = "health" /\ PidAlive(ferrex[p].q)
    /\ Answers(port[p])
    /\ ferrex' = [ferrex EXCEPT ![p].pc = "run", ![p].restarting = FALSE]
    /\ spent' = Spend(p)
    /\ UNCHANGED <<config, lock, files, qdrant, lost, faults>>

\* The child exited, or did not answer in time.
HealthFails(p) ==
    /\ ferrex[p].pc = "health"
    /\ \/ ~PidAlive(ferrex[p].q)
       \/ qdrant[ferrex[p].q].state # "starting" /\ ~Answers(port[p])
    /\ Goto(p, "kill")
    /\ UNCHANGED <<config, lock, files, qdrant, spent, lost, faults>>

ReuseFails(p) ==
    /\ ferrex[p].pc = "reuse"
    /\ \/ PortRefused(p)
       \/ qdrant[ferrex[p].q].state # "starting" /\ ~Answers(port[p])
    /\ StartFailed(p)
    /\ UNCHANGED <<config, lock, files, qdrant, lost, faults>>

-----------------------------------------------------------------------------
(* reap: kill the child, then remove_pid_files_if_ours *)

Kill(p) ==
    /\ ferrex[p].pc = "kill"
    /\ qdrant' = [qdrant EXCEPT ![ferrex[p].q].state = "dead"]
    /\ Goto(p, "unrecord")
    /\ UNCHANGED <<config, lock, files, spent, lost, faults>>

\* Mutant: the pid files are removed, whosever they are.
OursAny(p) == TRUE

Ours(p) == pidFile = ferrex[p].q

\* With the lock, which is let go at once; while another holds it the files stay.
Unrecord(p) ==
    /\ ferrex[p].pc = "unrecord"
    /\ IF lock = None /\ Ours(p) THEN RemovePidFiles ELSE UNCHANGED files
    /\ StartFailed(p)
    /\ UNCHANGED <<config, lock, qdrant, lost, faults>>

-----------------------------------------------------------------------------
(* A started process: its watcher, its end *)

\* Mutant: a watcher polls its own child too, and never reaps it.
GoneUnreaped(p) == ~ferrex[p].child /\ ~PidAlive(ferrex[p].q)

\* wait_for_exit: waits on a child, polls the pid of a reused qdrant.
Gone(p) == ~PidAlive(ferrex[p].q)

WatcherNotices(p) ==
    /\ p \in Keeper /\ ferrex[p].pc = "run" /\ Gone(p)
    /\ ferrex' = [ferrex EXCEPT ![p] = Idle("restart", TRUE)]
    /\ UNCHANGED <<config, lock, files, qdrant, spent, lost, faults>>

\* Mutant: the budget is compared with one too many.
AvailableOneMore(p) == spent[p] <= RestartLimit

Available(p) == spent[p] < RestartLimit

\* Another attempt, if the budget allows.
Restart(p) ==
    /\ ferrex[p].pc = "restart" /\ Available(p)
    /\ Goto(p, "lock")
    /\ UNCHANGED <<config, lock, files, qdrant, spent, lost, faults>>

\* A restart falls out of the window.
BudgetFrees(p) ==
    /\ ferrex[p].pc = "restart" /\ spent[p] > 0
    /\ spent' = [spent EXCEPT ![p] = @ - 1]
    /\ UNCHANGED <<config, lock, files, qdrant, ferrex, lost, faults>>

\* shutdown or drop: a KillOnDrop handle reaps its child, any other leaves qdrant alone.
End(p) ==
    /\ ferrex[p].pc \in {"run", "restart"}
    /\ IF p \in Owner /\ ferrex[p].child THEN Goto(p, "kill")
       ELSE ferrex' = [ferrex EXCEPT ![p] = Idle("off", FALSE)]
    /\ UNCHANGED <<config, lock, files, qdrant, spent, lost, faults>>

\* The process is killed wherever it is; its qdrant lives on.
Crash(p) ==
    /\ ferrex[p].pc \notin {"new", "off"} /\ Fault
    /\ IF ferrex[p].pc = "record" THEN pidFile' \in {None, ferrex[p].q} ELSE UNCHANGED pidFile
    /\ lost' = IF \/ ferrex[p].pc = "record"
                  \/ ferrex[p].pc = "kill" /\ portFile # ferrex[p].q
               THEN lost \cup {ferrex[p].q} ELSE lost
    /\ ferrex' = [ferrex EXCEPT ![p] = Idle("off", FALSE)]
    /\ Release(p)
    /\ UNCHANGED <<config, portFile, qdrant, spent>>

-----------------------------------------------------------------------------
(* Qdrant itself, and the pids of dead ones (external) *)

\* The storage belongs to one qdrant: a second one exits.
QdrantStarts(q) ==
    /\ qdrant[q].state = "starting"
    /\ qdrant' = [qdrant EXCEPT ![q].state = IF \E n \in Port : Answers(n) THEN "dead" ELSE "up"]
    /\ UNCHANGED <<config, lock, files, ferrex, spent, lost, faults>>

\* It dies or hangs; the pid of a reaped one that no watcher polls goes to another program.
QdrantFails(q) ==
    /\ Fault
    /\ \E s \in {"dead", "hung", "foreign"} :
        /\ CASE s = "dead" -> qdrant[q].state \in {"starting", "up", "hung"}
             [] s = "hung" -> qdrant[q].state = "starting"
             [] s = "foreign" -> /\ qdrant[q].state = "dead"
                                 /\ \A p \in Ferrex : ferrex[p].q # q
        /\ qdrant' = [qdrant EXCEPT ![q].state = s]
    /\ UNCHANGED <<config, lock, files, ferrex, spent, lost>>

Init ==
    /\ port \in [Ferrex -> Port] /\ named \in BOOLEAN
    /\ lock = None /\ pidFile = None /\ portFile = None
    /\ qdrant = [q \in Qdrant |-> [state |-> "none", port |-> None]]
    /\ ferrex = [p \in Ferrex |-> Idle("new", FALSE)]
    /\ spent = [p \in Keeper |-> 0]
    /\ lost = {}
    /\ faults = 0

FerrexStep(p) ==
    \/ Resolve(p) \/ Probe(p) \/ Recheck(p) \/ Spawn(p) \/ Record(p)
    \/ HealthOk(p) \/ HealthFails(p) \/ ReuseFails(p) \/ Kill(p) \/ Unrecord(p)
    \/ WatcherNotices(p) \/ Restart(p)

Next ==
    \/ \E p \in Ferrex :
        \/ FerrexStep(p) \/ Start(p) \/ AcquireLock(p) \/ End(p)
        \/ LockTimesOut(p) \/ SpawnFails(p) \/ RecordFails(p) \/ Crash(p)
    \/ \E p \in Keeper : BudgetFrees(p)
    \/ \E q \in Qdrant : QdrantStarts(q) \/ QdrantFails(q)

SidecarSpec == Init /\ [][Next]_vars

\* Threads run, the lock is polled far more often than it is held, qdrant starts within the
\* health check, and time passes.
SidecarFairSpec ==
    /\ SidecarSpec
    /\ \A p \in Ferrex : WF_vars(FerrexStep(p)) /\ SF_vars(AcquireLock(p))
    /\ \A p \in Keeper : WF_vars(BudgetFrees(p))
    /\ \A q \in Qdrant : WF_vars(QdrantStarts(q))

-----------------------------------------------------------------------------
(* Properties *)

\* A qdrant that starts or serves is the one in the pid file, unless its own spawner is about to
\* write or to kill it, or was itself killed while writing: no process takes it for stale, and
\* none removes the pid file of another's qdrant (resolve_existing, remove_pid_files_if_ours).
LiveRecorded ==
    \A q \in Qdrant : qdrant[q].state \in {"starting", "up"} =>
        \/ q = pidFile
        \/ q \in lost
        \/ \E p \in Ferrex : ferrex[p].q = q /\ ferrex[p].child /\ ferrex[p].pc \in {"record", "kill"}

\* A second qdrant is never started beside one that serves on record: at most one qdrant is
\* starting or up, counting neither the lost nor those about to be killed (qdrant.lock).
OneQdrant ==
    Cardinality({q \in Qdrant \ lost :
        /\ qdrant[q].state \in {"starting", "up"}
        /\ \A p \in Ferrex : ferrex[p].q = q /\ ferrex[p].child => ferrex[p].pc # "kill"}) <= 1

Stuck(q) ==
    /\ qdrant[q].state = "hung"
    /\ \/ named /\ pidFile = q
       \/ \E p \in Ferrex : ferrex[p].pc = "run" /\ ferrex[p].q = q

\* While a process with a watcher runs, qdrant always comes back (Watcher::run), unless a qdrant
\* that hangs is taken for the live one.
QdrantComesBack ==
    []<>(\/ \E n \in Port : Answers(n)
         \/ \A p \in Keeper : ferrex[p].pc \in {"new", "off"}
         \/ \E q \in Qdrant : Stuck(q))

-----------------------------------------------------------------------------
(* The inductive invariant *)

Live(q) == qdrant[q].state \in {"starting", "up"}
Parent(p, q) == ferrex[p].child /\ ferrex[p].q = q

\* Its pid alone is on record: its spawner was killed on the way, or is about to kill it.
Unfiled(q) ==
    q \in lost \/ \E p \in Ferrex : Parent(p, q) /\ ferrex[p].pc = "kill" /\ portFile # q

\* What a process knows, wherever it is: the lock and the empty pid file while it spawns, its
\* qdrant, the restart it may still pay for, and that the qdrant it takes for stale is.
ProcessInv(p) ==
    LET at == ferrex[p].pc
        q == ferrex[p].q
    IN
    /\ lock = p <=> at \in {"resolve", "recheck", "spawn", "record"}
    /\ at \in {"spawn", "record"} => pidFile = None
    /\ at \in {"probe", "relock", "recheck", "record", "kill", "unrecord", "health", "reuse", "run"}
         => q # None
    /\ ferrex[p].child => at \in {"record", "health", "kill", "unrecord", "run"}
    /\ at \in {"record", "health", "kill", "unrecord"} => ferrex[p].child
    /\ at = "unrecord" => qdrant[q].state = "dead"
    /\ ferrex[p].restarting => p \in Keeper /\ (at # "restart" => spent[p] < RestartLimit)
    /\ at = "run" => ~ferrex[p].restarting
    /\ at = "probe" => ferrex[p].at = qdrant[q].port \/ (Live(q) => Unfiled(q))
    /\ at \in {"relock", "recheck"} => (Live(q) => Unfiled(q))

PidsInv ==
    /\ portFile \in {None, pidFile}
    /\ pidFile # None /\ portFile = None /\ Live(pidFile) => Unfiled(pidFile)
    /\ \A q \in Qdrant : qdrant[q].state = "none" =>
        q # pidFile /\ \A p \in Ferrex : ferrex[p].q # q
    /\ \A q \in Qdrant : \A p, r \in Ferrex : Parent(p, q) /\ Parent(r, q) => p = r

\* Inductive: why the lock, the second look at the pid file and the order of its two files are
\* enough (resolve_existing, spawn, remove_pid_files_if_ours).
SidecarInv ==
    /\ SidecarTypeOK /\ LiveRecorded /\ PidsInv
    /\ \A p \in Ferrex : ProcessInv(p)
=============================================================================

# TLA+ specification of ferrex

ferrex is a memory server for coding agents. A client talks MCP over stdin and
stdout to a *proxy*; the proxy forwards to one *daemon* per configuration, over a
Unix socket; the daemon's *memory service* keeps every memory twice, as a vector
in Qdrant (a sidecar process) and as a row in SQLite, with no transaction that
spans both. This directory models the parts of that program whose correctness
depends on the order of steps: modules for TLC, the configurations that check
them on small instances, and proofs that TLAPS checks.

All paths below are relative to `src/crates/`.

## 1. Inventory

| Component | Code | State it keeps | Operations | What makes it hard | Model |
|---|---|---|---|---|---|
| Dual write, journal, recovery | `core/src/service/{store,forget}.rs`, `core/src/service.rs`, `core/src/pipeline/*`, `store/src/{journal,metadata,vector}.rs` | Qdrant points, `memories` rows, `pending_ops`, `completed_ops` | store, store with `supersedes`, forget, start-up recovery | two stores, a crash, error or dropped request at any await, concurrent requests, commands that recover beside a server | `MemoryStore`; abstract: `MemoryLife` |
| Recall and result cache | `core/src/service/recall.rs`, `core/src/cache.rs` | per-process LRU of results, a generation per namespace | recall, `put_results`, `bump_generation` | entries computed while a write lands | `RecallCache` |
| Proxy | `server/src/proxy.rs`, `server/src/proxy/*` | in-flight ids, the cached handshake, a queue, the state of the link | forward, pump, loss, reconnect round, replay, re-send, drain | three tasks, a daemon that dies at any time, requests that must not run twice | `ProxySession` |
| Daemon | `server/src/daemon.rs`, `server/src/daemon/{session,idle,handshake}.rs` | sessions, the idle timer, init state | accept, hello, idle exit, signals, failed init | an idle exit against a client that just connects | `IdleTimer`, `Daemon`; abstract: `IdleExit` |
| Spawning and locking | `server/src/daemon/{spawn,addr}.rs`, `server/src/admin_guard.rs` | lock file, pid file, socket path | connect or spawn, stale socket removal, admin guard | processes that race over files | `Daemon` |
| Qdrant sidecar | `store/src/sidecar.rs` | pid, port and lock files, the restart budget | adopt, spawn, watch, restart | shared by every daemon; at most 3 restarts in 10 minutes | `Sidecar` |
| Entity resolution | `core/src/entity.rs` | entity rows, aliases, entity points | resolve, create, alias | check-then-insert against a UNIQUE constraint, a list that goes stale | `EntityResolution` |
| Audit | `core/src/service/admin.rs`, `server/src/audit.rs` | none | list orphans, `--fix` | deletes a difference of two reads | `Audit` |
| Facts: predicates, conflicts, backfill, contradictions | `core/src/{predicate,reflect}.rs`, `core/src/pipeline/{validate,normalize_predicate,conflict}.rs`, `core/src/service/{admin,reflect_op}.rs` | `normalized_predicate` of each row, the groups a process has loaded | normalise, check, commit, backfill, reflect | check-then-commit, groups that change at a restart, rows of an older build | `Facts`, `Reflect` |
| Staleness, ranking | `core/src/{staleness,retrieval}.rs` | none | floating-point scores of one memory | no steps to interleave | no |
| Read-only operations, counters | `core/src/service/{stats,timeline,taxonomy}.rs`, `core/src/{ops_buffer,access_tracker}.rs` | bounded counters | reads | nothing depends on them | no |
| MCP shell, CLI, configuration, embedding | `server/src/{server,params,main,cli}.rs`, `core/src/config.rs`, `embed/` | none | conversions | no behaviour over time | no |

How they interact. The proxy reaches a daemon through the spawning code (an
attempt of a *round*), sends a hello, then lines. The daemon gives each session a
view of one shared `MemoryService`. A store or forget of that service goes
through the journal to Qdrant and SQLite and then bumps the generation of its
namespace, which is all that ties the write path to the recall cache. Processes
share nothing but files: the database, Qdrant's storage and the run directory.

Nothing keeps two processes from one database. Clients of one configuration share a
daemon, and the admin guard (`refuse_if_live`) makes nuke, `audit reconcile --fix` and a
backfill that is no dry run refuse while a daemon is alive; but `diagnose`
(`commands.rs:14`), `journal show` (`commands.rs:106`), `audit reconcile` without
`--fix`, a dry-run backfill, stand-alone servers (`standalone.rs:15`) and the daemon of
another configuration with the same database all start a memory service, and so run
`recover_on_startup`, whatever else runs.

`PROJECT.json` lists the hazards of each part at the line where they bite, and
the properties below that would catch them.

## 2. The modules

### MemoryStore

One request is one call of `MemoryService::store` or `::forget`; every await of
the handler that touches shared state is an action, and another request, process
or crash may come between any two of them. A stored memory has a fresh UUID, so
the request that stores it also names it.

| State | In the code |
|---|---|
| `pc`, `job`, `cur`, `todo`, `superseded`, `deleted`, `halted` | locals of a handler, its `WriteContext`, and where it stopped |
| `vectors` | points of the namespaces' collections |
| `rows`, `invalid` | `memories`, and those with `t_invalid` |
| `pending`, `written`, `completed` | `pending_ops`, its `qdrant_written` flag, `completed_ops` |
| `proc` | a process that is down, recovering (with the ops it has read) or serving |
| `gen` | the cache generation of each process and namespace |
| `contested` | history: memories about whose op a recovery decided while it was not what the journal says |

| Action | Code |
|---|---|
| `Start`, `Abandon` | a call arrives; a call returns an error or is dropped at an await |
| `DedupCheck`, `ConflictCheck` | `pipeline/dedup.rs`, `pipeline/conflict.rs` |
| `SupersedeLookup` | the target check of a store with `supersedes` |
| `InsertPendingOp`, `UpsertVector`, `MarkQdrantWritten`, `CommitMemoryWrite` | `pipeline/write.rs`; the last is one SQLite transaction |
| `GetMemory`, `DeleteVector`, `DeleteRow`, `CompleteForget`, `ForgetDone` | `service/forget.rs`, one id after the other |
| `BumpGeneration` | `store.rs:69`, the end of an iteration of forget |
| `StartProcess`, `Recover*` | `recover_on_startup`, `service.rs:185`, of a server or a command |
| `Crash` | the process dies at any step |

Embedding similarity and Jaro-Winkler are a constant, `Closeness`, with the three
outcomes the thresholds tell apart. `Legacy` is a set of memories that an older
build left both in `pending_ops` and in `completed_ops` (a branch of recovery is
there for them).

Any number of processes serve, recover and die over the one database, those in
`Commands` without ever serving. Recovery reads the journal once and then decides op by
op; if the op's handler still runs at that moment, or ran on since the journal was read
(`Stale`), the memory is *contested*: recovery may take its vector, its row or its journal
row from under the handler. Properties about one memory except the contested ones, and
nothing else: how much an overlapping recovery can spoil is so part of what they say.

`MemoryStoreInv` holds the inductive invariant `IInv` (`SharedInv` is the part of it
that contested memories keep too) and `MemoryStoreProofs` the proofs. The other
modules that are proved about end with their inductive invariant, and the proofs are
in a module named after each: `AuditProofs`, `RecallCacheProofs`,
`ProxySessionProofs`, `DaemonProofs` (which also proves that `Daemon` implements
`IdleExit`), `SidecarProofs`, `EntityResolutionProofs` and `FactsProofs` (which also
covers `Reflect`). Section 4 says what is in them.

### MemoryLife

What all of that amounts to for one memory: it is `unborn`, `current`, `superseded`
or `forgotten`, and only `Store` (at one moment, in place of at most one other
memory) and `Forget` (of a memory somebody asked to forget) change that; a store is
answered according to what it did and only a forgotten memory is reported as
deleted. There is no journal, no second store, no process, no crash and no recovery
in it. A memory can be lost in one way only, when it is in `contested` (`Contest`,
`Lose`, or a `Store` that is lost as it is born). `MemoryStore` maps to it
(`LifeOf`: a memory is there while both stores have it, which is when a recall finds
it; `ToldOf`: the answer to its store), and `MemoryLifePromise` is the refinement.
What it comes to for a client follows from these few actions alone: `ToldIsSo` (what
a client was told of a memory is so) and `OnlyForward` (no memory comes back).

### RecallCache

Extends `MemoryStore` with recalls: `ReadGeneration`, the two steps of
`get_results` (it reads the generation before it takes the lock of the results),
the search, the fetch from SQLite, and `put_results` under the generation read
first. The query is fixed, so a cache key is a namespace. `due`, `erased` and `gone`
are history variables: what had been acknowledged as stored, as deleted, and as deleted
or replaced by the recall's own process when the recall began. `ReplacedAcross` are the
memories that a store of another namespace replaced, `Elsewhere` those that another
process changed, which has a cache of its own.

### ProxySession

One proxy. `tracker` is `track.rs`; `main`, `queue`, `pending` and `lossState`
are the main loop's locals (`proxy.rs`, `reconnect.rs`); `pump` is the task that
moves daemon lines to stdout; `conn` is the daemon's end of the socket, which
may close at any step; `asked` is what the client waits for. A client starts
with the initialize handshake or with a call that needs none (`lifecycle`).

| Action | Code |
|---|---|
| `Forward`, `FlushQueue`, `ForwardLost` | `Proxy::forward`, and the flush when a connection is made |
| `AwaitRequest`, `QueueLine` | lines that arrive while disconnected, or during a round |
| `PumpRead`, `PumpTake`, `PumpSend`, `PumpNotify`, `PumpEof` | `pump_daemon`; each lock, send and notify is a step |
| `OnLoss` | `on_loss` and `on_daemon_loss`: stop the pump, forward the line it holds, answer or keep what is in flight |
| `Connect`, `ConnectFails`, `ReplayAnswered`, `ReplayFails` | an attempt of `run_round`, `after_connect`, `replay` |
| `Eof`, `DrainListen`, `DrainCheck`, `DrainAwait`, `DrainWake`, `DrainLost`, `DrainGivesUp` | stdin closes; `Proxy::drain` |
| `DaemonClose` | external: the daemon dies or closes |

A client line is read from stdin in the step that sends it: a line that waits in
the channel has no effect and might as well have been sent later. A line in the
stdout queue is taken as delivered, since that queue is a FIFO that the exit
also goes through. `NoIdAssumption` keeps the mark of a line without an id out of
the ids.

### Audit

Extends the inductive invariant's module with `ferrex audit reconcile --fix`: a
process of its own, one of the `Commands`, that recovers, reads Qdrant, then SQLite, and
deletes the difference unless it exceeds `audit_fix_limit`. `refuse_if_live` looks once:
`Seen` are the processes it finds, and any other may serve or start beside the audit. A
store that is listed between its upsert and its commit looks like an orphan and is
contested.

### IdleTimer, IdleExit, Daemon

`IdleTimer` is `idle.rs` as functions on a record: the two counts, the deadline
and the deadline a connection in its hello has suspended. An `Instant` is the
number of ticks until it, so the clock needs no bound.

`Daemon` is everything around one key's socket. A daemon goes through `Probe`,
`Bind`, `WritePidFile`, the accept loop (`Accept`, `InitResult`, `Event`,
`IdleDeadline`, `GraceDeadline`, `Signal`), `begin_shutdown` (`ShutdownLocks`,
`ShutdownLockBusy`, and for an idle exit `Recheck`, which adopts what it finds in
the backlog and applies the queued events) and `finish` (`DropListener`,
`RemoveFiles`, `AbortSessions`, `Exit`). A session passes or fails its hello and
ends, and reports each to the daemon's queue (`PhaseGuard`). A proxy's attempt is
`FirstConnect`, `AcquireLock`, `ConnectUnderLock` (which removes a stale socket),
`SpawnDaemon`, and `WaitConnects`, `WaitChildExited` or `WaitBudgetEnds`. A socket
or pid file is named by the daemon that made it, which stands for its inode and
for the pid in it. `Crash` and `KillProxy` are SIGKILL: the kernel drops locks and
closes connections, and files stay.

`IdleExit` is the promise behind it, written without suspended deadlines or
queues: one countdown that starts when init has succeeded and nothing is open,
survives a connection that fails its hello, starts afresh after a served one, and
an idle exit only when it has run out with nothing open. `Daemon` maps its timer
to it (`left` is the deadline or else the suspended one) and the run checks
`IdleExitPromise`, the refinement. The loops of the recheck over the queued events
and over the backlog are a recursive function (`ApplyAll`) and a closed form
(`Adopt`), which proofs can use; `MCDaemon` has TLC compare `Adopt` with the loop
(`AdoptAccepts`).

### Sidecar

All ferrex processes of a directory, `Keeper`s that leave Qdrant running and watch
it and `Owner`s that stop what they started, over `qdrant.lock`, `qdrant.pid` and
`qdrant.port`. Actions follow `start_inner`, `resolve_existing` (`Resolve`,
`Probe` without the lock, `Recheck` with it again), `spawn` (`Spawn`, `Record`,
health check, and the kill and unrecord of a failure) and `Watcher::run`
(`WatcherNotices`, `Restart`, the budget). A Qdrant may fail to start, die, hang,
or leave its pid to another program; `named` says whether the process carries the
name that `is_qdrant` looks for.

### EntityResolution

Requests that resolve a sequence of names, one action per await: the list is read
once (`Begin`), then per name `MatchExact`, `MatchFuzzy`, `MatchEmbedding`,
`AddAlias`, `CreateEntity`, `UpsertEntityPoint`. `Fuzzy` and `Near` are the pairs of
names above the two thresholds. `Fail` is a failed call or a crash, `Retry` a
client that stores again. `born` and `began` are history variables.

### Facts, Reflect

`Facts` has the predicate normaliser as an operator, `Normalize` over the `Members` of
each group (groups in string order, first entry wins, best score strictly above the
threshold), and a store as two steps,
`Check` (validate, normalise, conflict check) and `Commit`: the journal and Qdrant
between them are `MemoryStore`'s. `Restart` loads another configuration, `Legacy`
rows have no `normalized_predicate`, and the backfill command is a process of its
own that reads its rows once and updates them one by one beside the serving one.
`Reflect` adds the three passes of `detect_contradictions` with the set of
matched memories they share. `GroupedApart` are the pairs that its first pass never
compares although their effective predicates agree: a row without a normal form, grouped
by its predicate in lower case, and one filed under that predicate as the name of a group
with a capital in it. Strings are a small set with their text form, lower
case and Jaro-Winkler scores as constants.

## 3. What the runs check

| Run | Checks | Bounds | Result |
|---|---|---|---|
| `restart` | `IInv` (`TypeOK` included), `StoresAgree`, `AuditMends`, `RecoveryClearsJournal`, `MemoryLifePromise` | a legacy memory and one request; 2 processes, of which one serves and one recovers or audits, both restarted at will; limits 0 and 1; fair recovery | hold |
| `recall` | `EntriesExplained`, `RecallSeesAcknowledged`, `StaleOnlyAcross`, `StoresAgree`, `CommittedStoreDurable`, `ForgottenStaysGone`, `InvalidationHasReplacement`, `MemoryLifePromise` | 2 stores, supersedes or forgets of facts, 2 recalls, 2 namespaces, one server restarted at will | hold |
| `proxy` | `EveryAnswerAwaited`, `WritesAwaited`, `ResentOnlyBeforeReady`, `ResendBounded`, `NeverExitsOnceReady`, `HandshakeFirst`, `KeyAnnounced`, `SessionInv` (`ProxyTypeOK` included), `RequestAnswered`, `DrainEnds` | 3 client lines, 2 ids used again, 2 keys, 2 attempts, fair | hold |
| `daemon` | `OneListener`, `PidFileNamesServer`, `IdleExitSparesClients`, `IdleExitPromise`, `LockFreed`, `DaemonsGo`, `DaemonInv` (`DaemonTypeOK` and `CountsMatch` included) | 2 proxies, 2 daemons, 2 connections at a time, 1 retry, 1 signal or crash, 1 killed proxy, fair | hold |
| `sidecar` | `LiveRecorded`, `OneQdrant`, `QdrantComesBack`, `SidecarInv` (`SidecarTypeOK` included) | 2 keepers and an owner, 2 ports, 4 pids, 1 fault, budget 1, fair | hold |
| `entities` | `PointsHaveRows`, `SimilarOnlyConcurrent`, `RetriesSucceed` | 2 requests of up to 2 of 3 names, 2 namespaces, 1 fault, fair | hold |
| `facts` | `FactTwiceOnlyConcurrent`, `ContradictionsReported`, `BackfillCompletes` | 3 memories, 2 namespaces, 2 configurations, 8 inputs, 4 databases to start from | hold |
| `recall_namespaces` | `RecallOmitsGone` | 2 writes of one fact in 2 namespaces, 1 recall, one process | violated |
| `recovery_overlap` | `RecoverySeesOnlyUnwritten` | 1 store in a server, a second process that recovers | violated |
| `backfill_nulls` | `BackfillPopulates` | 1 row of an older build under a group's own name | violated |
| `proxy_initialized` | `InitializedOnce` | 3 client lines | violated |
| `proxy_drain` | `DrainDelivers` | 1 client line | violated |

The safety properties in words; those about one memory except the contested ones.
*StoresAgree*: Qdrant and SQLite disagree about a memory only while the journal has
a row for it, or after a handler stopped in the one window the journal does not
cover (between the Qdrant call and its flag). *CommittedStoreDurable*: a committed
store stays in both until somebody asks to forget it. *ForgottenStaysGone*: an id
reported as deleted never comes back. *InvalidationHasReplacement*: a fact is
invalidated only in favour of a memory that is there. *MemoryLifePromise*: every
step of the service is one of `MemoryLife` or changes nothing it speaks of, so no
crash, recovery or failed call changes what a recall would find, and a write
replaces at most one memory, at its birth. *RecoverySeesOnlyUnwritten*: recovery
never compensates a store that has committed, as `write.rs:90` has it;
`recovery_overlap` refutes it. *EntriesExplained*: a current cache entry names an
unavailable memory only if the request that changed it has not reached
`bump_generation`, replaced it from another namespace, or ran in another process.
*RecallSeesAcknowledged* and *StaleOnlyAcross*: a recall never answers from before a
write that was acknowledged when it began, except that it may return a memory
replaced from another namespace; a deleted one it never returns (*RecallOmitsGone*
has no exception, and `recall_namespaces` refutes it). *EveryAnswerAwaited*: the
client gets no second answer and none to an id it used again.
*ResentOnlyBeforeReady* and *ResendBounded*: only the first request of a session
that has not begun is sent again, within the attempts of one round in total.
*WritesAwaited*: a call reaches a daemon only while its client waits for it.
*HandshakeFirst*: a daemon sees the handshake before anything else. *KeyAnnounced*:
a client whose session had begun hears of a daemon with another key.

*AuditMends*: after a fix no vector that it listed is without a row, and every
committed memory is still in both stores, whatever runs beside the audit.
*OneListener*: at most one daemon of a key listens, on the socket at the path.
*PidFileNamesServer*: a serving daemon is the one the pid file names, and the admin
guard refuses. *CountsMatch*: the timer's counts and the events in the queue add up
to the sessions. *IdleExitSparesClients*: an idle exit is never decided over a
connection that exists. *LockFreed*, *DaemonsGo*: the spawn lock is always given
back, and without proxies every daemon ends. *LiveRecorded*: a live Qdrant is the
one on record, unless its spawner is about to write or kill it or died while
writing. *OneQdrant*: no second one beside it. *QdrantComesBack*: while somebody
watches, Qdrant answers again and again. *PointsHaveRows*: no vector, alias or
result refers to an entity without a row. *SimilarOnlyConcurrent*: names a fuzzy
match joins become two entities only if their creators overlapped. *RetriesSucceed*:
losing the race for a name does not repeat for ever. *FactTwiceOnlyConcurrent*: two
valid rows for one subject and predicate come of overlapping stores, an explicit
supersede or a backfill. *ContradictionsReported*: the pairs reflect passes over
hide no memory. *BackfillCompletes*: a row without a normal form after a complete
backfill has a predicate that is its normal form; *BackfillPopulates*: there is
none, as `README.md:265` has it; `backfill_nulls` refutes it.

Why the bounds are enough. In the write path a conflict is between a store and a
second write that picks it (supersede, conflict, forget): two requests, with a crash
and a recovery at each of their awaits. A third could remove what the second picked;
that is left to the proofs, which put no bound on the number. Symmetry over `Req` is
sound because ids carry no order. In `restart` the legacy memory is the store and
the other request any write; the second process recovers or audits at any await of
it. A recall meets a write before, during and after its search; two recalls let the
second meet an entry the first one left; the second namespace lets a write replace a
memory within its namespace and across. In the proxy, three lines make a handshake
(two) and a request, or a request in flight at the loss, one that arrives during the
round and one after it; two ids force an id to be used again; two attempts instead
of `MAX_ATTEMPTS` = 3 already distinguish the first, a repeated and the last. Around
the daemon, the races are between a daemon that leaves, its successor, and two
proxies of which one spawns; a second retry or fault repeats them. The sidecar needs
two watchers that restart at once, an owner that stops what they use, and pids for a
Qdrant of each and one that is reused. Two requests over names of which one pair is
alike and one pair near reach every stage of entity resolution against a concurrent
one. Three facts are the fewest in which a pair that is passed over could hide one;
the two configurations move a predicate from one group to another and the second
namespace removes a group. Proxy, daemons, sidecar and entity resolution end when
the bounds are used up, so their runs allow deadlock; the others check for it.

### Fairness

`FairSpec` assumes weak fairness of each request and of recovery: tokio polls a
ready task, and every database or network call ends, with an error at worst. It
assumes nothing of clients, of starting a process or of crashes.
`ProxyFairSpec` assumes it of the main loop, of a round (connecting, the hello and
a replayed handshake have time limits) and of the pump with a daemon that answers
or closes. It does not assume that the drain's time limit fires: `DrainEnds`
shows that the drain does not need it.

`DaemonFairSpec` assumes weak fairness of each daemon, session and proxy task and
of the clock: a hello, an attempt and the wait for the lock have time limits.
Signals, crashes and a client's leaving are owed nothing. `SidecarFairSpec` assumes
it of each process, of the budget's window (time passes) and of a Qdrant that is
starting, and strong fairness of taking the lock: the lock is polled every 50 ms
and held for less than a health check; a wait that times out is a bounded fault.
`EntityFairSpec` assumes it of each request, its client's retry included.

### Disagreements with what the repository says

Shown by a run:

- **A fact replaced from another namespace.** The conflict check selects by subject
  and predicate in every namespace (`store/src/metadata.rs:928`), so a store may
  invalidate a fact of another one, and then bumps the generation of its own only
  (`store.rs:69`): a recall there still answers from the cache with the superseded
  memory. `README.md:114` calls a namespace an "Isolation boundary" and
  `docs/design/design-decisions.md:142` says "SQLite queries filter on namespace".
- **Overlapping recovery.** Recovery compensates every flagged op in the journal,
  whoever owns it (`service.rs:188`), and nothing keeps a second process from running it
  beside a server (section 1). The handler may commit between recovery's look and its
  compensation, against the comment at `write.rs:90`: "One transaction: recovery then
  only ever sees a write that never reached SQLite." `recovery_overlap` has the 11 steps.
  The acknowledged memory is then gone; `restart` and the proofs say that it may vanish
  but never comes back, and that no other memory suffers.
- **Backfill.** `README.md:265` says the command is there to "populate missing normalized
  predicates"; a row whose predicate already is its normal form stays NULL
  (`admin.rs:82`), and the conflict check, which compares `normalized_predicate`
  (`metadata.rs:928`), never sees it.
- **`initialized` twice.** `replay_started` stays set when a replay attempt fails
  and the round goes on. A `notifications/initialized` that arrives then is both
  cached, and so replayed, and queued, and so flushed (`reconnect.rs:188`).
- **Drain.** The pump clears a request before it queues its response
  (`proxy.rs:424`). A drain that checks in between finds nothing in flight and
  queues the exit first: the client never gets that response.

In the models as the code has them, with no run of their own:

- **Duplicates of nothing.** The duplicate check asks Qdrant alone
  (`pipeline/dedup.rs:32`). A vector left by a store that stopped before its flag
  rejects later stores in the name of a memory that does not exist, until an
  audit; `design-decisions.md:192` says "similar memory already exists".
- **A write that lands and stops.** A forget that stops at `complete_op`, or a
  store that is dropped after its commit, never bumps the generation: a current
  cache entry keeps a deleted memory, against the comment at `cache.rs:134`.
  `EntriesExplained` therefore names the request that stopped.
- **Group names in upper case.** Reflect groups a row without a normal form by its
  lower-cased predicate and compares the others as they are, and `config.rs:193` takes
  group names as they come, so such a row and one filed under a group's name with a
  capital, which is its predicate, are never paired (`reflect.rs:33-39`).
  `ContradictionsReported` excepts exactly these pairs (`GroupedApart`).
- **Aliases in reflect.** A fact whose only rival under another name of its subject
  is already matched is not in the report: `ContradictionsReported` promises one of
  the two.
- **Entity lookup.** `docs/design/ferrex-rag-memory.md:374` and
  `docs/design/design-decisions.md:33` say "All lookups check aliases first", `README.md:181`
  has "Exact match against the aliases table"; the code takes the canonical name first and
  an alias second (`MatchExact`). No property depends on the order.
- **A proxy killed while it waits for its daemon.** `SpawnGuard` does not run, the
  lock is free and the child has not bound: another proxy that looked before the
  bind unlinks the child's socket (`spawn.rs:190`) and starts a second daemon.
  `OneListener` and `PidFileNamesServer` except these behaviours (`faults.orphan`);
  the other properties of the run hold in them too.
- **Admin guard.** It passes while a leaving daemon, its pid file removed, is still
  closing its service, it looks only once, and it does not see stand-alone servers. An
  audit that fixes may then delete the vector of a store that is about to commit, which
  `AuditMends` and `MemoryLifePromise` except as contested.
- **A row without its vector.** An entity whose row is inserted and whose vector is not
  (`entity.rs:108`) is matched by name ever after and never gets the vector: embedding
  matches miss it. `PointsHaveRows` is about the other order.
- **nuke** removes `qdrant.lock` (`commands.rs:336`), although `sidecar.rs:488` relies
  on the file never being removed.
- **A Qdrant that hangs** under its own name and on record is reused for ever:
  `QdrantComesBack` excepts it.
- **Other processes' caches.** A store bumps the generation of its own process and
  namespace only (`store.rs:69`): `EntriesExplained` names what another process changed.

## 4. What is proved

Every safety property of the passing runs is a theorem, for every value of the
constants that the modules' assumptions allow: any number of requests, namespaces,
processes, rows, ids, lines, faults and ticks. So are the two refinements, of `MemoryLife`
and of `IdleExit`. Each component has one inductive invariant from which the rest
follows; the table names it, and the theorem `...InvariantHolds` (`InvariantHolds` in
`MemoryStoreProofs`) of each module proves it. TLC checks `IInv`, `SessionInv`,
`DaemonInv` and `SidecarInv` as invariants of the runs too.

| Proof module | Invariant | Theorems: property |
|---|---|---|
| `MemoryStoreProofs` | `IInv` | `StoresAgreeAlways`: `StoresAgree`; `CommittedStoresDurable`: `CommittedStoreDurable`; `ForgottenIsGone`: `ForgottenStaysGone`; `InvalidationsReplaced`: `InvalidationHasReplacement`; `MemoryLifeKept`: `MemoryLifePromise`; `AnswersAreTrue`: `ToldIsSo`; `LivesMoveForward`: `OnlyForward`; `InvalidationsCommitted`: `InvalidatedByCommitted`; `TypeCorrect` |
| `AuditProofs` | `AuditInv` (with `IInv`) | `AuditAlwaysMends`: `AuditMends`; `AuditKeepsMemories`: `MemoryLifePromise`, of the service with audits |
| `RecallCacheProofs` | `RecallInv` with `IInv` | `CacheEntriesExplained`: `EntriesExplained`; `AcknowledgedStoresRecalled`: `RecallSeesAcknowledged`; `OnlyReplacedAcrossStale`: `StaleOnlyAcross` |
| `ProxySessionProofs` | `SessionInv` | `AnswersAwaited`: `EveryAnswerAwaited`; `CallsAwaited`: `WritesAwaited`; `ResendsOnlyTheFirst`: `ResentOnlyBeforeReady`; `ResendsBounded`: `ResendBounded`; `ReadySessionsSurvive`: `NeverExitsOnceReady`; `HandshakesComeFirst`: `HandshakeFirst`; `KeysAnnounced`: `KeyAnnounced` |
| `DaemonProofs` | `DaemonInv` | `OneDaemonListens`: `OneListener`; `ServerIsNamed`: `PidFileNamesServer`; `CountsAlwaysMatch`: `CountsMatch`; `ClientsAreSpared`: `IdleExitSparesClients`; `PromiseKept`: `IdleExitPromise` |
| `SidecarProofs` | `SidecarInv` | `LiveAlwaysRecorded`: `LiveRecorded`; `AtMostOneQdrant`: `OneQdrant`; `SidecarTypeCorrect` |
| `EntityResolutionProofs` | `EntityInv` | `RowsComeFirst`: `PointsHaveRows`; `SimilarNamesOverlapped`: `SimilarOnlyConcurrent` |
| `FactsProofs` | `FactsInv` | `FactsTwiceOnlyConcurrent`: `FactTwiceOnlyConcurrent`; `BackfillsComplete`: `BackfillCompletes`; `ContradictionsAreReported`: `ContradictionsReported` |

The theorems have no hypotheses but the assumptions of the modules on their constants. In
particular none asks for one process over a database at a time, which the code does not
give: what a recovery beside a running handler, or an audit, may spoil is in the statements
(`contested`), and everything else is claimed of every memory.

### The arguments

In each module there is one lemma per action and under it one step per conjunct
that the action can disturb. What the invariants add to the properties:

**Write path** (`IInv`). `CommittedStoreDurable` alone does not say why recovery
cannot undo a committed store. `KindMatchesPC`, `OnDisk` and `ForgetOrder` tie what is
on disk to how far each handler got: a row has a committed store, a vector a store that
got as far as its upsert, and a forget past its erase has left neither. They hold of
contested memories too, with `InvalidatedByCommitted` (`SharedInv`), because recovery only
removes and no store upserts after its commit. `JournalMatchesPC` says the same of the
journal: an op is flagged exactly between its Qdrant call and its commit or erase, a
commit takes it out, and a running handler's op is there unless a recovery took it.
`LegacyUntouched` sets aside the ops of an older build: until recovery has cleared them
nothing else has run, and every recovery that has begun read them. `RecoveryKnows` is the
heart of it: recovery works on a list that is as old as its process, while handlers,
and other recoveries, go on. Of an op on that list that is not contested, it says that
its handler stopped where the flag says, or that it is done with and its memory is safe
from what recovery will do. An op whose handler runs on after the list was read was
unflagged in the list and is flagged in the journal, or is gone from it: that is what
`Stale` compares, so the contested memories are those of which this is false, and no
more. `VectorKept`: nothing takes the vector of an uncontested store before its
commit. `VectorFirst`, `LossIsRequested` and `RowsExplained` are the properties in the form
that is preserved: they speak of the commit rather than of the row, which a forget may
take.

**The refinement of MemoryLife.** With `IInv` and `OneReplaced` (a write has picked at most
one memory to replace: two valid rows on a fact make a conflict, and a supersede names
one target). A check that fails maps to `Answer`, `CommitMemoryWrite` to `Store`,
`DeleteVector` to `Forget`, or to a stutter if an earlier forget or a lost row had it
forgotten already, `BumpGeneration` to `Answer` of a store and `Report` of a forget, the
start of a forget to `AskToForget`. Everything else is a stutter, and that is where the
invariant is needed: an upsert before the commit adds a vector without a row (`OnDisk`),
the row that a forget erases has lost its vector (`ForgetOrder`), and recovery deletes
vectors that have no row and rows that have no vector (`RecoveryKnows`). A contested memory
takes the other way out: a recovery that takes its vector does so in a step of `Lose`, a
commit whose vector is gone is a `Store` of a memory that is lost as it is born, and the
step in which a recovery takes up an op is `Contest` or a stutter.
`AnswersAreTrue` and `LivesMoveForward` are then proved of the
actions of `MemoryLife` and carried over by the refinement, with no look at the store.

**Audit** (`AuditInv`). Handlers, recoveries and crashes go on between the audit's two reads
and its deletion, so `AuditKnows` says what of them stays true: an id read in both stores
has a committed store, which no step takes back, and an orphan that is not contested has
no row and no handler left that could give it one. `IInv` survives the deletion of such a
vector because no handler and no recovery relies on it (`OrphansGoSafely`), and the listing
of a running store's vector because contesting a memory only weakens what is claimed of
it (`ContestingIsSafe`). The deletion is a stutter of `MemoryLife`, or a `Lose` where it
takes what was contested.

**Recall** (`RecallInv`). `Fresh` is the heart of it: what was computed after a
generation was read is right for as long as the generation lasts, but for memories
whose request still owes the bump. It holds of cache entries (`EntryInv`) and of what a
recall is about to put (`ReaderInv`). A recall that has begun takes no entry older than
the generation it read (`Floor`), so entries, and the answers another recall may yet
put, that are not older contain all it is due (`TakesEntry`, `TakesFrom`): put by a
recall that began earlier, they are where a proof that looked at one recall at a time
would fail. `ReplacedAreGone` ties what a store picked to the commit that invalidates
it. A commit bumps the generation of its own namespace, so what it replaced in another
one stays in that one's entries: these are the memories `ReplacedAcross`. Another process
bumps nothing here, so what it changes is not claimed to leave the entries (`Elsewhere`),
and what a recall is due, or must omit, is what its own process acknowledged; a recovery
of any process takes nothing of that unless it is contested (`RecoveryFollows`).

**Proxy** (`SessionInv`). What is in flight the client waits for, under the id it gave
(`TrackerInv`), and the tracker knows of a session's beginning before the client does
(`LifecycleInv`). What the daemon owes is in flight, once (`OwedInv`); the line in the
pump's hands is not owed any more, and is still awaited (`PumpInv`): so an answer that
the loss forwards and an error that it makes up never meet. Queued lines are in the
client's order, newer than what the connection got, unwritten and in flight
(`QueueInv`), which is why emptying the queue when what is in flight is answered, and
only then, is enough. `RoundInv` says what the round runs for, `WritesInv` that the
kept request was written at most once more than the attempts it is charged with,
wherever that number is at the moment (`Used`: the round, or `pending`). The two action
properties follow from one lemma about what a step may write (`Written`).

**Daemon** (`DaemonInv`). The lock is held by a proxy between its second look and its
child's first answer, or by a daemon from its second look to the removal of its files
(`LockInv`). A daemon that has yet to bind is the child of the proxy with the lock;
one that listens has path and pid file to itself, and no other proxy is about to
unlink it (`SocketInv`): this part, and the two properties from it, except behaviours in
which a proxy was killed in between. The deadline runs only while all is quiet, no
prefix of the event queue ends a session before it passes its hello
(`EndsFollowHellos`), and what an idle exit saw stays true until it holds the lock
(`TimerInv`). The refinement maps a step of each daemon: `Accept` to an arrival,
`InitResult` to readiness, `Event` to a passed or failed hello or an end,
`ShutdownLockBusy` of an idle exit to a postponed one, the decisions to an idle or
another departure, a recheck that adopts to arrivals, death and the clock to
themselves, and everything else to a stutter.

**Sidecar** (`SidecarInv`). The lock is held exactly at `resolve`, `recheck`, `spawn` and
`record`, and the pid file is empty while a process spawns, so nothing is overwritten.
The port file names what the pid file names or nothing, and a live Qdrant whose
port is not on record has lost its spawner or is about to be killed by it
(`Unfiled`): the process that takes it for stale is right. A Qdrant has one parent. A
restart under way is within the budget.

**Entities** (`EntityInv`). A request's list contains every entity there was when it
began or that it met, and what each stage found out is still true at the next:
a name without an entity had none at the start, one about to be created is near
nothing on the list.

**Facts** (`FactsInv`). The facts a store saw are still stored and have a normal form,
and those that it would duplicate it replaces; a row the backfill has still to visit
is as it read it or deleted, and one it passed over is its own normal form. That
`Normalize` returns a member of `Str` (`NormalizeType`) needs that a set of naturals has
a smallest member (`MinIsMember`), from the library's well-foundedness of the naturals.

**Reflect** (`ReportComplete`). The set of matched memories after the
first `k` pairs that the loops visit, `found[k]` of `FindPairs`, is a recursive function, so
what the loops compute needs an induction over `k`: it is done by the least
counterexample (`MinIsLeast`). `PairsVisitAll`, by division, says that every two rows are
visited, and `FindPairsIs` that a pair is then matched or was passed over because both of
its memories already were. A pass only ever adds to the set, so `ReportComplete`
follows for the three passes in order. Rows whose effective predicates agree fall into
one group of the first pass (`OneGroup`) unless one of them has a normal form, the other
has none and the predicate has a capital in it: the pass groups rows that have none by
their predicate in lower case (`GroupedApart`).

### What is only model-checked

- Liveness: `RecoveryClearsJournal`, `RequestAnswered`, `DrainEnds`, `LockFreed`,
  `DaemonsGo`, `QdrantComesBack` and `RetriesSucceed` depend on fairness, which is
  outside what the proof system handles.
- The runs that find a violation. (`RecoverySeesOnlyUnwritten` holds of what is not
  contested, by `RecoveryKnows`, and is only refuted as the comment states it.)

## 5. Abstractions and limits

- A Qdrant call that fails has had its effect or not; one that takes effect after
  the client has given up on it is not modelled.
- `RecallCache` leaves out ranking, limits, optional filters, `validate_ids` and
  the embedding cache, which is a pure function of the query. An entry may be
  evicted at any time (`Evict`).
- `ProxySession` leaves out parsing, the wording of errors and the sizes behind
  the stdout budget: the pump may wait for stdout for any time. It also leaves out the exit
  of a proxy whose client has closed its stdout (`proxy.rs:519`). How an attempt
  reaches a daemon is one step that succeeds, fails for good or can be retried;
  `Daemon` has its steps.
- `gen` is unbounded in the proofs and bounded by the number of requests in runs.
- `Daemon` has one key: a daemon of another key shares neither socket nor lock. What
  a hello says is accepted or refused.
- `Sidecar` takes the time a Qdrant needs to come up, hang or die to be within the
  health check, which is also how long a pid file counts as fresh.
- `EntityResolution` takes names as normalised; entities are never deleted.
- `Facts` takes a store's check and a reflect's reads as one step each: what they
  read besides rows does not change in a process. The scan cap of reflect is not reached.

Not modelled: staleness scores and ranking (floating-point functions of one
memory); stats, timeline, taxonomy and the access counters, which nothing else
reads back; the MCP shell, parameter conversion, the command line and the embedding
runtime; creation of collections; nuke; what `diagnose` and `journal show` print (that they
recover is modelled).

## 6. Plan

1. Shorter proofs: `ProxySessionProofs` and `DaemonProofs` restate the fields of records
   that every step copies; lemmas about record updates would carry more of that.
2. `MemoryLife` could carry what a recall answers, so that `RecallCache` implements it too.
3. The steps of connecting inside a proxy's round, composed from `Daemon` and
   `ProxySession`, instead of one step.

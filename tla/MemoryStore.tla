---------------------------- MODULE MemoryStore ----------------------------
(***************************************************************************)
(* The write path of ferrex's memory service: store, store-with-supersedes *)
(* and forget as concurrent requests over two stores that share no         *)
(* transaction (Qdrant vectors, SQLite rows), the pending_ops journal that *)
(* brackets every dual write, and the recovery every process runs before   *)
(* it serves.                                                              *)
(*                                                                         *)
(* A request is one call of MemoryService::store or ::forget.  Between two *)
(* awaits of a handler any other request, process or crash may run, so     *)
(* every await that touches shared state is an action.  The id of a stored *)
(* memory is a fresh UUID, so the request that stores a memory also names  *)
(* it: memory ids are elements of Req.                                     *)
(***************************************************************************)
EXTENDS Naturals, FiniteSets

CONSTANTS
    Req,        \* requests, and the ids of the memories they store
    Proc,       \* ferrex processes over one database: daemons, stand-alone servers, commands
    Commands,   \* those that recover and then serve nobody (diagnose, journal show, audit)
    NS,         \* namespaces; one Qdrant collection each
    Fact,       \* (subject, normalized predicate) pairs
    Text,       \* contents of episodic memories, objects of semantic ones
    Closeness,  \* how near two texts are, as the thresholds classify them
    Inputs,     \* what a client may ask for: a set of Job records without proc
    Legacy      \* memories an older build left both completed and pending

(***************************************************************************)
(* Closeness abstracts cosine similarity (episodic, procedural) and        *)
(* Jaro-Winkler (semantic objects): "duplicate" is at or above the         *)
(* duplicate threshold, "different" below the update threshold.            *)
(***************************************************************************)
MemoryType == {"episodic", "procedural", "semantic"}
Kind == {"store", "supersede", "forget"}
Input == [kind : Kind, ns : NS, type : MemoryType, fact : Fact, text : Text,
          ids : SUBSET Req]
Job == [kind : Kind, ns : NS, type : MemoryType, fact : Fact, text : Text,
        ids : SUBSET Req, proc : Proc]

ASSUME ClosenessAssumption ==
    Closeness \in [Text \X Text -> {"duplicate", "ambiguous", "different"}]

\* A supersede names one target; a plain store names none.
ASSUME InputsAssumption ==
    /\ Inputs \subseteq Input
    /\ \A i \in Inputs : i.kind = "supersede" => \E t \in Req : i.ids = {t}

ASSUME LegacyAssumption == Legacy \subseteq Req

VARIABLES
    pc,         \* the await a request is at
    job,        \* what a request was asked to do, and where it runs
    cur,        \* the memory a request is working on
    todo,       \* ids a forget has still to visit
    superseded, \* ids a store will invalidate (ctx.superseded_ids and target)
    deleted,    \* ids a forget has deleted so far
    halted,     \* requests that returned an error or were dropped, at their pc
    vectors,    \* memories with a point in their namespace's collection
    rows,       \* memories with a row in SQLite
    invalid,    \* rows whose t_invalid is set
    pending,    \* pending_ops
    written,    \* pending_ops whose qdrant_written flag is set
    completed,  \* completed_ops
    proc,       \* each process: where it is, and its recovery's local state
    gen,        \* each process's cache generation per namespace
    contested   \* history: memories whose op a recovery took from under another process

reqVars == <<pc, job, cur, todo, superseded, deleted, halted>>
diskVars == <<vectors, rows, invalid>>
journalVars == <<pending, written, completed>>
vars == <<reqVars, diskVars, journalVars, proc, gen, contested>>

\* An op_id is fresh per journal entry: a request journals each memory once.
Op == Req \X Req
NoOp == <<>>

StorePC == {"check", "lookup", "journal", "upsert", "mark", "commit", "bump"}
ForgetPC == {"get", "journal", "remove", "mark", "erase", "complete", "bump"}
SettledPC == {"idle", "ok", "rejected"}
PC == StorePC \cup ForgetPC \cup SettledPC
ProcPC == {"down", "next", "vector", "row", "clear", "up"}
ProcState == [pc : ProcPC, todo : SUBSET Op, seen : SUBSET Op, cur : Op \cup {NoOp}]

NoJob == [kind |-> "none"]
JobOf(i, p) ==
    [kind |-> i.kind, ns |-> i.ns, type |-> i.type, fact |-> i.fact, text |-> i.text,
     ids |-> i.ids, proc |-> p]
Down == [pc |-> "down", todo |-> {}, seen |-> {}, cur |-> NoOp]

OpOf(r) == <<r, cur[r]>>
Running(r) == pc[r] \notin SettledPC /\ r \notin halted
IsForget(r) == job[r].kind = "forget"
IsWrite(r) == job[r].kind \in {"store", "supersede"}
\* Where a handler goes after a step store and forget share.
Either(r, write, forget) == IF IsForget(r) THEN forget ELSE write

TypeOK ==
    /\ pc \in [Req -> PC]
    /\ job \in [Req -> Job \cup {NoJob}]
    /\ \A r \in Req : pc[r] # "idle" => job[r] \in Job
    /\ cur \in [Req -> Req]
    /\ todo \in [Req -> SUBSET Req]
    /\ superseded \in [Req -> SUBSET Req]
    /\ deleted \in [Req -> SUBSET Req]
    /\ halted \subseteq Req
    /\ vectors \subseteq Req
    /\ rows \subseteq Req
    /\ invalid \subseteq rows
    /\ pending \subseteq Op
    /\ written \subseteq pending
    /\ completed \subseteq Op
    /\ proc \in [Proc -> ProcState]
    /\ gen \in [Proc -> [NS -> Nat]]
    /\ contested \subseteq Req

(***************************************************************************)
(* A database from an older build may hold memories whose op is recorded   *)
(* as completed and still pending: that build cleared the journal in a     *)
(* second step.                                                            *)
(***************************************************************************)
Init ==
    /\ pc = [r \in Req |-> IF r \in Legacy THEN "ok" ELSE "idle"]
    /\ \E stored \in [Legacy -> {i \in Inputs : i.kind = "store"}], p \in Proc :
         job = [r \in Req |-> IF r \in Legacy THEN JobOf(stored[r], p) ELSE NoJob]
    /\ cur = [r \in Req |-> r]
    /\ todo = [r \in Req |-> {}]
    /\ superseded = [r \in Req |-> {}]
    /\ deleted = [r \in Req |-> {}]
    /\ halted = {}
    /\ vectors = Legacy
    /\ rows = Legacy
    /\ invalid = {}
    /\ pending = {<<r, r>> : r \in Legacy}
    /\ written = pending
    /\ completed = pending
    /\ proc = [p \in Proc |-> Down]
    /\ gen = [p \in Proc |-> [n \in NS |-> 0]]
    /\ contested = {}

Goto(r, next) == pc' = [pc EXCEPT ![r] = next]

-----------------------------------------------------------------------------
(* Requests arrive *)

(***************************************************************************)
(* detect_memory_type, ensure_collection, validate, normalize_predicate    *)
(* and embed read nothing another request writes; Inputs holds requests    *)
(* that pass validation.  A supersede skips dedup and conflict detection.  *)
(***************************************************************************)
Start(r, p, i) ==
    /\ pc[r] = "idle"
    /\ proc[p].pc = "up" /\ p \notin Commands
    /\ job' = [job EXCEPT ![r] = JobOf(i, p)]
    /\ Goto(r, CASE i.kind = "store" -> "check"
                 [] i.kind = "supersede" -> "lookup"
                 [] i.kind = "forget" -> "get")
    /\ todo' = [todo EXCEPT ![r] = i.ids]
    /\ UNCHANGED <<cur, superseded, deleted, halted, diskVars,
                   journalVars, proc, gen, contested>>

(***************************************************************************)
(* A handler returns early at any await: the call failed, it took effect   *)
(* but its answer was lost, or the session's future was dropped.  Nothing  *)
(* compensates; the journal row, if any, stays.                            *)
(***************************************************************************)
Abandon(r) ==
    /\ Running(r)
    /\ halted' = halted \cup {r}
    /\ UNCHANGED <<pc, job, cur, todo, superseded, deleted, diskVars,
                   journalVars, proc, gen, contested>>

-----------------------------------------------------------------------------
(* store: the checks *)

\* search_dense in the namespace's collection, filtered by memory type.
Similar(r) ==
    {m \in vectors : /\ job[m].ns = job[r].ns
                     /\ job[m].type = job[r].type
                     /\ Closeness[<<job[m].text, job[r].text>>] = "duplicate"}

\* The rejection names the similar memory.
DedupCheck(r) ==
    /\ Running(r) /\ pc[r] = "check" /\ job[r].type # "semantic"
    /\ \/ /\ Similar(r) = {}
          /\ Goto(r, "journal")
          /\ UNCHANGED cur
       \/ \E m \in Similar(r) :
            /\ Goto(r, "rejected")
            /\ cur' = [cur EXCEPT ![r] = m]
    /\ UNCHANGED <<job, todo, superseded, deleted, halted, diskVars,
                   journalVars, proc, gen, contested>>

\* get_memories_by_subject_predicate: no namespace in its WHERE clause.
SameFact(r) ==
    {m \in rows \ invalid : job[m].type = "semantic" /\ job[m].fact = job[r].fact}

\* Classification::{NoConflict, Update}: the ids the write will invalidate.
Resolvable(r) ==
    \A m, n \in SameFact(r) :
        m = n /\ Closeness[<<job[m].text, job[r].text>>] = "different"

ConflictCheck(r) ==
    /\ Running(r) /\ pc[r] = "check" /\ job[r].type = "semantic"
    /\ \/ /\ Resolvable(r)
          /\ Goto(r, "journal")
          /\ superseded' = [superseded EXCEPT ![r] = SameFact(r)]
       \/ /\ ~Resolvable(r)
          /\ Goto(r, "rejected")
          /\ UNCHANGED superseded
    /\ UNCHANGED <<job, cur, todo, deleted, halted, diskVars,
                   journalVars, proc, gen, contested>>

\* supersede_write: the target exists, is in the namespace and is still valid.
Supersedable(r) == {t \in (job[r].ids \cap rows) \ invalid : job[t].ns = job[r].ns}

\* Mutant: the target is invalidated before the replacement is written.
SupersedeLookupEager(r) ==
    /\ Running(r) /\ pc[r] = "lookup" /\ Supersedable(r) # {}
    /\ Goto(r, "journal")
    /\ superseded' = [superseded EXCEPT ![r] = Supersedable(r)]
    /\ invalid' = invalid \cup Supersedable(r)
    /\ UNCHANGED <<job, cur, todo, deleted, halted, vectors, rows,
                   journalVars, proc, gen, contested>>

SupersedeLookup(r) ==
    /\ Running(r) /\ pc[r] = "lookup"
    /\ \/ /\ Supersedable(r) # {}
          /\ Goto(r, "journal")
          /\ superseded' = [superseded EXCEPT ![r] = Supersedable(r)]
       \/ /\ Supersedable(r) = {}
          /\ Goto(r, "rejected")
          /\ UNCHANGED superseded
    /\ UNCHANGED <<job, cur, todo, deleted, halted, diskVars,
                   journalVars, proc, gen, contested>>

-----------------------------------------------------------------------------
(* forget: one id after the other *)

GetMemory(r) ==
    /\ Running(r) /\ pc[r] = "get"
    /\ \E m \in todo[r] :
         \/ /\ m \in rows
            /\ cur' = [cur EXCEPT ![r] = m]
            /\ Goto(r, "journal")
            /\ UNCHANGED todo
         \/ /\ m \notin rows
            /\ todo' = [todo EXCEPT ![r] = @ \ {m}]
            /\ UNCHANGED <<pc, cur>>
    /\ UNCHANGED <<job, superseded, deleted, halted, diskVars,
                   journalVars, proc, gen, contested>>

ForgetDone(r) ==
    /\ Running(r) /\ pc[r] = "get" /\ todo[r] = {}
    /\ Goto(r, "ok")
    /\ UNCHANGED <<job, cur, todo, superseded, deleted, halted, diskVars,
                   journalVars, proc, gen, contested>>

-----------------------------------------------------------------------------
(* The journalled dual write *)

\* Mutant: a forget starts deleting without a journal row.
InsertPendingOpWritesOnly(r) ==
    /\ Running(r) /\ pc[r] = "journal"
    /\ pending' = IF IsForget(r) THEN pending ELSE pending \cup {OpOf(r)}
    /\ Goto(r, Either(r, "upsert", "remove"))
    /\ UNCHANGED <<job, cur, todo, superseded, deleted, halted, diskVars, written,
                   completed, proc, gen, contested>>

InsertPendingOp(r) ==
    /\ Running(r) /\ pc[r] = "journal"
    /\ pending' = pending \cup {OpOf(r)}
    /\ Goto(r, Either(r, "upsert", "remove"))
    /\ UNCHANGED <<job, cur, todo, superseded, deleted, halted, diskVars, written,
                   completed, proc, gen, contested>>

UpsertVector(r) ==
    /\ Running(r) /\ pc[r] = "upsert"
    /\ vectors' = vectors \cup {r}
    /\ Goto(r, "mark")
    /\ UNCHANGED <<job, cur, todo, superseded, deleted, halted, rows, invalid,
                   journalVars, proc, gen, contested>>

\* Mutant: the delete goes to the collection of the default namespace.
DeleteVectorAtDefault(r) ==
    /\ Running(r) /\ pc[r] = "remove"
    /\ vectors' = {m \in vectors : m # cur[r] \/ job[m].ns # job[r].ns}
    /\ Goto(r, "mark")
    /\ UNCHANGED <<job, cur, todo, superseded, deleted, halted, rows, invalid,
                   journalVars, proc, gen, contested>>

DeleteVector(r) ==
    /\ Running(r) /\ pc[r] = "remove"
    /\ vectors' = vectors \ {cur[r]}
    /\ Goto(r, "mark")
    /\ UNCHANGED <<job, cur, todo, superseded, deleted, halted, rows, invalid,
                   journalVars, proc, gen, contested>>

\* An UPDATE: without the journal row it changes nothing and succeeds.
MarkQdrantWritten(r) ==
    /\ Running(r) /\ pc[r] = "mark"
    /\ written' = written \cup ({OpOf(r)} \cap pending)
    /\ Goto(r, Either(r, "commit", "erase"))
    /\ UNCHANGED <<job, cur, todo, superseded, deleted, halted, diskVars, pending,
                   completed, proc, gen, contested>>

CompleteOpIn(op) ==
    /\ completed' = completed \cup {op}
    /\ pending' = pending \ {op}
    /\ written' = written \ {op}

\* Mutant: the op is not completed in the transaction.
CommitMemoryWriteOpenOp(r) ==
    /\ Running(r) /\ pc[r] = "commit"
    /\ rows' = rows \cup {r}
    /\ invalid' = invalid \cup (superseded[r] \cap rows)
    /\ Goto(r, "bump")
    /\ UNCHANGED <<job, cur, todo, superseded, deleted, halted, vectors,
                   journalVars, proc, gen, contested>>

\* One SQLite transaction: row, invalidations, journal.
CommitMemoryWrite(r) ==
    /\ Running(r) /\ pc[r] = "commit"
    /\ rows' = rows \cup {r}
    /\ invalid' = invalid \cup (superseded[r] \cap rows)
    /\ CompleteOpIn(OpOf(r))
    /\ Goto(r, "bump")
    /\ UNCHANGED <<job, cur, todo, superseded, deleted, halted,
                   vectors, proc, gen, contested>>

DeleteRow(r) ==
    /\ Running(r) /\ pc[r] = "erase"
    /\ rows' = rows \ {cur[r]}
    /\ invalid' = invalid \ {cur[r]}
    /\ Goto(r, "complete")
    /\ UNCHANGED <<job, cur, todo, superseded, deleted, halted, vectors,
                   journalVars, proc, gen, contested>>

CompleteForget(r) ==
    /\ Running(r) /\ pc[r] = "complete"
    /\ CompleteOpIn(OpOf(r))
    /\ Goto(r, "bump")
    /\ UNCHANGED <<job, cur, todo, superseded, deleted, halted,
                   diskVars, proc, gen, contested>>

\* Mutant: a forget leaves the recall cache alone.
BumpGenerationForStores(r) ==
    /\ Running(r) /\ pc[r] = "bump"
    /\ gen' = IF IsForget(r) THEN gen
              ELSE [gen EXCEPT ![job[r].proc][job[cur[r]].ns] = @ + 1]
    /\ Goto(r, Either(r, "ok", "get"))
    /\ todo' = [todo EXCEPT ![r] = @ \ {cur[r]}]
    /\ deleted' = [deleted EXCEPT ![r] = IF IsForget(r) THEN @ \cup {cur[r]} ELSE @]
    /\ UNCHANGED <<job, cur, superseded, halted, diskVars, journalVars, proc, contested>>

\* The process's own recall cache moves on, for the namespace written to.
BumpGeneration(r) ==
    /\ Running(r) /\ pc[r] = "bump"
    /\ gen' = [gen EXCEPT ![job[r].proc][job[cur[r]].ns] = @ + 1]
    /\ Goto(r, Either(r, "ok", "get"))
    /\ todo' = [todo EXCEPT ![r] = @ \ {cur[r]}]
    /\ deleted' = [deleted EXCEPT ![r] = IF IsForget(r) THEN @ \cup {cur[r]} ELSE @]
    /\ UNCHANGED <<job, cur, superseded, halted, diskVars, journalVars, proc, contested>>

-----------------------------------------------------------------------------
(* Processes: start-up recovery, crash *)

\* list_pending_ops, flags included, is read once at the start.
StartProcess(p) ==
    /\ proc[p].pc = "down"
    /\ proc' = [proc EXCEPT ![p] =
                  [pc |-> "next", todo |-> pending, seen |-> written, cur |-> NoOp]]
    /\ UNCHANGED <<reqVars, diskVars, journalVars, gen, contested>>

\* Mutant: is_op_completed is not asked.
RecoveryStepUnasked(p, op) ==
    IF op \notin proc[p].seen THEN "clear" ELSE IF IsForget(op[1]) THEN "row" ELSE "vector"

\* What recovery does with an op it read as pending.
RecoveryStep(p, op) ==
    CASE op \in completed -> "clear"
      [] op \notin completed /\ op \notin proc[p].seen -> "clear"
      [] op \notin completed /\ op \in proc[p].seen ->
           IF IsForget(op[1]) THEN "row" ELSE "vector"

\* The op is not what it was in the journal: its handler runs, or ran on after it was read.
Stale(p, op) ==
    op \notin completed /\ (Running(op[1]) \/ (op \in proc[p].seen) # (op \in written))

\* is_op_completed is read op by op, the rest as it was at the start.
RecoverNext(p) ==
    /\ proc[p].pc = "next"
    /\ \E op \in proc[p].todo :
         /\ proc' = [proc EXCEPT ![p].pc = RecoveryStep(p, op), ![p].cur = op]
         /\ contested' = IF Stale(p, op) THEN contested \cup {op[2]} ELSE contested
    /\ UNCHANGED <<reqVars, diskVars, journalVars, gen>>

RecoverDeleteVector(p) ==
    /\ proc[p].pc = "vector"
    /\ vectors' = vectors \ {proc[p].cur[2]}
    /\ proc' = [proc EXCEPT ![p].pc = "row"]
    /\ UNCHANGED <<reqVars, rows, invalid, journalVars, gen, contested>>

RecoverDeleteRow(p) ==
    /\ proc[p].pc = "row"
    /\ rows' = rows \ {proc[p].cur[2]}
    /\ invalid' = invalid \ {proc[p].cur[2]}
    /\ proc' = [proc EXCEPT ![p].pc = "clear"]
    /\ UNCHANGED <<reqVars, vectors, journalVars, gen, contested>>

\* Mutant: a completed op is skipped and stays in the journal.
RecoverClearSkipsCompleted(p) ==
    /\ proc[p].pc = "clear"
    /\ pending' = pending \ ({proc[p].cur} \ completed)
    /\ written' = written \ ({proc[p].cur} \ completed)
    /\ proc' = [proc EXCEPT ![p].pc = "next", ![p].todo = @ \ {proc[p].cur},
                            ![p].cur = NoOp]
    /\ UNCHANGED <<reqVars, diskVars, completed, gen, contested>>

RecoverClear(p) ==
    /\ proc[p].pc = "clear"
    /\ pending' = pending \ {proc[p].cur}
    /\ written' = written \ {proc[p].cur}
    /\ proc' = [proc EXCEPT ![p].pc = "next", ![p].todo = @ \ {proc[p].cur},
                            ![p].cur = NoOp]
    /\ UNCHANGED <<reqVars, diskVars, completed, gen, contested>>

\* prune_completed_ops drops entries by age and by count, then the process serves.
RecoverDone(p) ==
    /\ proc[p].pc = "next" /\ proc[p].todo = {}
    /\ \E kept \in SUBSET completed : completed' = kept
    /\ proc' = [proc EXCEPT ![p].pc = "up"]
    /\ UNCHANGED <<reqVars, diskVars, pending, written, gen, contested>>

(***************************************************************************)
(* A crash, a kill, an exit that aborts the sessions, or a recovery step   *)
(* that fails (from_config returns the error and the process ends).        *)
(***************************************************************************)
Crash(p) ==
    /\ proc[p].pc # "down"
    /\ proc' = [proc EXCEPT ![p] = Down]
    /\ halted' = halted \cup {r \in Req : Running(r) /\ job[r].proc = p}
    /\ gen' = [gen EXCEPT ![p] = [n \in NS |-> 0]]
    /\ UNCHANGED <<pc, job, cur, todo, superseded,
                   deleted, diskVars, journalVars, contested>>

-----------------------------------------------------------------------------
RequestStep(r) ==
    \/ DedupCheck(r) \/ ConflictCheck(r) \/ SupersedeLookup(r)
    \/ GetMemory(r) \/ ForgetDone(r)
    \/ InsertPendingOp(r) \/ UpsertVector(r) \/ DeleteVector(r)
    \/ MarkQdrantWritten(r) \/ CommitMemoryWrite(r) \/ DeleteRow(r)
    \/ CompleteForget(r) \/ BumpGeneration(r)

Recover(p) ==
    \/ RecoverNext(p) \/ RecoverDeleteVector(p) \/ RecoverDeleteRow(p)
    \/ RecoverClear(p) \/ RecoverDone(p)

\* Everything but the end of a process.
Work ==
    \/ \E r \in Req, p \in Proc, i \in Inputs : Start(r, p, i)
    \/ \E r \in Req : RequestStep(r)
    \/ \E r \in Req : Abandon(r)
    \/ \E p \in Proc : StartProcess(p)
    \/ \E p \in Proc : Recover(p)

Next == Work \/ \E p \in Proc : Crash(p)

Spec == Init /\ [][Next]_vars

(***************************************************************************)
(* Tokio polls every ready task and every database or network call of a    *)
(* handler ends (with an error at worst), so a request at an await moves   *)
(* on; so does start-up recovery.  Nothing obliges a client to call, a     *)
(* process to start or to crash.                                           *)
(***************************************************************************)
Fairness ==
    /\ \A r \in Req : WF_vars(RequestStep(r))
    /\ \A p \in Proc : WF_vars(Recover(p))

FairSpec == Spec /\ Fairness
-----------------------------------------------------------------------------
(* Properties *)

\* A store whose transaction committed, acknowledged or not.
Committed(r) == pc[r] \in {"bump", "ok"} /\ IsWrite(r)
ForgetRequested(m) == \E f \in Req : pc[f] # "idle" /\ IsForget(f) /\ m \in job[f].ids

(***************************************************************************)
(* A process recovers beside others: nothing keeps `ferrex diagnose`,      *)
(* `journal show` or a second server from it (commands.rs:14, 106,         *)
(* standalone.rs:15).  What its recovery takes from under a handler is     *)
(* contested, and excepted below; of such a memory ForgottenStaysGone and  *)
(* MemoryLifePromise still say that it may vanish and never comes back.    *)
(***************************************************************************)

(***************************************************************************)
(* A vector without a row: its op is still in the journal, or its handler  *)
(* stopped between the upsert and the flag (write.rs:76-79), the one       *)
(* window after which recovery forgets the op without undoing it.          *)
(***************************************************************************)
OrphanVectorsExplained ==
    \A m \in (vectors \ rows) \ contested :
        <<m, m>> \in pending \/ (pc[m] = "mark" /\ m \in halted)

(***************************************************************************)
(* A row without a vector: a forget that took the vector is still in the   *)
(* journal, or stopped between the delete and the flag (forget.rs:46-51).  *)
(***************************************************************************)
OrphanRowsExplained ==
    \A m \in (rows \ vectors) \ contested :
        \E f \in Req : /\ IsForget(f) /\ cur[f] = m
                      /\ \/ <<f, m>> \in pending
                         \/ pc[f] = "mark" /\ f \in halted

(***************************************************************************)
(* The two stores disagree about a memory only while the journal says so   *)
(* or after a handler stopped in its unmarked window.                      *)
(***************************************************************************)
StoresAgree == OrphanVectorsExplained /\ OrphanRowsExplained

(***************************************************************************)
(* A committed store survives crashes, failed requests and recoveries, in  *)
(* both stores, until somebody asks to forget it (recover_on_startup must  *)
(* not compensate it, service.rs:185).                                     *)
(***************************************************************************)
CommittedStoreDurable ==
    \A m \in Req \ contested :
        Committed(m) /\ ~ForgetRequested(m) => m \in rows \cap vectors

(***************************************************************************)
(* An id a forget reported as deleted (forget.rs:60) is in neither store   *)
(* from then on: no recovery and no late write brings it back.             *)
(***************************************************************************)
ForgottenStaysGone ==
    \A f \in Req, m \in Req : m \in deleted[f] => m \notin rows \cup vectors

(***************************************************************************)
(* A fact is invalidated only in favour of a replacement that is in place, *)
(* unless somebody asked to forget that replacement: a supersede that is   *)
(* rolled back leaves its target valid (commit_memory_write).              *)
(***************************************************************************)
InvalidationHasReplacement ==
    \A m \in invalid :
        \E r \in Req : /\ m \in superseded[r]
                       /\ r \in rows \/ ForgetRequested(r) \/ r \in contested

(***************************************************************************)
(* write.rs:90: "One transaction: recovery then only ever sees a write     *)
(* that never reached SQLite."  While recovery compensates a store, no row *)
(* of that store exists.                                                   *)
(***************************************************************************)
RecoverySeesOnlyUnwritten ==
    \A p \in Proc :
        /\ proc[p].pc \in {"vector", "row"}
        /\ IsWrite(proc[p].cur[1])
        => proc[p].cur[2] \notin rows

(***************************************************************************)
(* The two stores and their journal implement MemoryLife, in which a       *)
(* memory is one thing with one state: what a recall would find of it, in  *)
(* Qdrant and then in SQLite (execute_write, execute_delete).              *)
(***************************************************************************)
LifeOf(m) ==
    IF m \in rows \cap vectors THEN IF m \in invalid THEN "superseded" ELSE "current"
    ELSE IF Committed(m) THEN "forgotten" ELSE "unborn"
ToldOf(m) ==
    IF pc[m] = "ok" /\ IsWrite(m) THEN "stored"
    ELSE IF pc[m] = "rejected" THEN "rejected" ELSE "none"
Lives == INSTANCE MemoryLife WITH
    Id <- Req,
    life <- [m \in Req |-> LifeOf(m)],
    asked <- {m \in Req : ForgetRequested(m)},
    told <- [m \in Req |-> ToldOf(m)],
    reported <- UNION {deleted[f] : f \in Req},
    contested <- contested
MemoryLifePromise == Lives!LifeSpec

(***************************************************************************)
(* A start-up recovery ends, unless the process dies first, and no op that *)
(* it read as flagged is then left in the journal (recover_on_startup      *)
(* clears each branch).                                                    *)
(***************************************************************************)
RecoveryClearsJournal ==
    \A p \in Proc :
        []<>(proc[p].pc = "down" \/ (proc[p].pc = "up" /\ proc[p].seen \cap pending = {}))
=============================================================================

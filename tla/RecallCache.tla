---------------------------- MODULE RecallCache ----------------------------
(***************************************************************************)
(* recall and its result cache, beside the write path of MemoryStore.      *)
(* Every process keeps its own cache; an entry is valid as long as the     *)
(* namespace's generation is the one read before the entry was computed.   *)
(*                                                                         *)
(* The query is fixed, so a cache key is a namespace; ranking, limits and  *)
(* optional filters are left out: a search returns every point of the      *)
(* collection and invalidated memories are dropped after the fetch.        *)
(***************************************************************************)
EXTENDS MemoryStore

CONSTANT Reader     \* concurrent recalls

\* There is a default namespace.
ASSUME NamespaceAssumption == NS # {}

VARIABLES
    rpc,        \* the await a recall is at
    asked,      \* the process and namespace of a recall
    read,       \* the generation a recall read first (recall.rs:70)
    current,    \* the generation get_results read
    pool,       \* ids the search returned
    answer,     \* memories the recall returns
    cache,      \* each process's result cache, per namespace
    due,        \* history: stores its process had acknowledged when the recall began
    erased,     \* history: memories its process had reported as deleted by then
    gone        \* history: memories whose end or replacement it had acknowledged by then

recallVars == <<rpc, asked, read, current, pool, answer, cache, due, erased, gone>>
allVars == <<vars, recallVars>>

NoEntry == [gen |-> 0, results |-> {}]
RecallPC == {"idle", "generation", "current", "peek", "search", "fetch", "put", "done"}

RecallTypeOK ==
    /\ TypeOK
    /\ rpc \in [Reader -> RecallPC]
    /\ asked \in [Reader -> [proc : Proc, ns : NS]]
    /\ read \in [Reader -> Nat] /\ current \in [Reader -> Nat]
    /\ pool \in [Reader -> SUBSET Req] /\ answer \in [Reader -> SUBSET Req]
    /\ cache \in [Proc -> [NS -> [gen : Nat, results : SUBSET Req]]]
    /\ due \in [Reader -> SUBSET Req]
    /\ erased \in [Reader -> SUBSET Req] /\ gone \in [Reader -> SUBSET Req]

\* An empty result is never cached, so an empty entry is an absent one.
RecallInit ==
    /\ Init
    /\ rpc = [q \in Reader |-> "idle"]
    /\ asked = [q \in Reader |-> CHOOSE a \in [proc : Proc, ns : NS] : TRUE]
    /\ read = [q \in Reader |-> 0] /\ current = [q \in Reader |-> 0]
    /\ pool = [q \in Reader |-> {}] /\ answer = [q \in Reader |-> {}]
    /\ cache = [p \in Proc |-> [n \in NS |-> NoEntry]]
    /\ due = [q \in Reader |-> {}]
    /\ erased = [q \in Reader |-> {}] /\ gone = [q \in Reader |-> {}]

RecallGoto(q, next) == rpc' = [rpc EXCEPT ![q] = next]
MyEntry(q) == cache[asked[q].proc][asked[q].ns]
MyGeneration(q) == gen[asked[q].proc][asked[q].ns]

\* Stores and invalidations that clients of a process have been told of.
Acknowledged(p, n) ==
    {m \in Req : pc[m] = "ok" /\ IsWrite(m) /\ job[m].proc = p /\ job[m].ns = n}
Deleted(p) == UNION {deleted[f] : f \in {r \in Req : pc[r] # "idle" /\ job[r].proc = p}}
Replaced(p) ==
    UNION {superseded[r] : r \in {s \in Req : pc[s] = "ok" /\ IsWrite(s) /\ job[s].proc = p}}
Retired(p) == Deleted(p) \cup Replaced(p)

-----------------------------------------------------------------------------
\* The embedding of the query does not depend on what is stored.
RecallStart(q, p, n) ==
    /\ rpc[q] = "idle" /\ proc[p].pc = "up" /\ p \notin Commands
    /\ asked' = [asked EXCEPT ![q] = [proc |-> p, ns |-> n]]
    /\ due' = [due EXCEPT ![q] = Acknowledged(p, n)]
    /\ erased' = [erased EXCEPT ![q] = Deleted(p)]
    /\ gone' = [gone EXCEPT ![q] = Retired(p)]
    /\ RecallGoto(q, "generation")
    /\ UNCHANGED <<vars, read, current, pool, answer, cache>>

ReadGeneration(q) ==
    /\ rpc[q] = "generation"
    /\ read' = [read EXCEPT ![q] = MyGeneration(q)]
    /\ RecallGoto(q, "current")
    /\ UNCHANGED <<vars, asked, current, pool, answer, cache, due, erased, gone>>

\* get_results reads the generation again, then takes the lock of the results.
ReadCurrent(q) ==
    /\ rpc[q] = "current"
    /\ current' = [current EXCEPT ![q] = MyGeneration(q)]
    /\ RecallGoto(q, "peek")
    /\ UNCHANGED <<vars, asked, read, pool, answer, cache, due, erased, gone>>

\* Mutant: an entry is returned whatever its generation.
PeekAny(q) ==
    /\ rpc[q] = "peek"
    /\ \/ /\ MyEntry(q) # NoEntry
          /\ answer' = [answer EXCEPT ![q] = MyEntry(q).results]
          /\ RecallGoto(q, "done")
       \/ /\ MyEntry(q) = NoEntry
          /\ RecallGoto(q, "search")
          /\ UNCHANGED answer
    /\ UNCHANGED <<vars, asked, read, current, pool, cache, due, erased, gone>>

Hit(q) == MyEntry(q) # NoEntry /\ MyEntry(q).gen = current[q]

Peek(q) ==
    /\ rpc[q] = "peek"
    /\ \/ /\ Hit(q)
          /\ answer' = [answer EXCEPT ![q] = MyEntry(q).results]
          /\ RecallGoto(q, "done")
       \/ /\ ~Hit(q)
          /\ RecallGoto(q, "search")
          /\ UNCHANGED answer
    /\ UNCHANGED <<vars, asked, read, current, pool, cache, due, erased, gone>>

\* The points of the namespace's collection.
Found(n) == {m \in vectors : job[m].ns = n}

\* An empty pool answers at once.
Search(q) ==
    /\ rpc[q] = "search"
    /\ pool' = [pool EXCEPT ![q] = Found(asked[q].ns)]
    /\ answer' = [answer EXCEPT ![q] = {}]
    /\ RecallGoto(q, IF Found(asked[q].ns) = {} THEN "done" ELSE "fetch")
    /\ UNCHANGED <<vars, asked, read, current, cache, due, erased, gone>>

\* One statement: ids without a row are not returned.
GetMemoriesByIds(ids) == ids \cap rows

\* No candidate left answers at once.
Fetch(q) ==
    /\ rpc[q] = "fetch"
    /\ LET valid == GetMemoriesByIds(pool[q]) \ invalid IN
         /\ answer' = [answer EXCEPT ![q] = valid]
         /\ RecallGoto(q, IF valid = {} THEN "done" ELSE "put")
    /\ UNCHANGED <<vars, asked, read, current, pool, cache, due, erased, gone>>

\* Mutant: the entry is stored under the generation of the moment.
PutResultsLate(q) ==
    /\ rpc[q] = "put"
    /\ cache' = [cache EXCEPT ![asked[q].proc][asked[q].ns] =
                   [gen |-> MyGeneration(q), results |-> answer[q]]]
    /\ RecallGoto(q, "done")
    /\ UNCHANGED <<vars, asked, read, current, pool, answer, due, erased, gone>>

\* After the reranker; put_results is given the generation read at the start.
PutResults(q) ==
    /\ rpc[q] = "put"
    /\ cache' = [cache EXCEPT ![asked[q].proc][asked[q].ns] =
                   [gen |-> read[q], results |-> answer[q]]]
    /\ RecallGoto(q, "done")
    /\ UNCHANGED <<vars, asked, read, current, pool, answer, due, erased, gone>>

\* The answer is delivered, a call fails or the recall's future is dropped.
RecallEnd(q) ==
    /\ rpc[q] # "idle"
    /\ RecallGoto(q, "idle")
    /\ pool' = [pool EXCEPT ![q] = {}]
    /\ answer' = [answer EXCEPT ![q] = {}]
    /\ read' = [read EXCEPT ![q] = 0]
    /\ current' = [current EXCEPT ![q] = 0]
    /\ due' = [due EXCEPT ![q] = {}]
    /\ erased' = [erased EXCEPT ![q] = {}]
    /\ gone' = [gone EXCEPT ![q] = {}]
    /\ UNCHANGED <<vars, asked, cache>>

\* The LRU makes room for another query's results.
Evict(p, n) ==
    /\ cache[p][n] # NoEntry
    /\ cache' = [cache EXCEPT ![p][n] = NoEntry]
    /\ UNCHANGED <<vars, rpc, asked, read, current, pool, answer, due, erased, gone>>

\* The cache and the recalls of a process end with it.
RecallCrash(p) ==
    LET ended == {q \in Reader : asked[q].proc = p}
        Reset(f) == [q \in Reader |-> IF q \in ended THEN {} ELSE f[q]]
    IN
    /\ Crash(p)
    /\ cache' = [cache EXCEPT ![p] = [n \in NS |-> NoEntry]]
    /\ rpc' = [q \in Reader |-> IF q \in ended THEN "idle" ELSE rpc[q]]
    /\ read' = [q \in Reader |-> IF q \in ended THEN 0 ELSE read[q]]
    /\ current' = [q \in Reader |-> IF q \in ended THEN 0 ELSE current[q]]
    /\ pool' = Reset(pool) /\ answer' = Reset(answer)
    /\ due' = Reset(due) /\ erased' = Reset(erased) /\ gone' = Reset(gone)
    /\ UNCHANGED asked

RecallStep(q) ==
    \/ \E p \in Proc, n \in NS : RecallStart(q, p, n)
    \/ ReadGeneration(q) \/ ReadCurrent(q) \/ Peek(q) \/ Search(q) \/ Fetch(q)
    \/ PutResults(q) \/ RecallEnd(q)

RecallNext ==
    \/ Work /\ UNCHANGED recallVars
    \/ \E p \in Proc : RecallCrash(p)
    \/ \E q \in Reader : RecallStep(q)
    \/ \E p \in Proc, n \in NS : Evict(p, n)

RecallSpec == RecallInit /\ [][RecallNext]_allVars
-----------------------------------------------------------------------------
(* Properties *)

\* A request of the process that has made m unavailable and has still to bump the generation;
\* one that stopped before it deleted the row leaves that to a recovery, which bumps nothing.
BumpOwed(p, m) ==
    \E r \in Req :
        /\ pc[r] # "idle" /\ job[r].proc = p
        /\ \/ IsForget(r) /\ cur[r] = m /\ pc[r] \in {"complete", "bump"}
           \/ IsForget(r) /\ cur[r] = m /\ pc[r] = "erase" /\ r \in halted
           \/ IsWrite(r) /\ m \in superseded[r] /\ pc[r] = "bump"

CurrentEntry(p, n) == cache[p][n] # NoEntry /\ cache[p][n].gen = gen[p][n]

\* Memories that a store to another namespace replaced: conflict::run takes facts of any
\* namespace and store bumps the generation of its own only.
ReplacedAcross ==
    {m \in Req : \E r \in Req : Committed(r) /\ m \in superseded[r] /\ job[r].ns # job[m].ns}

\* Memories that other processes changed, or may have: none of them reaches this one's cache.
Elsewhere(p) ==
    contested \cup
    {m \in Req : \E r \in Req :
        /\ pc[r] # "idle" /\ job[r].proc # p
        /\ \/ IsForget(r) /\ m \in job[r].ids
           \/ Committed(r) /\ m \in superseded[r]}

Explained(p, m) ==
    m \in rows \ invalid \/ BumpOwed(p, m) \/ m \in ReplacedAcross \/ m \in Elsewhere(p)

(***************************************************************************)
(* A valid cache entry holds a deleted or invalidated memory only if the   *)
(* request that changed it has not reached bump_generation, bumps another  *)
(* namespace's, or runs in another process, which has a cache of its own.  *)
(***************************************************************************)
EntriesExplained ==
    \A p \in Proc, n \in NS : CurrentEntry(p, n) =>
        \A m \in cache[p][n].results : Explained(p, m)

\* What a recall need not return.
Excused(m) == m \in invalid \/ ForgetRequested(m) \/ m \in contested

Has(ids, wanted) == \A m \in wanted : m \in ids \/ Excused(m)

(***************************************************************************)
(* A recall returns every store that its process acknowledged before it    *)
(* began, unless the memory was invalidated or asked to be forgotten, or   *)
(* a recovery beside its handler took it.                                  *)
(***************************************************************************)
RecallSeesAcknowledged ==
    \A q \in Reader : rpc[q] = "done" => Has(answer[q], due[q])

(***************************************************************************)
(* A recall returns no memory whose deletion or replacement its process    *)
(* acknowledged before it began.                                           *)
(***************************************************************************)
RecallOmitsGone == \A q \in Reader : rpc[q] = "done" => answer[q] \cap gone[q] = {}

\* Neither what was deleted, nor what was replaced within a namespace.
Omits(q, ids) == ids \cap erased[q] = {} /\ ids \cap gone[q] \subseteq ReplacedAcross

(***************************************************************************)
(* A recall returns no memory that its process reported as deleted before  *)
(* it began, and of those whose replacement it acknowledged none but the   *)
(* memories replaced across namespaces, whatever other processes do.       *)
(***************************************************************************)
StaleOnlyAcross == \A q \in Reader : rpc[q] = "done" => Omits(q, answer[q])

-----------------------------------------------------------------------------
(* The inductive invariant, beside IInv of MemoryStoreInv *)

\* A store replaces committed memories, which its commit makes unavailable.
ReplacedAreGone ==
    \A r \in Req : \A m \in superseded[r] :
        /\ pc[r] \notin {"idle", "check", "lookup"} /\ Committed(m)
        /\ Committed(r) => m \notin rows \ invalid

\* What a recovery takes for a forget is what that forget stopped at.
RecoveryFollows ==
    \A p \in Proc, r, m \in Req :
        proc[p].pc \in {"vector", "row"} /\ proc[p].cur = <<r, m>> =>
            m \in contested \/ cur[r] = m

DeletedByStarted == \A r \in Req : pc[r] = "idle" => deleted[r] = {}

OfNamespace(ids, n) == \A m \in ids : pc[m] # "idle" /\ job[m].ns = n

\* What was computed after generation g was read is right for as long as g lasts.
Fresh(p, n, g, ids) ==
    g = gen[p][n] =>
        /\ Has(ids, Acknowledged(p, n))
        /\ ids \cap Deleted(p) = {} /\ ids \cap Retired(p) \subseteq ReplacedAcross
        /\ \A m \in ids : Explained(p, m)

EntryInv(p, n) ==
    cache[p][n] # NoEntry =>
        /\ proc[p].pc = "up" /\ cache[p][n].gen <= gen[p][n]
        /\ OfNamespace(cache[p][n].results, n)
        /\ Fresh(p, n, cache[p][n].gen, cache[p][n].results)

\* What a recall knows, wherever it is.
ReaderInv(q) ==
    rpc[q] # "idle" =>
        /\ proc[asked[q].proc].pc = "up"
        /\ rpc[q] # "generation" => read[q] <= MyGeneration(q)
        /\ rpc[q] = "peek" => read[q] <= current[q] /\ current[q] <= MyGeneration(q)
        /\ \A m \in due[q] : Committed(m) /\ job[m].ns = asked[q].ns
        /\ erased[q] \subseteq gone[q]
        /\ \A m \in gone[q] : Committed(m) /\ m \notin rows \ invalid
        /\ rpc[q] = "fetch" =>
            /\ OfNamespace(pool[q], asked[q].ns) /\ Has(pool[q], due[q])
            /\ read[q] = MyGeneration(q) => Has(pool[q], Acknowledged(asked[q].proc, asked[q].ns))
        /\ rpc[q] \in {"put", "done"} => Has(answer[q], due[q]) /\ Omits(q, answer[q])
        /\ rpc[q] = "put" =>
            /\ OfNamespace(answer[q], asked[q].ns)
            /\ Fresh(asked[q].proc, asked[q].ns, read[q], answer[q])

\* A recall takes no entry older than this generation.
Floor(q) == IF rpc[q] = "generation" THEN MyGeneration(q) ELSE read[q]

Suits(q, g, ids) == g >= Floor(q) => Has(ids, due[q]) /\ Omits(q, ids)

\* A recall may take what is in the cache, and what another recall is about to put there.
Taking(q) == rpc[q] \in {"generation", "current", "peek"}
TakesEntry(q) ==
    Taking(q) /\ MyEntry(q) # NoEntry => Suits(q, MyEntry(q).gen, MyEntry(q).results)
TakesFrom(q, o) ==
    Taking(q) /\ asked[o] = asked[q] =>
        /\ rpc[o] = "put" => Suits(q, read[o], answer[o])
        /\ rpc[o] = "fetch" /\ read[o] >= Floor(q) => Has(pool[o], due[q])

\* Inductive together with IInv: why a generation read first and compared last is enough
\* (recall.rs, RecallCache::get_results, put_results and bump_generation).
RecallInv ==
    /\ RecallTypeOK /\ ReplacedAreGone /\ RecoveryFollows /\ DeletedByStarted
    /\ \A p \in Proc, n \in NS : EntryInv(p, n)
    /\ \A q \in Reader : ReaderInv(q) /\ TakesEntry(q) /\ \A o \in Reader : TakesFrom(q, o)
=============================================================================

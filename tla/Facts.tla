-------------------------------- MODULE Facts --------------------------------
(***************************************************************************)
(* Semantic facts (subject, predicate, object): how a predicate is         *)
(* normalised under the configuration a process started with, the conflict *)
(* check of a store and its later commit, rows an older build left with no *)
(* normalized_predicate and their backfill, and the contradictions that    *)
(* reflect reports.                                                        *)
(*                                                                         *)
(* The journal and Qdrant are left to MemoryStore: a store is its check    *)
(* and, several awaits later, its transaction.  Ids are UUID v7, in the    *)
(* order of the stores.                                                    *)
(***************************************************************************)
EXTENDS Naturals, Sequences, FiniteSetsExt, SequencesExt

CONSTANTS
    MaxId,              \* bound: memories
    NS,
    Str,                \* predicates, as spelt, normalised or canonical
    NameOrder,          \* the names that groups may have, in string order
    TextNormalize,      \* [Str -> Str] text_normalize
    Lower,              \* [Str -> Str] to_lowercase
    Similarity,         \* [Str \X Str -> 0..100] jaro_winkler, in hundredths
    FUZZY_THRESHOLD,    \* 85: of the normaliser
    REFLECT_FUZZY_PREDICATE_THRESHOLD,  \* 75
    Tidy,               \* [subjects as spelt -> trimmed, in lower case]
    Closeness,          \* of two objects: "duplicate", "ambiguous" or "different"
    Entities,           \* the names, aliases included, of each entity
    Configs,            \* [groups : name -> Seq(Str), namespaces : NS' -> groups]
    Inputs,             \* [ns, subject, predicate, object] of a store
    Legacy              \* sets of rows that an older build may have left as memory 1, 2...

None == "none"
NoRow == [valid |-> FALSE]

\* A row of the table memories; one that an older build left has no normal form.
Row == [ns : NS, subject : Range(Tidy), predicate : Str, normalized : Str \cup {None},
        object : {p[1] : p \in DOMAIN Closeness}, valid : BOOLEAN]

ASSUME FactsAssumption ==
    /\ MaxId \in Nat /\ "" \in Str /\ None \notin Str
    /\ TextNormalize \in [Str -> Str] /\ NameOrder \in Seq(Str)
    /\ Inputs \subseteq [ns : NS, subject : DOMAIN Tidy, predicate : Str,
                         object : {p[1] : p \in DOMAIN Closeness}]
    /\ \A rs \in Legacy : rs \in Seq(Row \cup {NoRow})
    /\ FUZZY_THRESHOLD \in 0..100 /\ REFLECT_FUZZY_PREDICATE_THRESHOLD \in 0..100

VARIABLES
    config,     \* of the serving process
    rows,       \* [1..n -> row]; a deleted or never written one is NoRow
    job,        \* the stores between their check and their commit
    backfill,   \* the backfill command: its configuration and the rows it read and has still to visit
    filled,     \* ghost: configuration and namespaces of the last complete backfill
    seen        \* ghost: [id -> facts that were in place when its store was checked]

vars == <<config, rows, job, backfill, filled, seen>>

Stored == {i \in DOMAIN rows : rows[i] # NoRow}
Valid == {i \in Stored : rows[i].valid}

-----------------------------------------------------------------------------
(* PredicateNormalizer *)

\* A namespace's groups replace those of the same name; an empty one removes it.
Groups(c, n) ==
    IF n \notin DOMAIN c.namespaces THEN c.groups
    ELSE LET own == c.namespaces[n]
             removed == {k \in DOMAIN own : own[k] = << >>}
         IN [k \in (DOMAIN c.groups \cup DOMAIN own) \ removed |->
                IF k \in DOMAIN own THEN own[k] ELSE c.groups[k]]

\* The name and the synonyms of a group, normalised.
Members(groups, k) == {TextNormalize[x] : x \in {k} \cup Range(groups[k])}

\* The canonical name of the group that has the text, or a member most similar to it.  The groups
\* are in string order, and of two that have a member, or members of one score, the first wins.
Normalize(groups, input) ==
    LET text == TextNormalize[input]
        order == {i \in DOMAIN NameOrder : NameOrder[i] \in DOMAIN groups}
        Scores(i) == {Similarity[<<text, x>>] : x \in Members(groups, NameOrder[i])}
        exact == {i \in order : text \in Members(groups, NameOrder[i])}
        best == {i \in order : \E s \in Scores(i) :
                    s > FUZZY_THRESHOLD /\ \A j \in order : \A t \in Scores(j) : t <= s}
    IN IF text = "" THEN text
       ELSE IF exact # {} THEN NameOrder[Min(exact)]
       ELSE IF best # {} THEN NameOrder[Min(best)] ELSE text

-----------------------------------------------------------------------------
(* store *)

\* validate: no part is empty.  (" " and "--" are not empty.)
Complete(in) == in.subject # "" /\ in.predicate # "" /\ in.object # ""

\* normalize_predicate, with the normaliser that store picked for the namespace.
NormalizedPredicate(in) == Normalize(Groups(config, in.ns), in.predicate)

BuildMemory(in) ==
    [ns |-> in.ns, subject |-> Tidy[in.subject], predicate |-> in.predicate,
     normalized |-> NormalizedPredicate(in), object |-> in.object, valid |-> TRUE]

\* Mutant: the predicate as it was spelt is looked up.
SameFactAsSpelt(m) ==
    {i \in Valid : rows[i].subject = m.subject /\ rows[i].normalized = m.predicate}

\* get_memories_by_subject_predicate, which asks for no namespace.
SameFact(m) ==
    {i \in Valid : rows[i].subject = m.subject /\ rows[i].normalized = m.normalized}

\* classify: one rival with a different object is replaced, any other conflict is an error.
Conflict(m) ==
    LET rivals == SameFact(m)
    IN IF rivals = {} THEN "no"
       ELSE IF Cardinality(rivals) > 1 THEN "multi"
       ELSE LET c == Closeness[<<m.object, rows[CHOOSE i \in rivals : TRUE].object>>]
            IN IF c = "different" THEN "update" ELSE c

NewStore(m, superseded, inPlace) ==
    /\ Len(rows) < MaxId
    /\ rows' = Append(rows, NoRow)
    /\ job' = [i \in DOMAIN job \cup {Len(rows) + 1} |->
                 IF i \in DOMAIN job THEN job[i] ELSE [memory |-> m, superseded |-> superseded]]
    /\ seen' = Append(seen, inPlace)
    /\ UNCHANGED <<config, backfill, filled>>

\* validate, normalize_predicate and conflict: a store that is refused leaves no trace.
Check(in) ==
    LET m == BuildMemory(in) IN
    /\ Complete(in) /\ Conflict(m) \in {"no", "update"}
    /\ NewStore(m, SameFact(m), {i \in Valid : rows[i].normalized # None})

\* A store with supersedes skips the check; its target is valid and of the same namespace.
Supersede(in, target) ==
    /\ Complete(in) /\ target \in Valid /\ rows[target].ns = in.ns
    /\ NewStore(BuildMemory(in), {target}, {})

EndJob(i) == job' = [k \in DOMAIN job \ {i} |-> job[k]]

\* commit_memory_write: the row, and the UPDATE of the replaced ones that are still there.
Commit(i) ==
    /\ i \in DOMAIN job
    /\ rows' = [k \in DOMAIN rows |->
                  IF k = i THEN job[i].memory
                  ELSE IF k \in job[i].superseded \cap Stored THEN [rows[k] EXCEPT !.valid = FALSE]
                  ELSE rows[k]]
    /\ EndJob(i)
    /\ UNCHANGED <<config, backfill, filled, seen>>

\* A later stage fails, or the request is dropped.
Abandon(i) ==
    /\ i \in DOMAIN job /\ EndJob(i)
    /\ seen' = [seen EXCEPT ![i] = {}]
    /\ UNCHANGED <<config, rows, backfill, filled>>

Forget(i) ==
    /\ i \in Stored
    /\ rows' = [rows EXCEPT ![i] = NoRow]
    /\ seen' = [k \in DOMAIN seen |-> IF k = i THEN {} ELSE seen[k] \ {i}]
    /\ UNCHANGED <<config, job, backfill, filled>>

\* The process ends and another one reads the configuration anew.
Restart(c) ==
    /\ config' = c /\ job' = << >>
    /\ seen' = [i \in DOMAIN seen |-> IF i \in DOMAIN job THEN {} ELSE seen[i]]
    /\ UNCHANGED <<rows, backfill, filled>>

-----------------------------------------------------------------------------
(* backfill normalized-predicates, a process of its own *)

NoBackfill == [on |-> FALSE]

Missing(ns) == {i \in Stored : rows[i].normalized = None /\ rows[i].ns \in ns}

\* All namespaces, or the one that was asked for; a command that finds no row changes nothing,
\* nor does a dry run.
StartBackfill(c, ns) ==
    /\ ~backfill.on /\ Missing(ns) # {}
    /\ backfill' = [on |-> TRUE, config |-> c, ns |-> ns, todo |-> [i \in Missing(ns) |-> rows[i]]]
    /\ UNCHANGED <<config, rows, job, filled, seen>>

\* Mutant: the default normaliser, whatever the row's namespace.
NormalizerOfNone(c, n) == c.groups

NormalizerOf(c, n) == Groups(c, n)

\* The UPDATE of set_normalized_predicate; a row deleted since is not there to update.
SetNormalizedPredicate(i, p) == IF i \in Stored THEN [rows EXCEPT ![i].normalized = p] ELSE rows

\* A predicate that is its own normal form is passed over.
BackfillRow(i) ==
    /\ backfill.on /\ i \in DOMAIN backfill.todo
    /\ LET row == backfill.todo[i]
           p == Normalize(NormalizerOf(backfill.config, row.ns), row.predicate)
       IN rows' = IF p = row.predicate THEN rows ELSE SetNormalizedPredicate(i, p)
    /\ backfill' = [backfill EXCEPT !.todo = [k \in DOMAIN @ \ {i} |-> @[k]]]
    /\ UNCHANGED <<config, job, filled, seen>>

\* The command has visited every row, or is interrupted.
EndBackfill ==
    /\ backfill.on
    /\ filled' = IF DOMAIN backfill.todo = {} THEN [config |-> backfill.config, ns |-> backfill.ns]
                 ELSE filled
    /\ backfill' = NoBackfill
    /\ UNCHANGED <<config, rows, job, seen>>

-----------------------------------------------------------------------------
Init ==
    /\ config \in Configs
    /\ rows \in Legacy
    /\ job = << >> /\ backfill = NoBackfill
    /\ filled = [config |-> config, ns |-> {}]
    /\ seen = [i \in DOMAIN rows |-> {}]

Next ==
    \/ \E in \in Inputs : Check(in) \/ \E t \in Valid : Supersede(in, t)
    \/ \E i \in DOMAIN job : Commit(i) \/ Abandon(i)
    \/ \E i \in Stored : Forget(i)
    \/ \E c \in Configs : Restart(c)
    \/ \E c \in Configs, ns \in {NS} \cup {{n} : n \in NS} : StartBackfill(c, ns)
    \/ backfill.on /\ \E i \in DOMAIN backfill.todo : BackfillRow(i)
    \/ EndBackfill

FactsSpec == Init /\ [][Next]_vars
-----------------------------------------------------------------------------
(* Properties *)

\* Two valid rows for one subject and predicate come only of stores that overlapped, of an
\* explicit supersedes or of a backfill: a checked store never leaves beside itself a fact that
\* was in place, with its normal form, when the check looked (conflict::run, then the commit).
FactTwiceOnlyConcurrent ==
    \A i, j \in Valid :
        i # j /\ rows[i].subject = rows[j].subject /\ rows[i].normalized = rows[j].normalized
            => i \notin seen[j]

SelfNormal(c, row) == Normalize(Groups(c, row.ns), row.predicate) = row.predicate

\* After a complete backfill a row of its namespaces lacks a normal form only if its predicate
\* is the normal form already, under the groups of the row's own namespace, whatever is stored,
\* deleted or restarted meanwhile (backfill_normalized_predicates).  That such a row keeps its
\* NULL is what BackfillPopulates shows.
BackfillCompletes ==
    \A i \in Missing(filled.ns) : SelfNormal(filled.config, rows[i])

\* README.md:265: "populate missing normalized predicates".  After a complete backfill no row of
\* its namespaces is without a normal form; conflict::run and get_memories_by_subject_predicate
\* find no row that is (admin.rs:82).
BackfillPopulates == Missing(filled.ns) = {}

-----------------------------------------------------------------------------
(* The inductive invariant *)

FactsTypeOK ==
    /\ config \in Configs
    /\ rows \in Seq(Row \cup {NoRow})
    /\ seen \in Seq(SUBSET DOMAIN rows) /\ Len(seen) = Len(rows)
    /\ \A i \in DOMAIN job :
        /\ i \in DOMAIN rows
        /\ job[i] = [memory |-> job[i].memory, superseded |-> job[i].superseded]
        /\ job[i].memory \in Row /\ job[i].memory.normalized \in Str
    /\ backfill # NoBackfill =>
        /\ backfill = [on |-> TRUE, config |-> backfill.config, ns |-> backfill.ns,
                       todo |-> backfill.todo]
        /\ \A i \in DOMAIN backfill.todo : i \in DOMAIN rows /\ backfill.todo[i] \in Row

\* A store has no row before its commit; the facts it saw are still stored, with a normal form,
\* and those that it would duplicate are the ones it replaces; no row without a normal form was
\* checked.
ChecksHold ==
    /\ \A j \in DOMAIN job : rows[j] = NoRow
    /\ \A j \in DOMAIN rows : \A i \in seen[j] : i \in Stored /\ rows[i].normalized # None
    /\ \A j \in Stored : rows[j].normalized = None => seen[j] = {}
    /\ \A j \in DOMAIN job : \A i \in seen[j] \cap Valid :
        /\ rows[i].subject = job[j].memory.subject
        /\ rows[i].normalized = job[j].memory.normalized
        => i \in job[j].superseded

\* The rows the command has still to visit are as it read them, or deleted; those it has passed
\* over, or that were never in its way, are their own normal form.
BackfillKnows ==
    backfill # NoBackfill =>
        /\ \A i \in DOMAIN backfill.todo :
            /\ i \notin DOMAIN job
            /\ i \in Stored =>
                /\ rows[i].normalized = None
                /\ rows[i].ns = backfill.todo[i].ns
                /\ rows[i].predicate = backfill.todo[i].predicate
        /\ \A i \in Missing(backfill.ns) \ DOMAIN backfill.todo : SelfNormal(backfill.config, rows[i])

\* Inductive: what the checks and the backfill know at every moment explains the two properties
\* (conflict::run and commit_memory_write, backfill_normalized_predicates).
FactsInv ==
    /\ FactsTypeOK /\ ChecksHold /\ BackfillKnows
    /\ FactTwiceOnlyConcurrent /\ BackfillCompletes
=============================================================================

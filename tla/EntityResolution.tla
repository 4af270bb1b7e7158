-------------------------- MODULE EntityResolution --------------------------
(***************************************************************************)
(* Entity resolution, the stage of a store that turns the names in a       *)
(* request into entities: exact name, fuzzy match, embedding match, or a   *)
(* new entity.  Requests of any process run it concurrently over one       *)
(* SQLite database (entities, entity_aliases) and one Qdrant collection    *)
(* per namespace, with no transaction across the stages.                   *)
(*                                                                         *)
(* A name is a normalised one.  An entity is named by its canonical name,  *)
(* which is UNIQUE, never changed and never deleted.                       *)
(***************************************************************************)
EXTENDS Naturals, Sequences

CONSTANTS
    Request,    \* stores that carry entity names
    Name,       \* normalised names
    Blank,      \* a name that normalises to nothing
    Namespace,
    Fuzzy,      \* the pairs of names above FUZZY_MATCH_THRESHOLD
    Near,       \* the pairs of names above EMBEDDING_MATCH_THRESHOLD
    MaxNames,   \* bound: names in a request
    MaxFaults   \* bound: failed calls and crashes

ASSUME EntityAssumption ==
    /\ Blank \notin Name
    /\ {Fuzzy, Near} \subseteq SUBSET (SUBSET Name)
    /\ {MaxNames, MaxFaults} \subseteq Nat

VARIABLES
    entities,   \* canonical names with a row
    aliases,    \* rows <<entity, alias>> of entity_aliases
    points,     \* [Namespace -> entities with a vector in its collection]
    req,        \* [Request -> its input and where its resolver is]
    faults,
    born        \* ghost: [Name -> the entities there were when its creator began or that it met]

vars == <<entities, aliases, points, req, faults, born>>

\* req[r].known is all_entities: the aliases of every entity in the request's list;
\* req[r].began is ghost: the entities there were when it began.
Known == UNION {[E -> SUBSET Name] : E \in SUBSET Name}
Input == UNION {[1..n -> Name \cup {Blank}] : n \in 1..MaxNames}

-----------------------------------------------------------------------------
AliasesOf(e) == {a \in Name : <<e, a>> \in aliases}

\* The entities that r has resolved names to, and the name that it resolves now.
Met(r) == {req[r].resolved[i] : i \in DOMAIN req[r].resolved}
Current(r) == req[r].names[Len(req[r].resolved) + 1]
Goto(r, pc) == req' = [req EXCEPT ![r].pc = pc]
Fault == faults < MaxFaults /\ faults' = faults + 1

\* Mutant: an entity the request resolved is not added to its list.
LearnedNothing(r, e, known) == req[r].known

\* An entity that is not in the list yet is pushed to it, with the aliases it was read with.
Learned(r, e, known) ==
    [x \in DOMAIN req[r].known \cup {e} |->
        IF x \in DOMAIN req[r].known THEN req[r].known[x] ELSE known]

\* The name is resolved to e; on to the next one.
Resolved(r, e, known) ==
    LET resolved == Append(req[r].resolved, e)
    IN req' = [req EXCEPT ![r].resolved = resolved,
                          ![r].known = Learned(r, e, known),
                          ![r].pc = IF Len(resolved) = Len(req[r].names) THEN "done" ELSE "exact"]

-----------------------------------------------------------------------------
(* resolve *)

\* get_all_entities: the list is read once, for all names of the request.
AllEntities == [e \in entities |-> AliasesOf(e)]

Begin(r, ns, names) ==
    /\ req[r].pc = "idle"
    /\ req' = [req EXCEPT ![r] = [pc |-> "exact", ns |-> ns, names |-> names, resolved |-> <<>>,
                                  target |-> Blank, known |-> AllEntities, began |-> entities]]
    /\ UNCHANGED <<entities, aliases, points, faults, born>>

\* A client whose store failed sends it again.
Retry(r) ==
    /\ req[r].pc = "failed"
    /\ req' = [req EXCEPT ![r].pc = "exact", ![r].resolved = <<>>,
                          ![r].known = AllEntities, ![r].began = entities]
    /\ UNCHANGED <<entities, aliases, points, faults, born>>

RejectBlank(r) ==
    /\ req[r].pc = "exact" /\ Current(r) = Blank
    /\ Goto(r, "failed")
    /\ UNCHANGED <<entities, aliases, points, faults, born>>

\* get_entity_by_name: the canonical name first, then any entity with that alias.
ExactMatches(name) ==
    IF name \in entities THEN {name} ELSE {e \in entities : <<e, name>> \in aliases}

MatchExact(r) ==
    /\ req[r].pc = "exact" /\ Current(r) # Blank
    /\ \/ /\ ExactMatches(Current(r)) = {}
          /\ Goto(r, "fuzzy")
       \/ \E e \in ExactMatches(Current(r)) : Resolved(r, e, AliasesOf(e))
    /\ UNCHANGED <<entities, aliases, points, faults, born>>

\* Entities of the list whose name or alias is above the threshold: the best of them wins.
FuzzyMatches(r) ==
    {e \in DOMAIN req[r].known :
        \E c \in {e} \cup req[r].known[e] : {c, Current(r)} \in Fuzzy \/ c = Current(r)}

MatchFuzzy(r) ==
    /\ req[r].pc = "fuzzy"
    /\ \/ FuzzyMatches(r) = {} /\ Goto(r, "search")
       \/ \E e \in FuzzyMatches(r) : req' = [req EXCEPT ![r].pc = "alias", ![r].target = e]
    /\ UNCHANGED <<entities, aliases, points, faults, born>>

\* add_entity_alias: INSERT OR IGNORE.
AddAlias(r) ==
    /\ req[r].pc = "alias"
    /\ aliases' = aliases \cup {<<req[r].target, Current(r)>>}
    /\ Resolved(r, req[r].target, {})
    /\ UNCHANGED <<entities, points, faults, born>>

\* find_entity_by_point_id
Listed(r, e) == e \in DOMAIN req[r].known

\* search_dense, in the collection of the namespace: the nearest point, if it is near enough
\* and in the list.
NearPoints(r) == {e \in points[req[r].ns] : {e, Current(r)} \in Near \/ e = Current(r)}

MatchEmbedding(r) ==
    /\ req[r].pc = "search"
    /\ \/ NearPoints(r) = {} /\ Goto(r, "create")
       \/ \E e \in NearPoints(r) :
            IF Listed(r, e) THEN req' = [req EXCEPT ![r].pc = "alias", ![r].target = e]
            ELSE Goto(r, "create")
    /\ UNCHANGED <<entities, aliases, points, faults, born>>

\* Mutant: the transaction is not committed.
CreateEntityUncommitted(r) ==
    /\ req[r].pc = "create"
    /\ Goto(r, "upsert")
    /\ UNCHANGED <<entities, aliases, points, faults, born>>

\* Mutant: a creator that lost the race tries its insert again.
CreateEntityInsists(r) ==
    /\ req[r].pc = "create" /\ Current(r) \notin entities
    /\ entities' = entities \cup {Current(r)}
    /\ born' = [born EXCEPT ![Current(r)] = req[r].began \cup Met(r)]
    /\ Goto(r, "upsert")
    /\ UNCHANGED <<aliases, points, faults>>

\* insert_entity: one transaction, and the name is UNIQUE.
InsertEntity(name) == name \notin entities /\ entities' = entities \cup {name}

\* The second of two creators of one name fails.
CreateEntity(r) ==
    /\ req[r].pc = "create"
    /\ \/ /\ InsertEntity(Current(r))
          /\ born' = [born EXCEPT ![Current(r)] = req[r].began \cup Met(r)]
          /\ Goto(r, "upsert")
       \/ /\ Current(r) \in entities
          /\ Goto(r, "failed")
          /\ UNCHANGED <<entities, born>>
    /\ UNCHANGED <<aliases, points, faults>>

UpsertEntityPoint(r) ==
    /\ req[r].pc = "upsert"
    /\ points' = [points EXCEPT ![req[r].ns] = @ \cup {Current(r)}]
    /\ Resolved(r, Current(r), {})
    /\ UNCHANGED <<entities, aliases, faults, born>>

\* A call of either store fails, or the process is killed.
Fail(r) ==
    /\ req[r].pc \notin {"idle", "done", "failed"} /\ Fault
    /\ Goto(r, "failed")
    /\ UNCHANGED <<entities, aliases, points, born>>

Init ==
    /\ entities = {} /\ aliases = {}
    /\ points = [n \in Namespace |-> {}]
    /\ req = [r \in Request |-> [pc |-> "idle", ns |-> Blank, names |-> <<>>, resolved |-> <<>>,
                                 target |-> Blank, known |-> [e \in {} |-> {}], began |-> {}]]
    /\ faults = 0
    /\ born = [n \in Name |-> {}]

Resolve(r) ==
    \/ RejectBlank(r) \/ MatchExact(r) \/ MatchFuzzy(r) \/ AddAlias(r) \/ MatchEmbedding(r)
    \/ CreateEntity(r) \/ UpsertEntityPoint(r)

Next ==
    \E r \in Request :
        \/ \E ns \in Namespace, names \in Input : Begin(r, ns, names)
        \/ Resolve(r) \/ Retry(r) \/ Fail(r)

EntitySpec == Init /\ [][Next]_vars
EntityFairSpec == EntitySpec /\ \A r \in Request : WF_vars(Resolve(r) \/ Retry(r))

-----------------------------------------------------------------------------
(* Properties *)

\* Whatever names an entity is written after its row: a vector in Qdrant, an alias, and what a
\* request has resolved always have a row in SQLite, whatever fails between insert_entity and
\* upsert_entity_point and whichever request made the entity.
PointsHaveRows ==
    /\ \A n \in Namespace : points[n] \subseteq entities
    /\ \A a \in aliases : a[1] \in entities
    /\ \A r \in Request : Met(r) \subseteq entities

\* Names that a fuzzy match puts together never become two entities, unless their creators ran
\* concurrently: an entity there was when a request began, or that it created itself for an
\* earlier name, is never created a second time under a similar name (resolve).
SimilarOnlyConcurrent ==
    \A e, f \in entities : {e, f} \in Fuzzy /\ e # f => e \notin born[f] /\ f \notin born[e]

-----------------------------------------------------------------------------
(* The inductive invariant *)

EntityPC == {"idle", "exact", "fuzzy", "alias", "search", "create", "upsert", "done", "failed"}

EntityTypeOK ==
    /\ entities \subseteq Name
    /\ aliases \subseteq Name \X Name
    /\ points \in [Namespace -> SUBSET Name]
    /\ born \in [Name -> SUBSET Name]
    /\ req \in [Request -> [pc : EntityPC, ns : Namespace \cup {Blank},
                            names : Seq(Name \cup {Blank}), resolved : Seq(Name),
                            target : Name \cup {Blank}, known : Known, began : SUBSET Name]]

\* Where a resolver is, it has a name to resolve; past the exact match, one that is not blank.
HasCurrent(r) ==
    /\ req[r].pc # "idle" => req[r].ns \in Namespace /\ Len(req[r].names) > 0
    /\ Len(req[r].resolved) <= Len(req[r].names)
    /\ req[r].pc \notin {"idle", "done", "failed"} => Len(req[r].resolved) < Len(req[r].names)
    /\ req[r].pc \in {"fuzzy", "alias", "search", "create", "upsert"} => Current(r) \in Name

\* A request lists every entity that there was when it began or that it met, and only entities.
ListsWhatItMet(r) ==
    /\ req[r].began \cup Met(r) \subseteq DOMAIN req[r].known
    /\ DOMAIN req[r].known \subseteq entities

\* What each stage has found out is still true: a name about to be created is like nothing on
\* the list.
StagesKnow(r) ==
    /\ req[r].pc = "alias" => req[r].target \in DOMAIN req[r].known
    /\ req[r].pc \in {"search", "create"} => FuzzyMatches(r) = {}
    /\ req[r].pc = "upsert" => Current(r) \in entities

\* An entity was created beside entities only, whoever created it.
BornAmongEntities == \A f \in Name : born[f] \subseteq entities

(***************************************************************************)
(* The reason for the two properties: what a request lists, met and has    *)
(* found out at each await of resolve, whatever other requests do.         *)
(***************************************************************************)
EntityInv ==
    /\ EntityTypeOK
    /\ \A r \in Request : HasCurrent(r) /\ ListsWhatItMet(r) /\ StagesKnow(r)
    /\ BornAmongEntities
    /\ PointsHaveRows
    /\ SimilarOnlyConcurrent

\* A store that is sent again until it succeeds does succeed, if its names are not blank: losing
\* the race for a new name (UNIQUE) is never repeated forever (match_embedding_or_create).
RetriesSucceed ==
    \A r \in Request :
        (req[r].pc # "idle" /\ \A i \in DOMAIN req[r].names : req[r].names[i] # Blank)
            ~> (req[r].pc = "done")
=============================================================================

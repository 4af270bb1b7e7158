----------------------- MODULE EntityResolutionProofs -----------------------
(***************************************************************************)
(* Proofs about entity resolution, for any requests, names, namespaces and *)
(* similarities: the inductive invariant EntityInv, and the safety         *)
(* properties that follow from it.                                         *)
(***************************************************************************)
EXTENDS EntityResolution, TLAPS, SequenceTheorems

\* The conjuncts of the invariant that speak of one request.
RequestInv(r) ==
    HasCurrent(r) /\ ListsWhatItMet(r) /\ StagesKnow(r)

\* Request r goes to a pc with a target, and everything else of it stays.
Moves(r, next, target) ==
    /\ req'[r] = [pc |-> next, ns |-> req[r].ns, names |-> req[r].names,
                  resolved |-> req[r].resolved, target |-> target, known |-> req[r].known,
                  began |-> req[r].began]
    /\ \A q \in Request : q # r => req'[q] = req[q]

ReqType ==
    [pc : EntityPC, ns : Namespace \cup {Blank}, names : Seq(Name \cup {Blank}),
     resolved : Seq(Name), target : Name \cup {Blank}, known : Known, began : SUBSET Name]

\* The requests that a step leaves alone keep what they know: no entity is ever removed.
LEMMA OthersKeep ==
  ASSUME EntityInv, NEW q \in Request, req'[q] = req[q], entities \subseteq entities'
  PROVE  RequestInv(q)'
<1>1. RequestInv(q)
  BY DEF EntityInv, RequestInv
<1>2. HasCurrent(q)'
  BY <1>1 DEF RequestInv, HasCurrent, Current
<1>3. ListsWhatItMet(q)'
  BY <1>1 DEF RequestInv, ListsWhatItMet, Met
<1>4. StagesKnow(q)'
  BY <1>1 DEF RequestInv, StagesKnow, Current, FuzzyMatches
<1> QED
  BY <1>1, <1>2, <1>3, <1>4 DEF RequestInv

\* The list with an entity added is a list.
LEMMA LearnedType ==
  ASSUME EntityInv, NEW r \in Request, NEW e \in Name, NEW known \in SUBSET Name
  PROVE  /\ Learned(r, e, known) \in Known
         /\ DOMAIN Learned(r, e, known) = DOMAIN req[r].known \cup {e}
<1>1. req[r].known \in Known
  BY DEF EntityInv, EntityTypeOK
<1>2. PICK E \in SUBSET Name : req[r].known \in [E -> SUBSET Name]
  BY <1>1 DEF Known
<1>3. Learned(r, e, known) \in [E \cup {e} -> SUBSET Name]
  BY <1>2 DEF Learned
<1>4. Learned(r, e, known) \in Known
  <2>1. E \cup {e} \in SUBSET Name
    OBVIOUS
  <2> QED
    BY <1>3, <2>1 DEF Known
<1>5. DOMAIN Learned(r, e, known) = DOMAIN req[r].known \cup {e}
  BY DEF Learned
<1> QED
  BY <1>4, <1>5

\* The list a request reads is a list of all entities.
LEMMA AllEntitiesType ==
  ASSUME EntityInv
  PROVE  AllEntities \in Known /\ DOMAIN AllEntities = entities
<1>1. AllEntities \in [entities -> SUBSET Name]
  BY DEF AllEntities, AliasesOf
<1>2. entities \in SUBSET Name
  BY DEF EntityInv, EntityTypeOK
<1> QED
  BY <1>1, <1>2 DEF Known

\* A step of r that creates no entity keeps the invariant if r keeps its own part of it and
\* vectors and aliases name entities.
LEMMA StepOfOne ==
  ASSUME EntityInv, NEW r \in Request, req' \in [Request -> ReqType],
         \A q \in Request : q # r => req'[q] = req[q], RequestInv(r)', UNCHANGED <<entities, born>>,
         points' \in [Namespace -> SUBSET Name], \A n \in Namespace : points'[n] \subseteq entities,
         aliases' \subseteq Name \X Name, \A a \in aliases' : a[1] \in entities
  PROVE  EntityInv'
<1> USE DEF EntityInv
<1>1. EntityTypeOK'
  BY DEF EntityTypeOK, ReqType
<1>2. \A q \in Request : RequestInv(q)'
  <2>1. ASSUME NEW q \in Request, q # r PROVE RequestInv(q)'
    BY <2>1, OthersKeep
  <2> QED
    BY <2>1
<1>3. \A q \in Request : (HasCurrent(q) /\ ListsWhatItMet(q) /\ StagesKnow(q))'
  BY <1>2 DEF RequestInv
<1>4. PointsHaveRows'
  <2>1. \A q \in Request : Met(q)' \subseteq entities'
    BY <1>3 DEF ListsWhatItMet
  <2> QED
    BY <2>1 DEF PointsHaveRows
<1>5. SimilarOnlyConcurrent' /\ BornAmongEntities'
  BY DEF SimilarOnlyConcurrent, BornAmongEntities
<1> QED
  BY <1>1, <1>3, <1>4, <1>5

\* A name resolved to an entity keeps r's part.
LEMMA ResolvedKeeps ==
  ASSUME EntityInv, NEW r \in Request, NEW e \in Name, NEW known \in SUBSET Name,
         Resolved(r, e, known), req[r].pc \notin {"idle", "done", "failed"},
         e \in entities, UNCHANGED entities
  PROVE  /\ req' \in [Request -> ReqType]
         /\ \A q \in Request : q # r => req'[q] = req[q]
         /\ RequestInv(r)'
<1> DEFINE old == req[r]
           resolved == Append(old.resolved, e)
           next == IF Len(resolved) = Len(old.names) THEN "done" ELSE "exact"
           x == [pc |-> next, ns |-> old.ns, names |-> old.names, resolved |-> resolved,
                 target |-> old.target, known |-> Learned(r, e, known), began |-> old.began]
<1>1. old \in ReqType /\ req \in [Request -> ReqType]
  BY DEF EntityInv, EntityTypeOK, ReqType
<1>2. /\ req'[r] = x
      /\ \A q \in Request : q # r => req'[q] = req[q]
      /\ req' = [q \in Request |-> req'[q]]
  <2>1. req' = [req EXCEPT ![r].resolved = resolved, ![r].known = Learned(r, e, known),
                           ![r].pc = next]
    BY DEF Resolved
  <2> HIDE DEF resolved, next
  <2> QED
    BY <1>1, <2>1 DEF ReqType
<1>3. x \in ReqType
  <2>1. resolved \in Seq(Name) /\ next \in EntityPC
    BY <1>1 DEF ReqType, EntityPC
  <2>2. Learned(r, e, known) \in Known
    BY LearnedType
  <2> HIDE DEF resolved, next
  <2> QED
    BY <1>1, <2>1, <2>2 DEF ReqType
<1>4. req'[r] = x /\ req' \in [Request -> ReqType]
  <2> HIDE DEF x
  <2>1. \A q \in Request : req'[q] \in ReqType
    BY <1>1, <1>2, <1>3
  <2> QED
    BY <1>2, <2>1
<1>5. HasCurrent(r) /\ ListsWhatItMet(r) /\ StagesKnow(r)
  BY DEF EntityInv
<1>6. /\ Len(resolved) = Len(old.resolved) + 1
      /\ \A i \in 1..Len(old.resolved) : resolved[i] = old.resolved[i]
      /\ resolved[Len(old.resolved) + 1] = e
      /\ DOMAIN resolved = 1..Len(old.resolved) + 1
      /\ DOMAIN old.resolved = 1..Len(old.resolved)
      /\ Len(old.resolved) \in Nat /\ Len(old.names) \in Nat
  BY <1>1 DEF ReqType
<1>7. HasCurrent(r)'
  BY <1>4, <1>5, <1>6 DEF HasCurrent
<1>8. ListsWhatItMet(r)'
  <2>1. DOMAIN x.known = DOMAIN old.known \cup {e}
    BY LearnedType
  <2>2. Met(r)' = Met(r) \cup {e}
    BY <1>4, <1>6 DEF Met
  <2> QED
    BY <1>4, <1>5, <2>1, <2>2 DEF ListsWhatItMet
<1>9. StagesKnow(r)'
  BY <1>4 DEF StagesKnow
<1> QED
  BY <1>2, <1>3, <1>4, <1>7, <1>8, <1>9 DEF RequestInv
\* What Goto and the two matches do to a request.
LEMMA GotoMoves ==
  ASSUME EntityInv, NEW r \in Request, NEW c \in EntityPC, Goto(r, c)
  PROVE  req' \in [Request -> ReqType] /\ Moves(r, c, req[r].target)
  BY DEF EntityInv, EntityTypeOK, ReqType, Goto, Moves

LEMMA TargetMoves ==
  ASSUME EntityInv, NEW r \in Request, NEW e \in Name,
         req' = [req EXCEPT ![r].pc = "alias", ![r].target = e]
  PROVE  req' \in [Request -> ReqType] /\ Moves(r, "alias", e)
  BY DEF EntityInv, EntityTypeOK, ReqType, Moves, EntityPC

\* A request that moves on knows what its next stage relies on.
LEMMA MoveKeeps ==
  ASSUME EntityInv, NEW r \in Request, NEW c \in EntityPC, NEW t, Moves(r, c, t),
         req[r].pc \notin {"idle", "done", "failed"}, c \notin {"idle", "done"},
         entities \subseteq entities',
         c \in {"fuzzy", "alias", "search", "create", "upsert"} => Current(r) \in Name,
         c = "alias" => t \in DOMAIN req[r].known,
         c \in {"search", "create"} => FuzzyMatches(r) = {},
         c = "upsert" => Current(r) \in entities'
  PROVE  RequestInv(r)'
<1>1. HasCurrent(r) /\ ListsWhatItMet(r) /\ StagesKnow(r)
  BY DEF EntityInv
<1>2. /\ req'[r].pc = c /\ req'[r].ns = req[r].ns /\ req'[r].names = req[r].names
      /\ req'[r].resolved = req[r].resolved /\ req'[r].target = t
      /\ req'[r].known = req[r].known /\ req'[r].began = req[r].began
  BY DEF Moves
<1>3. Current(r)' = Current(r) /\ Met(r)' = Met(r) /\ FuzzyMatches(r)' = FuzzyMatches(r)
  BY <1>2 DEF Current, Met, FuzzyMatches
<1>4. HasCurrent(r)'
  BY <1>1, <1>2, <1>3 DEF HasCurrent
<1>5. ListsWhatItMet(r)'
  BY <1>1, <1>2, <1>3 DEF ListsWhatItMet
<1>6. StagesKnow(r)'
  BY <1>2, <1>3 DEF StagesKnow
<1> QED
  BY <1>1, <1>2, <1>4, <1>5, <1>6 DEF RequestInv

-----------------------------------------------------------------------------
(* One lemma per action *)

LEMMA BeginKeeps ==
  ASSUME EntityInv, NEW r \in Request, NEW ns \in Namespace, NEW names \in Input,
         Begin(r, ns, names)
  PROVE  EntityInv'
<1> DEFINE x == [pc |-> "exact", ns |-> ns, names |-> names, resolved |-> <<>>,
                 target |-> Blank, known |-> AllEntities, began |-> entities]
<1>1. names \in Seq(Name \cup {Blank}) /\ Len(names) \in Nat /\ Len(names) > 0
  <2>1. PICK n \in 1..MaxNames : names \in [1..n -> Name \cup {Blank}]
    BY DEF Input
  <2>2. n \in Nat /\ n > 0 /\ Len(names) = n
    BY <2>1, EntityAssumption
  <2> QED
    BY <2>1, <2>2
<1>2. x \in ReqType
  BY <1>1, AllEntitiesType DEF ReqType, EntityPC, EntityInv, EntityTypeOK
<1>3. req' = [req EXCEPT ![r] = x]
  BY DEF Begin
<1>4. /\ req' \in [Request -> ReqType] /\ req'[r] = x
      /\ \A q \in Request : q # r => req'[q] = req[q]
  <2> HIDE DEF x
  <2> QED
    BY <1>2, <1>3 DEF EntityInv, EntityTypeOK, ReqType
<1>5. RequestInv(r)'
  BY <1>1, <1>4, AllEntitiesType DEF RequestInv, HasCurrent, ListsWhatItMet, StagesKnow, Met, Begin
<1> QED
  BY <1>4, <1>5, StepOfOne DEF Begin, EntityInv, EntityTypeOK, PointsHaveRows

LEMMA RetryKeeps ==
  ASSUME EntityInv, NEW r \in Request, Retry(r)
  PROVE  EntityInv'
<1> DEFINE x == [pc |-> "exact", ns |-> req[r].ns, names |-> req[r].names, resolved |-> <<>>,
                 target |-> req[r].target, known |-> AllEntities, began |-> entities]
<1>1. req \in [Request -> ReqType] /\ HasCurrent(r)
  BY DEF EntityInv, EntityTypeOK, ReqType
<1>2. /\ req'[r] = x
      /\ \A q \in Request : q # r => req'[q] = req[q]
      /\ req' = [q \in Request |-> req'[q]]
  BY <1>1 DEF Retry, ReqType
<1>3. x \in ReqType
  BY <1>1, AllEntitiesType DEF ReqType, EntityPC, EntityInv, EntityTypeOK
<1>4. req' \in [Request -> ReqType]
  <2> HIDE DEF x
  <2>1. \A q \in Request : req'[q] \in ReqType
    BY <1>1, <1>2, <1>3
  <2> QED
    BY <1>2, <2>1
<1>5. RequestInv(r)'
  BY <1>1, <1>2, AllEntitiesType
  DEF RequestInv, HasCurrent, ListsWhatItMet, StagesKnow, Met, Retry, ReqType
<1> QED
  BY <1>2, <1>4, <1>5, StepOfOne DEF Retry, EntityInv, EntityTypeOK, PointsHaveRows

\* A resolver that gives up, on a blank name or a failed call, leaves what is stored.
LEMMA FailureKeeps ==
  ASSUME EntityInv, NEW r \in Request, RejectBlank(r) \/ Fail(r)
  PROVE  EntityInv'
<1>1. Goto(r, "failed") /\ UNCHANGED <<entities, aliases, points, born>>
  BY DEF RejectBlank, Fail
<1>2. "failed" \in EntityPC /\ req[r].pc \notin {"idle", "done", "failed"}
  BY DEF RejectBlank, Fail, EntityPC
<1>3. req' \in [Request -> ReqType] /\ Moves(r, "failed", req[r].target)
  BY <1>1, <1>2, GotoMoves
<1>4. RequestInv(r)'
  BY <1>1, <1>2, <1>3, MoveKeeps
<1> QED
  BY <1>1, <1>3, <1>4, StepOfOne DEF Moves, EntityInv, EntityTypeOK, PointsHaveRows

\* The name a resolver is at is one of the request's names.
LEMMA CurrentType ==
  ASSUME EntityInv, NEW r \in Request, req[r].pc \notin {"idle", "done", "failed"}
  PROVE  Current(r) \in Name \cup {Blank}
<1>1. /\ req[r].names \in Seq(Name \cup {Blank}) /\ req[r].resolved \in Seq(Name)
      /\ Len(req[r].resolved) < Len(req[r].names)
  BY DEF EntityInv, EntityTypeOK, HasCurrent
<1>2. Len(req[r].resolved) + 1 \in 1..Len(req[r].names)
  BY <1>1
<1> QED
  BY <1>1, <1>2 DEF Current

\* Whatever the name matches, its own entity or one that has it as an alias, is an entity.
LEMMA MatchExactKeeps ==
  ASSUME EntityInv, NEW r \in Request, MatchExact(r)
  PROVE  EntityInv'
<1> USE DEF EntityInv, EntityTypeOK
<1>1. /\ req[r].pc = "exact" /\ Current(r) \in Name
      /\ UNCHANGED <<entities, aliases, points, born>>
  BY CurrentType DEF MatchExact
<1>2. CASE ExactMatches(Current(r)) = {} /\ Goto(r, "fuzzy")
  <2>1. req' \in [Request -> ReqType] /\ Moves(r, "fuzzy", req[r].target) /\ "fuzzy" \in EntityPC
    BY <1>2, GotoMoves DEF EntityPC
  <2>2. RequestInv(r)'
    BY <1>1, <2>1, MoveKeeps
  <2> QED
    BY <1>1, <2>1, <2>2, StepOfOne DEF Moves, PointsHaveRows
<1>3. ASSUME NEW e \in ExactMatches(Current(r)), Resolved(r, e, AliasesOf(e))
      PROVE  EntityInv'
  <2>1. e \in entities /\ e \in Name
    BY <1>1 DEF ExactMatches
  <2>2. AliasesOf(e) \in SUBSET Name
    BY DEF AliasesOf
  <2>3. /\ req' \in [Request -> ReqType] /\ RequestInv(r)'
        /\ \A q \in Request : q # r => req'[q] = req[q]
    BY <1>1, <1>3, <2>1, <2>2, ResolvedKeeps
  <2> QED
    BY <1>1, <2>3, StepOfOne DEF PointsHaveRows
<1> QED
  BY <1>2, <1>3 DEF MatchExact

LEMMA MatchFuzzyKeeps ==
  ASSUME EntityInv, NEW r \in Request, MatchFuzzy(r)
  PROVE  EntityInv'
<1> USE DEF EntityInv, EntityTypeOK
<1>1. /\ req[r].pc = "fuzzy" /\ Current(r) \in Name
      /\ UNCHANGED <<entities, aliases, points, born>>
  BY DEF MatchFuzzy, HasCurrent, StagesKnow
<1>2. CASE FuzzyMatches(r) = {} /\ Goto(r, "search")
  <2>1. req' \in [Request -> ReqType] /\ Moves(r, "search", req[r].target) /\ "search" \in EntityPC
    BY <1>2, GotoMoves DEF EntityPC
  <2>2. RequestInv(r)'
    BY <1>1, <1>2, <2>1, MoveKeeps
  <2> QED
    BY <1>1, <2>1, <2>2, StepOfOne DEF Moves, PointsHaveRows
<1>3. ASSUME NEW e \in FuzzyMatches(r), req' = [req EXCEPT ![r].pc = "alias", ![r].target = e]
      PROVE  EntityInv'
  <2>1. e \in DOMAIN req[r].known /\ e \in Name
    BY DEF FuzzyMatches, ListsWhatItMet
  <2>2. req' \in [Request -> ReqType] /\ Moves(r, "alias", e) /\ "alias" \in EntityPC
    BY <1>3, <2>1, TargetMoves DEF EntityPC
  <2>3. RequestInv(r)'
    BY <1>1, <2>1, <2>2, MoveKeeps
  <2> QED
    BY <1>1, <2>2, <2>3, StepOfOne DEF Moves, PointsHaveRows
<1> QED
  BY <1>2, <1>3 DEF MatchFuzzy

\* An alias is given to an entity of the list, for a name that had no entity.
LEMMA AddAliasKeeps ==
  ASSUME EntityInv, NEW r \in Request, AddAlias(r)
  PROVE  EntityInv'
<1> USE DEF EntityInv, EntityTypeOK
<1>1. /\ req[r].pc = "alias" /\ Current(r) \in Name
      /\ req[r].target \in entities /\ req[r].target \in Name
      /\ UNCHANGED <<entities, points, born>>
  BY DEF AddAlias, HasCurrent, StagesKnow, ListsWhatItMet
<1>2. /\ req' \in [Request -> ReqType] /\ RequestInv(r)'
      /\ \A q \in Request : q # r => req'[q] = req[q]
  <2>1. Resolved(r, req[r].target, {}) /\ {} \in SUBSET Name
    BY DEF AddAlias
  <2> QED
    BY <1>1, <2>1, ResolvedKeeps
<1>3. aliases' \subseteq Name \X Name /\ \A a \in aliases' : a[1] \in entities
  BY <1>1 DEF AddAlias, PointsHaveRows
<1> QED
  BY <1>1, <1>2, <1>3, StepOfOne DEF PointsHaveRows

LEMMA MatchEmbeddingKeeps ==
  ASSUME EntityInv, NEW r \in Request, MatchEmbedding(r)
  PROVE  EntityInv'
<1> USE DEF EntityInv, EntityTypeOK
<1>1. /\ req[r].pc = "search" /\ Current(r) \in Name
      /\ FuzzyMatches(r) = {}
      /\ UNCHANGED <<entities, aliases, points, born>>
  BY DEF MatchEmbedding, HasCurrent, StagesKnow
<1>2. CASE Goto(r, "create")
  <2>1. req' \in [Request -> ReqType] /\ Moves(r, "create", req[r].target) /\ "create" \in EntityPC
    BY <1>2, GotoMoves DEF EntityPC
  <2>2. RequestInv(r)'
    BY <1>1, <2>1, MoveKeeps
  <2> QED
    BY <1>1, <2>1, <2>2, StepOfOne DEF Moves, PointsHaveRows
<1>3. ASSUME NEW e, Listed(r, e), req' = [req EXCEPT ![r].pc = "alias", ![r].target = e]
      PROVE  EntityInv'
  <2>1. e \in DOMAIN req[r].known /\ e \in Name
    BY <1>3 DEF Listed, ListsWhatItMet
  <2>2. req' \in [Request -> ReqType] /\ Moves(r, "alias", e) /\ "alias" \in EntityPC
    BY <1>3, <2>1, TargetMoves DEF EntityPC
  <2>3. RequestInv(r)'
    BY <1>1, <2>1, <2>2, MoveKeeps
  <2> QED
    BY <1>1, <2>2, <2>3, StepOfOne DEF Moves, PointsHaveRows
<1> QED
  BY <1>2, <1>3 DEF MatchEmbedding

\* A new entity is unlike all that its creator's list holds, and nobody was created beside it.
LEMMA CreateEntityKeeps ==
  ASSUME EntityInv, NEW r \in Request, CreateEntity(r)
  PROVE  EntityInv'
<1> USE DEF EntityInv, EntityTypeOK
<1> DEFINE name == Current(r)
<1>1. req[r].pc = "create" /\ name \in Name /\ FuzzyMatches(r) = {} /\ UNCHANGED <<aliases, points>>
  BY DEF CreateEntity, HasCurrent, StagesKnow
<1>2. CASE Goto(r, "failed") /\ UNCHANGED <<entities, born>>
  <2>1. req' \in [Request -> ReqType] /\ Moves(r, "failed", req[r].target) /\ "failed" \in EntityPC
    BY <1>2, GotoMoves DEF EntityPC
  <2>2. RequestInv(r)'
    BY <1>1, <1>2, <2>1, MoveKeeps
  <2> QED
    BY <1>1, <1>2, <2>1, <2>2, StepOfOne DEF Moves, PointsHaveRows
<1>3. CASE /\ InsertEntity(name) /\ Goto(r, "upsert")
           /\ born' = [born EXCEPT ![name] = req[r].began \cup Met(r)]
  <2>1. name \notin entities /\ entities' = entities \cup {name}
    BY <1>3 DEF InsertEntity
  <2>2. req' \in [Request -> ReqType] /\ Moves(r, "upsert", req[r].target) /\ "upsert" \in EntityPC
    BY <1>3, GotoMoves DEF EntityPC
  <2>3. \A q \in Request : RequestInv(q)'
    <3>1. RequestInv(r)'
      BY <1>1, <2>1, <2>2, MoveKeeps
    <3> QED
      BY <2>1, <2>2, <3>1, OthersKeep DEF Moves
  <2>4. \A q \in Request : (HasCurrent(q) /\ ListsWhatItMet(q) /\ StagesKnow(q))'
    BY <2>3 DEF RequestInv
  <2>5. req[r].began \cup Met(r) \subseteq DOMAIN req[r].known /\ DOMAIN req[r].known \subseteq entities
    BY DEF ListsWhatItMet
  <2>6. EntityTypeOK' /\ BornAmongEntities'
    BY <1>1, <1>3, <2>1, <2>2, <2>5 DEF ReqType, BornAmongEntities
  <2>7. PointsHaveRows'
    <3>1. \A q \in Request : Met(q)' \subseteq entities'
      BY <2>4 DEF ListsWhatItMet
    <3> QED
      BY <1>1, <2>1, <3>1 DEF PointsHaveRows
  <2>8. SimilarOnlyConcurrent'
    <3>1. \A e \in entities : name \notin born[e] /\ born'[e] = born[e]
      BY <1>1, <1>3, <2>1 DEF BornAmongEntities
    <3>2. \A e \in born'[name] : {e, name} \notin Fuzzy
      BY <1>1, <1>3, <2>5 DEF FuzzyMatches
    <3>3. ASSUME NEW e \in entities', NEW f \in entities', {e, f} \in Fuzzy, e # f
          PROVE  e \notin born'[f]
      <4>1. CASE f = name
        BY <3>2, <3>3, <4>1
      <4>2. CASE f # name /\ e = name
        BY <2>1, <3>1, <4>2
      <4>3. CASE f # name /\ e # name
        BY <2>1, <3>1, <3>3, <4>3 DEF SimilarOnlyConcurrent
      <4> QED
        BY <4>1, <4>2, <4>3
    <3>4. \A e, f : {e, f} = {f, e}
      OBVIOUS
    <3> QED
      BY <3>3, <3>4 DEF SimilarOnlyConcurrent
  <2> QED
    BY <2>4, <2>6, <2>7, <2>8
<1> QED
  BY <1>2, <1>3 DEF CreateEntity

LEMMA UpsertEntityPointKeeps ==
  ASSUME EntityInv, NEW r \in Request, UpsertEntityPoint(r)
  PROVE  EntityInv'
<1> USE DEF EntityInv, EntityTypeOK
<1>1. /\ req[r].pc = "upsert" /\ Current(r) \in Name /\ Current(r) \in entities
      /\ UNCHANGED <<entities, aliases, born>>
  BY DEF UpsertEntityPoint, HasCurrent, StagesKnow
<1>2. /\ req' \in [Request -> ReqType] /\ RequestInv(r)'
      /\ \A q \in Request : q # r => req'[q] = req[q]
  <2>1. Resolved(r, Current(r), {}) /\ {} \in SUBSET Name
    BY DEF UpsertEntityPoint
  <2> QED
    BY <1>1, <2>1, ResolvedKeeps
<1>3. points' \in [Namespace -> SUBSET Name] /\ \A n \in Namespace : points'[n] \subseteq entities
  BY <1>1 DEF UpsertEntityPoint, PointsHaveRows
<1> QED
  BY <1>1, <1>2, <1>3, StepOfOne DEF PointsHaveRows

LEMMA EntityInit == Init => EntityInv
<1> SUFFICES ASSUME Init PROVE EntityInv
  OBVIOUS
<1> DEFINE x == [pc |-> "idle", ns |-> Blank, names |-> <<>>, resolved |-> <<>>,
                 target |-> Blank, known |-> [e \in {} |-> {}], began |-> {}]
<1>1. [e \in {} |-> {}] \in Known
  <2>1. [e \in {} |-> {}] \in [{} -> SUBSET Name] /\ {} \in SUBSET Name
    OBVIOUS
  <2> QED
    BY <2>1 DEF Known
<1>2. x \in ReqType /\ req = [r \in Request |-> x]
  BY <1>1 DEF Init, ReqType, EntityPC
<1>3. EntityTypeOK
  <2> HIDE DEF x
  <2>1. req \in [Request -> ReqType]
    BY <1>2
  <2> QED
    BY <2>1 DEF Init, EntityTypeOK, ReqType
<1>4. \A r \in Request : HasCurrent(r) /\ ListsWhatItMet(r) /\ StagesKnow(r) /\ Met(r) = {}
  <2> SUFFICES ASSUME NEW r \in Request
               PROVE  HasCurrent(r) /\ ListsWhatItMet(r) /\ StagesKnow(r) /\ Met(r) = {}
    OBVIOUS
  <2>1. req[r] = x /\ x.pc = "idle" /\ x.resolved = <<>> /\ x.names = <<>> /\ x.began = {}
    BY <1>2
  <2>2. DOMAIN x.known = {} /\ DOMAIN x.resolved = {}
    OBVIOUS
  <2>3. Met(r) = {}
    BY <2>1, <2>2 DEF Met
  <2> QED
    BY <2>1, <2>2, <2>3 DEF HasCurrent, ListsWhatItMet, StagesKnow
<1> QED
  BY <1>2, <1>3, <1>4
  DEF Init, EntityInv, BornAmongEntities, PointsHaveRows, SimilarOnlyConcurrent

-----------------------------------------------------------------------------
(***************************************************************************)
(* What a request lists, met and has found out stays true at every await   *)
(* of resolve (entity.rs), whatever other requests, failed calls, crashes  *)
(* and retries do.                                                         *)
(***************************************************************************)
THEOREM EntityInvariantHolds == EntitySpec => []EntityInv
<1>1. EntityInv /\ [Next]_vars => EntityInv'
  <2> SUFFICES ASSUME EntityInv, [Next]_vars PROVE EntityInv'
    OBVIOUS
  <2>1. ASSUME NEW r \in Request, Resolve(r) \/ Retry(r) \/ Fail(r) PROVE EntityInv'
    BY <2>1, FailureKeeps, MatchExactKeeps, MatchFuzzyKeeps, AddAliasKeeps,
       MatchEmbeddingKeeps, CreateEntityKeeps, UpsertEntityPointKeeps, RetryKeeps
    DEF Resolve
  <2>2. CASE UNCHANGED vars
    <3>1. \A q \in Request : RequestInv(q)'
      BY <2>2, OthersKeep DEF vars
    <3> QED
      BY <2>2, <3>1 DEF vars, EntityInv, EntityTypeOK, RequestInv, BornAmongEntities,
         PointsHaveRows, Met, SimilarOnlyConcurrent
  <2> QED
    BY <2>1, <2>2, BeginKeeps DEF Next
<1> QED
  BY <1>1, EntityInit, PTL DEF EntitySpec

(***************************************************************************)
(* A vector, an alias or a resolved name never names an entity without a   *)
(* row (insert_entity before upsert_entity_point).                         *)
(***************************************************************************)
THEOREM RowsComeFirst == EntitySpec => []PointsHaveRows
<1>1. EntityInv => PointsHaveRows
  BY DEF EntityInv
<1> QED
  BY <1>1, EntityInvariantHolds, PTL

(***************************************************************************)
(* Two similar names are two entities only if their creators overlapped    *)
(* (find_fuzzy_match over the request's own list).                         *)
(***************************************************************************)
THEOREM SimilarNamesOverlapped == EntitySpec => []SimilarOnlyConcurrent
<1>1. EntityInv => SimilarOnlyConcurrent
  BY DEF EntityInv
<1> QED
  BY <1>1, EntityInvariantHolds, PTL
=============================================================================

----------------------------- MODULE FactsProofs -----------------------------
(***************************************************************************)
(* Proofs about semantic facts, for any configurations, inputs, spellings  *)
(* and similarities: the inductive invariant FactsInv, the two properties  *)
(* that it contains, and that reflect reports every contradiction.         *)
(***************************************************************************)
EXTENDS Reflect, TLAPS, SequenceTheorems, WellFoundedInduction

\* A set of naturals has a smallest element.
LEMMA MinIsLeast ==
  ASSUME NEW S \in SUBSET Nat, S # {}
  PROVE  \E x \in S : \A y \in S : x =< y
<1> DEFINE Less == {p \in Nat \X Nat : p[1] < p[2]}
<1>1. IsWellFoundedOn(Less, Nat)
  BY NatLessThanWellFounded, Zenon DEF OpToRel
<1>2. \A a, b \in Nat : a < b => <<a, b>> \in Less
  OBVIOUS
<1> HIDE DEF Less
<1>3. PICK x \in S : \A y \in S : ~(<<y, x>> \in Less)
  BY <1>1, WFMin
<1>4. \A y \in S : ~(y < x)
  BY <1>2, <1>3
<1>5. \A y \in S : x =< y
  BY <1>4
<1> QED
  BY <1>5

\* The smallest of a set of naturals is one of them.
LEMMA MinIsMember ==
  ASSUME NEW S \in SUBSET Nat, S # {}
  PROVE  Min(S) \in S
BY MinIsLeast DEF Min

\* A normal form is a predicate; in particular it is never "none", the absent one.
LEMMA NormalizeType ==
  ASSUME NEW groups, NEW input \in Str
  PROVE  Normalize(groups, input) \in Str /\ Normalize(groups, input) # None
<1>1. TextNormalize[input] \in Str /\ NameOrder \in Seq(Str) /\ None \notin Str
  BY FactsAssumption
<1>2. \A S \in SUBSET DOMAIN NameOrder : S # {} => NameOrder[Min(S)] \in Str
  <2> TAKE S \in SUBSET DOMAIN NameOrder
  <2> HAVE S # {}
  <2>1. S \in SUBSET Nat
    BY <1>1
  <2>2. Min(S) \in S
    BY <2>1, MinIsMember
  <2> QED
    BY <1>1, <2>2
<1>3. Normalize(groups, input) \in Str
  <2> DEFINE text == TextNormalize[input]
             order == {i \in DOMAIN NameOrder : NameOrder[i] \in DOMAIN groups}
             Scores(i) == {Similarity[<<text, x>>] : x \in Members(groups, NameOrder[i])}
             exact == {i \in order : text \in Members(groups, NameOrder[i])}
             best == {i \in order : \E s \in Scores(i) :
                        s > FUZZY_THRESHOLD /\ \A j \in order : \A t \in Scores(j) : t <= s}
  <2>1. exact \in SUBSET DOMAIN NameOrder /\ best \in SUBSET DOMAIN NameOrder
    OBVIOUS
  <2>2. Normalize(groups, input) =
          IF text = "" THEN text
          ELSE IF exact # {} THEN NameOrder[Min(exact)]
          ELSE IF best # {} THEN NameOrder[Min(best)] ELSE text
    BY Zenon DEF Normalize
  <2>3. text \in Str
    BY <1>1
  <2> HIDE DEF text, exact, best
  <2> QED
    BY <1>2, <2>1, <2>2, <2>3
<1> QED
  BY <1>1, <1>3

\* A row is never taken for the absence of one.
LEMMA RowIsThere ==
  ASSUME NEW r \in Row
  PROVE  r # NoRow
<1>1. "ns" \in DOMAIN r
  BY DEF Row
<1>2. "ns" \notin DOMAIN NoRow
  BY DEF NoRow
<1> QED
  BY <1>1, <1>2

LEMMA SeqOfFunction ==
  ASSUME NEW T, NEW n \in Nat, NEW f \in [1..n -> T]
  PROVE  f \in Seq(T) /\ Len(f) = n /\ DOMAIN f = 1..n
OBVIOUS

\* The memory of a store has a normal form.
LEMMA BuildMemoryType ==
  ASSUME NEW in \in Inputs
  PROVE  BuildMemory(in) \in Row /\ BuildMemory(in).normalized \in Str
<1>1. /\ in.ns \in NS /\ in.subject \in DOMAIN Tidy /\ in.predicate \in Str
      /\ in.object \in {p[1] : p \in DOMAIN Closeness}
  BY FactsAssumption
<1>2. NormalizedPredicate(in) \in Str
  BY <1>1, NormalizeType DEF NormalizedPredicate
<1>3. Tidy[in.subject] \in Range(Tidy)
  BY <1>1 DEF Range
<1> QED
  BY <1>1, <1>2, <1>3 DEF BuildMemory, Row

-----------------------------------------------------------------------------
LEMMA InitHolds == Init => FactsInv
<1> SUFFICES ASSUME Init
             PROVE  FactsInv
  OBVIOUS
<1>1. rows \in Seq(Row \cup {NoRow})
  BY FactsAssumption DEF Init
<1>2. seen \in Seq(SUBSET DOMAIN rows) /\ Len(seen) = Len(rows)
  <2>1. seen \in [1..Len(rows) -> SUBSET DOMAIN rows] /\ Len(rows) \in Nat
    BY <1>1 DEF Init
  <2> QED
    BY <2>1, SeqOfFunction
<1>3. FactsTypeOK
  BY <1>1, <1>2 DEF Init, FactsTypeOK
<1>4. ChecksHold
  BY <1>1 DEF Init, ChecksHold, Stored, Valid
<1>5. BackfillKnows
  BY DEF Init, BackfillKnows
<1>6. FactTwiceOnlyConcurrent
  BY <1>1 DEF Init, FactTwiceOnlyConcurrent, Stored, Valid
<1>7. BackfillCompletes
  BY DEF Init, BackfillCompletes, Missing
<1> QED
  BY <1>3, <1>4, <1>5, <1>6, <1>7 DEF FactsInv

\* What a store that was just checked has seen, and replaces.
LEMMA NewStoreKeeps ==
  ASSUME FactsInv, NEW m \in Row, m.normalized \in Str, NEW superseded, NEW inPlace,
         inPlace \in SUBSET Valid, \A i \in inPlace : rows[i].normalized # None,
         \A i \in inPlace :
            rows[i].subject = m.subject /\ rows[i].normalized = m.normalized => i \in superseded,
         NewStore(m, superseded, inPlace)
  PROVE  FactsInv'
<1> DEFINE n == Len(rows)
           new == [memory |-> m, superseded |-> superseded]
<1>1. /\ rows \in Seq(Row \cup {NoRow}) /\ n \in Nat /\ DOMAIN rows = 1..n
      /\ seen \in Seq(SUBSET DOMAIN rows) /\ Len(seen) = n
  BY DEF FactsInv, FactsTypeOK
<1>2. /\ rows' \in Seq(Row \cup {NoRow}) /\ Len(rows') = n + 1 /\ DOMAIN rows' = 1..n + 1
      /\ rows'[n + 1] = NoRow /\ \A i \in DOMAIN rows : rows'[i] = rows[i]
  BY <1>1 DEF NewStore
<1>3. /\ inPlace \in SUBSET DOMAIN rows' /\ seen \in Seq(SUBSET DOMAIN rows')
  <2>1. inPlace \in SUBSET DOMAIN rows' /\ SUBSET DOMAIN rows \subseteq SUBSET DOMAIN rows'
    BY <1>1, <1>2 DEF Valid, Stored
  <2> QED
    BY <1>1, <2>1, SeqMonotonic
<1>4. /\ seen' \in Seq(SUBSET DOMAIN rows') /\ Len(seen') = n + 1
      /\ seen'[n + 1] = inPlace /\ \A i \in DOMAIN rows : seen'[i] = seen[i]
  BY <1>1, <1>3 DEF NewStore
<1>5. /\ DOMAIN job' = DOMAIN job \cup {n + 1} /\ job'[n + 1] = new
      /\ \A i \in DOMAIN job : i \in DOMAIN rows /\ job'[i] = job[i]
  BY <1>1 DEF NewStore, FactsInv, FactsTypeOK
<1>6. Stored' = Stored /\ Valid' = Valid
  BY <1>1, <1>2 DEF Stored, Valid
<1>7. UNCHANGED <<config, backfill, filled>>
  BY DEF NewStore
<1>8. new = [memory |-> new.memory, superseded |-> new.superseded] /\ new.memory = m
  OBVIOUS
<1> HIDE DEF new
<1>9. FactsTypeOK'
  <2>1. \A i \in DOMAIN job' :
          /\ i \in DOMAIN rows'
          /\ job'[i] = [memory |-> job'[i].memory, superseded |-> job'[i].superseded]
          /\ job'[i].memory \in Row /\ job'[i].memory.normalized \in Str
    <3> TAKE i \in DOMAIN job'
    <3>1. CASE i \in DOMAIN job
      BY <3>1, <1>1, <1>2, <1>5 DEF FactsInv, FactsTypeOK
    <3>2. CASE i = n + 1
      BY <3>2, <1>1, <1>2, <1>5, <1>8
    <3> QED
      BY <3>1, <3>2, <1>5
  <2> QED
    BY <2>1, <1>1, <1>2, <1>4, <1>7 DEF FactsInv, FactsTypeOK
<1>10. ChecksHold'
  <2>1. \A j \in DOMAIN job' : rows'[j] = NoRow
    BY <1>2, <1>5 DEF FactsInv, ChecksHold
  <2>2. \A j \in DOMAIN rows' : \A i \in seen'[j] : i \in Stored' /\ rows'[i].normalized # None
    <3> TAKE j \in DOMAIN rows'
    <3> TAKE i \in seen'[j]
    <3>1. CASE j \in DOMAIN rows
      BY <3>1, <1>2, <1>4, <1>6 DEF FactsInv, ChecksHold, Stored
    <3>2. CASE j = n + 1
      BY <3>2, <1>2, <1>4, <1>6 DEF Stored, Valid
    <3> QED
      BY <3>1, <3>2, <1>1, <1>2
  <2>3. \A j \in Stored' : rows'[j].normalized = None => seen'[j] = {}
    BY <1>2, <1>4, <1>6 DEF FactsInv, ChecksHold, Stored
  <2>4. ASSUME NEW j \in DOMAIN job', NEW i \in seen'[j] \cap Valid',
               rows'[i].subject = job'[j].memory.subject,
               rows'[i].normalized = job'[j].memory.normalized
        PROVE  i \in job'[j].superseded
    <3>1. i \in DOMAIN rows /\ rows'[i] = rows[i]
      BY <1>2, <1>6 DEF Valid, Stored
    <3>2. CASE j \in DOMAIN job
      BY <2>4, <3>1, <3>2, <1>4, <1>5, <1>6 DEF FactsInv, ChecksHold
    <3>3. CASE j = n + 1
      BY <2>4, <3>1, <3>3, <1>4, <1>5 DEF new
    <3> QED
      BY <3>2, <3>3, <1>5
  <2> QED
    BY <2>1, <2>2, <2>3, <2>4 DEF ChecksHold
<1>11. BackfillKnows'
  <2>1. Missing(backfill.ns)' = Missing(backfill.ns)
    BY <1>2, <1>6, <1>7 DEF Missing, Stored
  <2>2. \A i \in Stored : rows'[i] = rows[i]
    BY <1>2 DEF Stored
  <2>3. \A i \in DOMAIN backfill.todo : backfill # NoBackfill => i # n + 1
    BY <1>1 DEF FactsInv, FactsTypeOK
  <2> QED
    BY <2>1, <2>2, <2>3, <1>5, <1>6, <1>7 DEF FactsInv, BackfillKnows, Missing, SelfNormal
<1>12. FactTwiceOnlyConcurrent'
  BY <1>2, <1>4, <1>6 DEF FactsInv, FactTwiceOnlyConcurrent, Stored, Valid
<1>13. BackfillCompletes'
  BY <1>2, <1>6, <1>7 DEF FactsInv, BackfillCompletes, Missing, Stored, SelfNormal
<1> QED
  BY <1>9, <1>10, <1>11, <1>12, <1>13 DEF FactsInv

LEMMA CheckKeeps ==
  ASSUME FactsInv, NEW in \in Inputs, Check(in)
  PROVE  FactsInv'
<1> DEFINE m == BuildMemory(in)
           inPlace == {i \in Valid : rows[i].normalized # None}
<1>1. m \in Row /\ m.normalized \in Str
  BY BuildMemoryType
<1>2. NewStore(m, SameFact(m), inPlace)
  BY DEF Check
<1> HIDE DEF m
<1>3. \A i \in inPlace :
        rows[i].subject = m.subject /\ rows[i].normalized = m.normalized => i \in SameFact(m)
  BY DEF SameFact
<1> QED
  BY <1>1, <1>2, <1>3, NewStoreKeeps

LEMMA SupersedeKeeps ==
  ASSUME FactsInv, NEW in \in Inputs, NEW t \in Valid, Supersede(in, t)
  PROVE  FactsInv'
<1>1. BuildMemory(in) \in Row /\ BuildMemory(in).normalized \in Str
  BY BuildMemoryType
<1>2. NewStore(BuildMemory(in), {t}, {})
  BY DEF Supersede
<1> QED
  BY <1>1, <1>2, NewStoreKeeps

LEMMA CommitKeeps ==
  ASSUME FactsInv, NEW j \in DOMAIN job, Commit(j)
  PROVE  FactsInv'
<1>1. /\ rows \in Seq(Row \cup {NoRow}) /\ Len(rows) \in Nat /\ DOMAIN rows = 1..Len(rows)
      /\ j \in DOMAIN rows /\ job[j].memory \in Row /\ job[j].memory.normalized \in Str
      /\ rows[j] = NoRow /\ j \notin Stored
  BY DEF FactsInv, FactsTypeOK, ChecksHold, Stored
<1>2. /\ DOMAIN rows' = DOMAIN rows /\ rows'[j] = job[j].memory
      /\ \A k \in DOMAIN rows : k # j =>
           /\ k \notin Stored => rows'[k] = NoRow
           /\ k \in Stored =>
                /\ rows'[k] \in Row /\ rows'[k].ns = rows[k].ns /\ rows'[k].subject = rows[k].subject
                /\ rows'[k].predicate = rows[k].predicate /\ rows'[k].normalized = rows[k].normalized
                /\ rows'[k].valid => rows[k].valid /\ k \notin job[j].superseded
  <2>1. /\ DOMAIN rows' = DOMAIN rows /\ rows'[j] = job[j].memory
        /\ \A k \in DOMAIN rows : k # j => rows'[k] =
             IF k \in job[j].superseded \cap Stored THEN [rows[k] EXCEPT !.valid = FALSE] ELSE rows[k]
    BY <1>1 DEF Commit
  <2>2. \A k \in Stored : rows[k] \in Row /\ k \in DOMAIN rows
    BY <1>1 DEF Stored
  <2>3. \A k \in DOMAIN rows \ Stored : rows[k] = NoRow
    BY DEF Stored
  <2>4. \A r \in Row : LET x == [r EXCEPT !.valid = FALSE] IN
          /\ x \in Row /\ x.ns = r.ns /\ x.subject = r.subject
          /\ x.predicate = r.predicate /\ x.normalized = r.normalized /\ ~x.valid
    BY DEF Row
  <2> QED
    BY <2>1, <2>2, <2>3, <2>4
<1>3. Stored' = Stored \cup {j} /\ Valid' \subseteq (Valid \ job[j].superseded) \cup {j}
  BY <1>1, <1>2, RowIsThere DEF Stored, Valid
<1>4. /\ DOMAIN job' = DOMAIN job \ {j} /\ \A k \in DOMAIN job' : job'[k] = job[k]
      /\ UNCHANGED <<config, backfill, filled, seen>>
  BY DEF Commit, EndJob
<1>5. rows' \in Seq(Row \cup {NoRow}) /\ Len(rows') = Len(rows)
  <2>1. \A k \in DOMAIN rows : rows'[k] \in Row \cup {NoRow}
    BY <1>1, <1>2
  <2>2. rows' = [k \in 1..Len(rows) |-> rows'[k]]
    BY <1>1 DEF Commit
  <2> QED
    BY <1>1, <2>1, <2>2, SeqOfFunction
<1>6. FactsTypeOK'
  BY <1>1, <1>2, <1>4, <1>5 DEF FactsInv, FactsTypeOK
<1>7. j \notin UNION {seen[k] : k \in DOMAIN rows}
  BY <1>1 DEF FactsInv, ChecksHold
<1>8. ChecksHold'
  <2>1. \A k \in DOMAIN job' : rows'[k] = NoRow
    BY <1>1, <1>2, <1>4 DEF FactsInv, FactsTypeOK, ChecksHold, Stored
  <2>2. \A k \in DOMAIN rows' : \A i \in seen'[k] : i \in Stored' /\ rows'[i].normalized # None
    BY <1>2, <1>3, <1>4, <1>7 DEF FactsInv, ChecksHold, Stored
  <2>3. \A k \in Stored' : rows'[k].normalized = None => seen'[k] = {}
    <3>1. job[j].memory.normalized # None
      BY <1>1, FactsAssumption
    <3> QED
      BY <3>1, <1>2, <1>3, <1>4 DEF FactsInv, ChecksHold, Stored
  <2>4. ASSUME NEW k \in DOMAIN job', NEW i \in seen'[k] \cap Valid',
               rows'[i].subject = job'[k].memory.subject,
               rows'[i].normalized = job'[k].memory.normalized
        PROVE  i \in job'[k].superseded
    <3>1. k \in DOMAIN job /\ k \in DOMAIN rows /\ job'[k] = job[k] /\ seen'[k] = seen[k]
      BY <1>4 DEF FactsInv, FactsTypeOK
    <3>2. i # j /\ i \in Valid /\ i \in DOMAIN rows /\ i \in Stored
      BY <3>1, <1>3, <1>7 DEF Valid, Stored
    <3>3. rows'[i].subject = rows[i].subject /\ rows'[i].normalized = rows[i].normalized
      BY <3>2, <1>2
    <3> QED
      BY <2>4, <3>1, <3>2, <3>3 DEF FactsInv, ChecksHold
  <2> QED
    BY <2>1, <2>2, <2>3, <2>4 DEF ChecksHold
<1>9. \A i \in Stored' : rows'[i].normalized = None =>
        i \in Stored /\ i # j /\ rows[i].normalized = None /\ rows'[i].ns = rows[i].ns
  <2>1. rows'[j].normalized # None
    BY <1>1, <1>2, FactsAssumption
  <2>2. \A i \in Stored : i \in DOMAIN rows
    BY DEF Stored
  <2> QED
    BY <2>1, <2>2, <1>2, <1>3
<1>10. BackfillKnows'
  <2> SUFFICES ASSUME backfill # NoBackfill
               PROVE  BackfillKnows'
    BY <1>4 DEF BackfillKnows
  <2>1. \A i \in DOMAIN backfill.todo :
          /\ i \notin DOMAIN job'
          /\ i \in Stored' => /\ rows'[i].normalized = None
                              /\ rows'[i].ns = backfill.todo[i].ns
                              /\ rows'[i].predicate = backfill.todo[i].predicate
    BY <1>2, <1>3, <1>4 DEF FactsInv, BackfillKnows, Stored
  <2>2. \A i \in Missing(backfill.ns)' : i \in Missing(backfill.ns) /\ i \in Stored /\ i # j
    BY <1>4, <1>9 DEF Missing
  <2>3. \A i \in Missing(backfill.ns)' \ DOMAIN backfill.todo : SelfNormal(backfill.config, rows'[i])
    BY <2>2, <1>2, <1>4 DEF FactsInv, BackfillKnows, SelfNormal, Stored
  <2> QED
    BY <2>1, <2>3, <1>4 DEF BackfillKnows, SelfNormal
<1>11. FactTwiceOnlyConcurrent'
  <2> SUFFICES ASSUME NEW i \in Valid', NEW k \in Valid', i # k, i \in seen'[k],
                      rows'[i].subject = rows'[k].subject,
                      rows'[i].normalized = rows'[k].normalized
               PROVE  FALSE
    BY DEF FactTwiceOnlyConcurrent
  <2>1. k \in DOMAIN rows /\ i \in seen[k]
    BY <1>1, <1>3, <1>4 DEF Valid, Stored
  <2>2. i # j /\ i \in Valid /\ i \in Stored /\ i \in DOMAIN rows /\ i \notin job[j].superseded
    BY <2>1, <1>3, <1>7 DEF Valid, Stored
  <2>3. rows'[i].subject = rows[i].subject /\ rows'[i].normalized = rows[i].normalized
    BY <2>2, <1>2
  <2>4. CASE k = j
    BY <2>1, <2>2, <2>3, <2>4, <1>2 DEF FactsInv, ChecksHold
  <2>5. CASE k # j
    <3>1. k \in Valid /\ k \in Stored /\ k \in DOMAIN rows
      BY <2>5, <1>3 DEF Valid, Stored
    <3> QED
      BY <2>1, <2>2, <2>3, <2>5, <3>1, <1>2 DEF FactsInv, FactTwiceOnlyConcurrent
  <2> QED
    BY <2>4, <2>5
<1>12. BackfillCompletes'
  <2>1. \A i \in Missing(filled.ns)' : i \in Missing(filled.ns) /\ i \in Stored /\ i # j
    BY <1>4, <1>9 DEF Missing
  <2> QED
    BY <2>1, <1>2, <1>4 DEF FactsInv, BackfillCompletes, SelfNormal, Stored
<1> QED
  BY <1>6, <1>8, <1>10, <1>11, <1>12 DEF FactsInv

\* A sequence of sets with the same length, from a function.
LEMMA SeenType ==
  ASSUME FactsTypeOK, NEW f \in [DOMAIN seen -> SUBSET DOMAIN rows]
  PROVE  f \in Seq(SUBSET DOMAIN rows) /\ Len(f) = Len(rows) /\ DOMAIN f = DOMAIN seen
<1>1. DOMAIN seen = 1..Len(seen) /\ Len(seen) \in Nat /\ Len(seen) = Len(rows)
  BY DEF FactsTypeOK
<1> QED
  BY <1>1, SeqOfFunction

\* A step that ends stores, and lets the ended ones forget what they saw.
LEMMA JobsEndKeeps ==
  ASSUME FactsInv, NEW ended \in SUBSET DOMAIN job,
         DOMAIN job' = DOMAIN job \ ended, \A k \in DOMAIN job' : job'[k] = job[k],
         seen' \in [DOMAIN seen -> SUBSET DOMAIN rows],
         \A k \in DOMAIN seen : seen'[k] = IF k \in ended THEN {} ELSE seen[k],
         config' \in Configs, UNCHANGED <<rows, backfill, filled>>
  PROVE  FactsInv'
<1>1. DOMAIN seen = DOMAIN rows
  BY DEF FactsInv, FactsTypeOK
<1>2. seen' \in Seq(SUBSET DOMAIN rows) /\ Len(seen') = Len(rows)
  BY SeenType DEF FactsInv
<1>3. Stored' = Stored /\ Valid' = Valid
  BY DEF Stored, Valid
<1>4. FactsTypeOK'
  BY <1>2 DEF FactsInv, FactsTypeOK
<1>5. ChecksHold'
  BY <1>1, <1>3 DEF FactsInv, FactsTypeOK, ChecksHold, Stored
<1>6. BackfillKnows' /\ BackfillCompletes'
  BY <1>3 DEF FactsInv, BackfillKnows, BackfillCompletes, Missing, SelfNormal
<1>7. FactTwiceOnlyConcurrent'
  BY <1>1, <1>3 DEF FactsInv, FactTwiceOnlyConcurrent, Valid, Stored
<1> QED
  BY <1>4, <1>5, <1>6, <1>7 DEF FactsInv

LEMMA AbandonKeeps ==
  ASSUME FactsInv, NEW j \in DOMAIN job, Abandon(j)
  PROVE  FactsInv'
<1>1. /\ DOMAIN job' = DOMAIN job \ {j} /\ \A k \in DOMAIN job' : job'[k] = job[k]
      /\ UNCHANGED <<config, rows, backfill, filled>>
  BY DEF Abandon, EndJob
<1>2. seen \in [DOMAIN seen -> SUBSET DOMAIN rows]
  BY DEF FactsInv, FactsTypeOK
<1>3. /\ seen' \in [DOMAIN seen -> SUBSET DOMAIN rows]
      /\ \A k \in DOMAIN seen : seen'[k] = IF k \in {j} THEN {} ELSE seen[k]
  BY <1>2 DEF Abandon
<1>4. config' \in Configs
  BY <1>1 DEF FactsInv, FactsTypeOK
<1> QED
  BY <1>1, <1>3, <1>4, JobsEndKeeps

LEMMA RestartKeeps ==
  ASSUME FactsInv, NEW c \in Configs, Restart(c)
  PROVE  FactsInv'
<1>1. /\ DOMAIN job' = DOMAIN job \ DOMAIN job /\ \A k \in DOMAIN job' : job'[k] = job[k]
      /\ config' \in Configs /\ UNCHANGED <<rows, backfill, filled>>
  BY DEF Restart
<1>2. seen \in [DOMAIN seen -> SUBSET DOMAIN rows]
  BY DEF FactsInv, FactsTypeOK
<1>3. /\ seen' \in [DOMAIN seen -> SUBSET DOMAIN rows]
      /\ \A k \in DOMAIN seen : seen'[k] = IF k \in DOMAIN job THEN {} ELSE seen[k]
  BY <1>2 DEF Restart
<1> QED
  BY <1>1, <1>3, JobsEndKeeps

LEMMA ForgetKeeps ==
  ASSUME FactsInv, NEW j \in Stored, Forget(j)
  PROVE  FactsInv'
<1>1. /\ rows \in Seq(Row \cup {NoRow}) /\ Len(rows) \in Nat /\ DOMAIN rows = 1..Len(rows)
      /\ j \in DOMAIN rows /\ DOMAIN seen = DOMAIN rows
  BY DEF FactsInv, FactsTypeOK, Stored
<1>2. /\ rows' \in Seq(Row \cup {NoRow}) /\ Len(rows') = Len(rows) /\ DOMAIN rows' = DOMAIN rows
      /\ rows'[j] = NoRow /\ \A k \in DOMAIN rows : k # j => rows'[k] = rows[k]
  BY <1>1 DEF Forget
<1>3. seen' = [k \in DOMAIN seen |-> IF k = j THEN {} ELSE seen[k] \ {j}]
  BY DEF Forget
<1>4. seen' \in Seq(SUBSET DOMAIN rows') /\ Len(seen') = Len(rows') /\ DOMAIN seen' = DOMAIN rows
  <2>1. seen \in [DOMAIN seen -> SUBSET DOMAIN rows]
    BY DEF FactsInv, FactsTypeOK
  <2>2. seen' \in [DOMAIN seen -> SUBSET DOMAIN rows]
    BY <2>1, <1>3
  <2> QED
    BY <2>2, <1>1, <1>2, SeenType DEF FactsInv
<1>5. \A k \in DOMAIN rows : \A i \in seen'[k] : i # j /\ i \in seen[k]
  BY <1>1, <1>3
<1> HIDE <1>3
<1>6. Stored' = Stored \ {j} /\ Valid' = Valid \ {j} /\ \A k \in Stored' : rows'[k] = rows[k]
  BY <1>1, <1>2 DEF Stored, Valid
<1>7. UNCHANGED <<config, job, backfill, filled>>
  BY DEF Forget
<1>8. FactsTypeOK'
  BY <1>1, <1>2, <1>4, <1>7 DEF FactsInv, FactsTypeOK
<1>9. ChecksHold'
  <2>1. \A k \in Stored' : k \in DOMAIN rows /\ k \in Stored /\ rows'[k] = rows[k]
    BY <1>6 DEF Stored
  <2>2. \A k \in DOMAIN job : k \in DOMAIN rows
    BY DEF FactsInv, FactsTypeOK
  <2>3. \A k \in Valid' : k \in Stored' /\ k \in Valid
    BY <1>6 DEF Valid
  <2>4. \A k \in DOMAIN job' : rows'[k] = NoRow
    BY <2>2, <1>2, <1>7 DEF FactsInv, ChecksHold
  <2>5. \A k \in DOMAIN rows' : \A i \in seen'[k] : i \in Stored' /\ rows'[i].normalized # None
    <3> TAKE k \in DOMAIN rows'
    <3> TAKE i \in seen'[k]
    <3>1. i # j /\ i \in seen[k] /\ k \in DOMAIN rows
      BY <1>2, <1>5
    <3>2. i \in Stored /\ rows[i].normalized # None
      BY <3>1 DEF FactsInv, ChecksHold
    <3> QED
      BY <3>1, <3>2, <1>6
  <2>6. \A k \in Stored' : rows'[k].normalized = None => seen'[k] = {}
    BY <2>1, <1>5 DEF FactsInv, ChecksHold
  <2>7. ASSUME NEW k \in DOMAIN job', NEW i \in seen'[k] \cap Valid',
               rows'[i].subject = job'[k].memory.subject,
               rows'[i].normalized = job'[k].memory.normalized
        PROVE  i \in job'[k].superseded
    <3>1. k \in DOMAIN job /\ i \in seen[k] \cap Valid /\ rows'[i] = rows[i] /\ job'[k] = job[k]
      BY <2>1, <2>2, <2>3, <1>5, <1>7
    <3> QED
      BY <2>7, <3>1 DEF FactsInv, ChecksHold
  <2> QED
    BY <2>4, <2>5, <2>6, <2>7 DEF ChecksHold
<1>10. BackfillKnows' /\ BackfillCompletes'
  BY <1>6, <1>7 DEF FactsInv, BackfillKnows, BackfillCompletes, Missing, SelfNormal
<1>11. FactTwiceOnlyConcurrent'
  <2>1. \A k \in Valid' : k \in DOMAIN rows /\ k \in Valid /\ rows'[k] = rows[k]
    BY <1>6 DEF Valid, Stored
  <2> QED
    BY <2>1, <1>5 DEF FactsInv, FactTwiceOnlyConcurrent
<1> QED
  BY <1>8, <1>9, <1>10, <1>11 DEF FactsInv

LEMMA StartBackfillKeeps ==
  ASSUME FactsInv, NEW c, NEW ns, StartBackfill(c, ns)
  PROVE  FactsInv'
<1> DEFINE todo == [i \in Missing(ns) |-> rows[i]]
<1>1. /\ backfill' = [on |-> TRUE, config |-> c, ns |-> ns, todo |-> todo]
      /\ UNCHANGED <<config, rows, job, filled, seen>>
  BY DEF StartBackfill
<1>2. /\ DOMAIN todo = Missing(ns) /\ \A i \in Missing(ns) : todo[i] = rows[i]
  OBVIOUS
<1> HIDE DEF todo
<1>3. /\ backfill'.on = TRUE /\ backfill'.config = c /\ backfill'.ns = ns /\ backfill'.todo = todo
  BY <1>1
<1>4. \A i \in Missing(ns) :
        /\ i \in DOMAIN rows /\ i \in Stored /\ rows[i] \in Row /\ rows[i].normalized = None
        /\ i \notin DOMAIN job
  BY DEF FactsInv, FactsTypeOK, ChecksHold, Missing, Stored
<1>5. Stored' = Stored /\ Valid' = Valid
  BY <1>1 DEF Stored, Valid, Missing
<1>6. FactsTypeOK'
  BY <1>1, <1>2, <1>3, <1>4 DEF FactsInv, FactsTypeOK
<1>7. ChecksHold' /\ FactTwiceOnlyConcurrent'
  BY <1>1, <1>5 DEF FactsInv, ChecksHold, FactTwiceOnlyConcurrent
<1>8. BackfillCompletes'
  BY <1>1 DEF FactsInv, BackfillCompletes, Missing, Stored, SelfNormal
<1>9. BackfillKnows'
  <2>1. Missing(backfill.ns)' = DOMAIN todo
    BY <1>1, <1>2, <1>3 DEF Missing, Stored
  <2> QED
    BY <2>1, <1>1, <1>2, <1>3, <1>4, <1>5 DEF BackfillKnows
<1> QED
  BY <1>6, <1>7, <1>8, <1>9 DEF FactsInv

LEMMA EndBackfillKeeps ==
  ASSUME FactsInv, EndBackfill
  PROVE  FactsInv'
<1>1. backfill # NoBackfill /\ backfill' = NoBackfill /\ UNCHANGED <<config, rows, job, seen>>
  BY DEF EndBackfill, NoBackfill
<1>2. Stored' = Stored /\ Valid' = Valid
  BY <1>1 DEF Stored, Valid
<1>3. FactsTypeOK' /\ ChecksHold' /\ BackfillKnows' /\ FactTwiceOnlyConcurrent'
  BY <1>1, <1>2
     DEF FactsInv, FactsTypeOK, ChecksHold, BackfillKnows, FactTwiceOnlyConcurrent
<1>4. BackfillCompletes'
  <2>1. CASE DOMAIN backfill.todo = {}
    <3>1. filled'.config = backfill.config /\ filled'.ns = backfill.ns
      BY <2>1 DEF EndBackfill
    <3>2. Missing(filled.ns)' = Missing(backfill.ns)
      BY <3>1, <1>1, <1>2 DEF Missing
    <3> QED
      BY <2>1, <3>1, <3>2, <1>1 DEF FactsInv, BackfillKnows, BackfillCompletes, SelfNormal
  <2>2. CASE DOMAIN backfill.todo # {}
    BY <2>2, <1>1 DEF EndBackfill, FactsInv, BackfillCompletes, Missing, Stored, SelfNormal
  <2> QED
    BY <2>1, <2>2
<1> QED
  BY <1>3, <1>4 DEF FactsInv

\* Visiting a row touches only one that was read without a normal form and was not checked.
LEMMA BackfillRowKeeps ==
  ASSUME FactsInv, backfill.on, NEW j \in DOMAIN backfill.todo, BackfillRow(j)
  PROVE  FactsInv'
<1> DEFINE row == backfill.todo[j]
           p == Normalize(NormalizerOf(backfill.config, row.ns), row.predicate)
           todo == [k \in DOMAIN backfill.todo \ {j} |-> backfill.todo[k]]
<1>1. backfill # NoBackfill
  BY DEF NoBackfill
<1>2. /\ rows \in Seq(Row \cup {NoRow}) /\ Len(rows) \in Nat /\ DOMAIN rows = 1..Len(rows)
      /\ DOMAIN seen = DOMAIN rows /\ j \in DOMAIN rows /\ row \in Row
  BY <1>1 DEF FactsInv, FactsTypeOK
<1>3. p \in Str /\ p # None
  BY <1>2, NormalizeType DEF Row
<1>4. rows' = IF p = row.predicate THEN rows ELSE SetNormalizedPredicate(j, p)
  BY DEF BackfillRow
<1>5. /\ backfill' = [on |-> TRUE, config |-> backfill.config, ns |-> backfill.ns, todo |-> todo]
      /\ UNCHANGED <<config, job, filled, seen>>
  <2>1. backfill = [on |-> TRUE, config |-> backfill.config, ns |-> backfill.ns,
                    todo |-> backfill.todo]
    BY <1>1 DEF FactsInv, FactsTypeOK
  <2>2. backfill' = [backfill EXCEPT !.todo = todo] /\ UNCHANGED <<config, job, filled, seen>>
    BY DEF BackfillRow
  <2> HIDE DEF todo
  <2> QED
    BY <2>1, <2>2
<1>6. DOMAIN todo = DOMAIN backfill.todo \ {j} /\ \A k \in DOMAIN todo : todo[k] = backfill.todo[k]
  OBVIOUS
<1>7. j \in Stored =>
        /\ rows[j].normalized = None /\ rows[j].ns = row.ns /\ rows[j].predicate = row.predicate
        /\ rows[j] \in Row
  BY <1>1, <1>2 DEF FactsInv, BackfillKnows, Stored
<1>8. p = row.predicate => SelfNormal(backfill.config, row)
  BY DEF SelfNormal, NormalizerOf
<1> HIDE DEF row, p, todo
<1>9. /\ backfill'.config = backfill.config /\ backfill'.ns = backfill.ns /\ backfill'.todo = todo
      /\ backfill' # NoBackfill
  BY <1>5 DEF NoBackfill
<1>10. /\ rows' \in Seq(Row \cup {NoRow}) /\ Len(rows') = Len(rows) /\ DOMAIN rows' = DOMAIN rows
       /\ \A k \in DOMAIN rows : k # j => rows'[k] = rows[k]
       /\ j \notin Stored => rows'[j] = NoRow
       /\ j \in Stored =>
            /\ rows'[j] \in Row /\ rows'[j].valid = rows[j].valid
            /\ rows'[j].ns = rows[j].ns /\ rows'[j].predicate = rows[j].predicate
            /\ rows'[j].normalized = IF p = row.predicate THEN None ELSE p
  <2>1. CASE p = row.predicate \/ j \notin Stored
    <3>1. rows' = rows
      BY <2>1, <1>4 DEF SetNormalizedPredicate
    <3>2. j \notin Stored => rows[j] = NoRow
      BY <1>2 DEF Stored
    <3> QED
      BY <2>1, <3>1, <3>2, <1>2, <1>7
  <2>2. CASE p # row.predicate /\ j \in Stored
    <3> DEFINE new == [rows[j] EXCEPT !.normalized = p]
    <3>1. /\ new \in Row /\ new.valid = rows[j].valid /\ new.ns = rows[j].ns
          /\ new.predicate = rows[j].predicate /\ new.normalized = p
      BY <2>2, <1>3, <1>7 DEF Row
    <3>2. rows' = [rows EXCEPT ![j] = new]
      BY <2>2, <1>4 DEF SetNormalizedPredicate
    <3> HIDE DEF new
    <3> QED
      BY <2>2, <3>1, <3>2, <1>2
  <2> QED
    BY <2>1, <2>2
<1>11. Stored' = Stored /\ Valid' = Valid
  <2>1. j \in Stored => rows'[j] # NoRow
    BY <1>10, RowIsThere
  <2>2. \A k \in DOMAIN rows : (rows'[k] # NoRow) <=> (rows[k] # NoRow)
    BY <2>1, <1>2, <1>10 DEF Stored
  <2>3. Stored' = Stored
    BY <2>2, <1>10 DEF Stored
  <2>4. \A k \in Stored : rows'[k].valid = rows[k].valid
    BY <1>10 DEF Stored
  <2> QED
    BY <2>3, <2>4 DEF Valid
<1>12. \A k \in DOMAIN rows : j \notin seen[k]
  BY <1>7 DEF FactsInv, ChecksHold
<1>13. j \in Stored => seen[j] = {}
  BY <1>7 DEF FactsInv, ChecksHold
<1>14. j \notin DOMAIN job
  BY <1>1 DEF FactsInv, BackfillKnows
<1>15. FactsTypeOK'
  BY <1>1, <1>2, <1>5, <1>6, <1>9, <1>10 DEF FactsInv, FactsTypeOK
<1>16. ChecksHold'
  <2>1. \A k \in DOMAIN job : k \in DOMAIN rows
    BY DEF FactsInv, FactsTypeOK
  <2>2. \A k \in DOMAIN rows : \A i \in seen[k] : i \in Stored /\ i \in DOMAIN rows /\ rows'[i] = rows[i]
    BY <1>10, <1>12 DEF FactsInv, ChecksHold, Stored
  <2>3. \A k \in Stored : rows'[k].normalized = None => seen[k] = {}
    BY <1>10, <1>13 DEF FactsInv, ChecksHold, Stored
  <2> QED
    BY <2>1, <2>2, <2>3, <1>5, <1>10, <1>11, <1>14 DEF FactsInv, ChecksHold
<1>17. \A k \in Stored : rows'[k].normalized = None =>
         /\ rows[k].normalized = None /\ rows'[k].ns = rows[k].ns
         /\ rows'[k].predicate = rows[k].predicate
         /\ k = j => p = row.predicate
  BY <1>3, <1>7, <1>10 DEF Stored
<1>18. BackfillKnows'
  <2>1. \A k \in DOMAIN todo :
          /\ k \notin DOMAIN job
          /\ k \in Stored => /\ rows'[k].normalized = None
                             /\ rows'[k].ns = todo[k].ns /\ rows'[k].predicate = todo[k].predicate
    BY <1>1, <1>6, <1>10 DEF FactsInv, BackfillKnows, Stored
  <2>2. ASSUME NEW k \in Missing(backfill.ns)', k \notin DOMAIN todo
        PROVE  SelfNormal(backfill.config, rows'[k])
    <3>1. /\ k \in Stored /\ rows'[k].normalized = None /\ rows[k].normalized = None
          /\ rows'[k].ns = rows[k].ns /\ rows'[k].predicate = rows[k].predicate
          /\ rows'[k].ns \in backfill.ns
      BY <2>2, <1>9, <1>11, <1>17 DEF Missing
    <3>2. CASE k = j
      BY <3>1, <3>2, <1>7, <1>8, <1>17 DEF SelfNormal
    <3>3. CASE k # j
      <4>1. k \in Missing(backfill.ns) \ DOMAIN backfill.todo
        BY <2>2, <3>1, <3>3, <1>6 DEF Missing
      <4> QED
        BY <4>1, <3>1, <1>1 DEF FactsInv, BackfillKnows, SelfNormal
    <3> QED
      BY <3>2, <3>3
  <2> QED
    BY <2>1, <2>2, <1>5, <1>9, <1>11 DEF BackfillKnows, SelfNormal
<1>19. FactTwiceOnlyConcurrent'
  <2> SUFFICES ASSUME NEW i \in Valid', NEW k \in Valid', i # k, i \in seen'[k],
                      rows'[i].subject = rows'[k].subject,
                      rows'[i].normalized = rows'[k].normalized
               PROVE  FALSE
    BY DEF FactTwiceOnlyConcurrent
  <2>1. i \in Valid /\ k \in Valid /\ k \in Stored /\ {i, k} \subseteq DOMAIN rows /\ i \in seen[k]
    BY <1>5, <1>11 DEF Valid, Stored
  <2>2. i # j /\ k # j
    BY <2>1, <1>12, <1>13
  <2> QED
    BY <2>1, <2>2, <1>10 DEF FactsInv, FactTwiceOnlyConcurrent
<1>20. BackfillCompletes'
  <2>1. \A k \in Missing(filled.ns)' :
          /\ k \in Missing(filled.ns) /\ rows'[k].ns = rows[k].ns
          /\ rows'[k].predicate = rows[k].predicate
    BY <1>5, <1>11, <1>17 DEF Missing
  <2> QED
    BY <2>1, <1>5 DEF FactsInv, BackfillCompletes, SelfNormal
<1> QED
  BY <1>15, <1>16, <1>18, <1>19, <1>20 DEF FactsInv

LEMMA NextKeeps == FactsInv /\ [Next]_vars => FactsInv'
<1> SUFFICES ASSUME FactsInv, [Next]_vars
             PROVE  FactsInv'
  OBVIOUS
<1>1. ASSUME NEW in \in Inputs, Check(in) \/ \E t \in Valid : Supersede(in, t)
      PROVE  FactsInv'
  BY <1>1, CheckKeeps, SupersedeKeeps
<1>2. ASSUME NEW i \in DOMAIN job, Commit(i) \/ Abandon(i)
      PROVE  FactsInv'
  BY <1>2, CommitKeeps, AbandonKeeps
<1>3. ASSUME NEW i \in Stored, Forget(i)
      PROVE  FactsInv'
  BY <1>3, ForgetKeeps
<1>4. ASSUME NEW c \in Configs, Restart(c)
      PROVE  FactsInv'
  BY <1>4, RestartKeeps
<1>5. ASSUME NEW c, NEW ns, StartBackfill(c, ns)
      PROVE  FactsInv'
  BY <1>5, StartBackfillKeeps
<1>6. ASSUME backfill.on, NEW i \in DOMAIN backfill.todo, BackfillRow(i)
      PROVE  FactsInv'
  BY <1>6, BackfillRowKeeps
<1>7. CASE EndBackfill
  BY <1>7, EndBackfillKeeps
<1>8. CASE UNCHANGED vars
  BY <1>8 DEF vars, FactsInv, FactsTypeOK, ChecksHold, BackfillKnows, FactTwiceOnlyConcurrent,
              BackfillCompletes, Stored, Valid, Missing, SelfNormal
<1> QED
  BY <1>1, <1>2, <1>3, <1>4, <1>5, <1>6, <1>7, <1>8 DEF Next

-----------------------------------------------------------------------------
\* What checks, commits, deletions, restarts and a backfill know of the rows holds in every
\* state, for any configurations, inputs and rows that an older build left (conflict::run,
\* commit_memory_write, backfill_normalized_predicates).
THEOREM FactsInvariantHolds == FactsSpec => []FactsInv
<1>1. FactsInv /\ [Next]_vars => FactsInv'
  BY NextKeeps
<1> QED
  BY <1>1, InitHolds, PTL DEF FactsSpec

\* A checked store never leaves beside itself a fact that was in place when its check looked:
\* two valid rows of one fact come of overlapping stores, of supersedes or of a backfill.
THEOREM FactsTwiceOnlyConcurrent == FactsSpec => []FactTwiceOnlyConcurrent
<1>1. FactsInv => FactTwiceOnlyConcurrent
  BY DEF FactsInv
<1> QED
  BY <1>1, FactsInvariantHolds, PTL

\* After a complete backfill, rows of its namespaces lack a normal form only where the predicate
\* is one, whatever is stored, deleted or restarted during and after the command.
THEOREM BackfillsComplete == FactsSpec => []BackfillCompletes
<1>1. FactsInv => BackfillCompletes
  BY DEF FactsInv
<1> QED
  BY <1>1, FactsInvariantHolds, PTL
-----------------------------------------------------------------------------
(* The passes of reflect *)

LEMMA DivMod ==
  ASSUME NEW n \in Nat, NEW q \in Nat, NEW r \in Nat, r < n
  PROVE  (q * n + r) \div n = q /\ (q * n + r) % n = r
<1> DEFINE x == q * n + r
           d == x \div n
           m == x % n
<1>1. x \in Nat /\ n > 0
  OBVIOUS
<1>2. d \in Int /\ m \in 0..(n - 1)
  BY <1>1
<1>3. x = n * d + m
  BY <1>1
<1> HIDE DEF d, m
<1>4. q * n + r = n * d + m
  BY <1>3
<1>5. ~(d > q)
  <2> SUFFICES ASSUME d >= q + 1
               PROVE  FALSE
    BY <1>2
  <2>1. (d - (q + 1)) * n >= 0
    BY <1>1, <1>2
  <2>2. n * d >= n * q + n
    BY <2>1, <1>2
  <2> QED
    BY <2>2, <1>2, <1>4
<1>6. ~(d < q)
  <2> SUFFICES ASSUME q >= d + 1
               PROVE  FALSE
    BY <1>2
  <2>1. (q - (d + 1)) * n >= 0
    BY <1>1, <1>2
  <2>2. q * n >= n * d + n
    BY <2>1, <1>2
  <2> QED
    BY <2>2, <1>2, <1>4
<1> QED
  BY <1>2, <1>4, <1>5, <1>6 DEF d, m

\* The loops visit every pair of memories.
LEMMA PairsVisitAll ==
  ASSUME rows \in Seq(Row \cup {NoRow})
  PROVE  /\ Len(Pairs) \in Nat /\ DOMAIN Pairs = 1..Len(Pairs)
         /\ \A i, j \in DOMAIN rows : \E k \in DOMAIN Pairs : Pairs[k] = <<i, j>>
<1> DEFINE n == Len(rows)
<1>1. n \in Nat /\ n * n \in Nat /\ DOMAIN rows = 1..n
  OBVIOUS
<1>2. Pairs = [k \in 1..(n * n) |-> <<1 + ((k - 1) \div n), 1 + ((k - 1) % n)>>]
  BY DEF Pairs
<1>3. Len(Pairs) = n * n /\ DOMAIN Pairs = 1..(n * n)
  BY <1>1, <1>2
<1>4. ASSUME NEW i \in 1..n, NEW j \in 1..n
      PROVE  \E k \in DOMAIN Pairs : Pairs[k] = <<i, j>>
  <2> DEFINE k == (i - 1) * n + (j - 1) + 1
  <2>1. i - 1 \in Nat /\ j - 1 \in Nat /\ j - 1 < n /\ n - i \in Nat
    BY <1>1
  <2>2. (i - 1) * n \in Nat /\ (n - i) * n >= 0
    BY <2>1, <1>1
  <2>3. (n - i) * n = n * n - (i - 1) * n - n
    BY <1>1
  <2>4. k \in 1..(n * n)
    BY <2>1, <2>2, <2>3, <1>1
  <2>5. k - 1 = (i - 1) * n + (j - 1)
    BY <2>1, <2>2
  <2> HIDE DEF k, n
  <2>6. \A q, r \in Nat : r < n => (q * n + r) \div n = q /\ (q * n + r) % n = r
    BY <1>1, DivMod
  <2>7. (k - 1) \div n = i - 1 /\ (k - 1) % n = j - 1
    BY <2>1, <2>5, <2>6
  <2>8. Pairs[k] = <<i, j>>
    BY <2>1, <2>4, <2>7, <1>1, <1>2
  <2> QED
    BY <2>4, <2>8, <1>3
<1> QED
  BY <1>1, <1>3, <1>4

\* What a pass has matched: passing a pair over neither hides nor adds a memory.
LEMMA FindPairsIs ==
  ASSUME rows \in Seq(Row \cup {NoRow}), NEW classified, NEW matched
  PROVE  FindPairs(classified, matched) =
           matched \cup UNION {{Pairs[l][1], Pairs[l][2]} :
                                 l \in {k \in DOMAIN Pairs : Pairs[k] \in classified}}
<1> DEFINE n == Len(Pairs)
           Both(l) == {Pairs[l][1], Pairs[l][2]}
           Closed(k) == matched \cup UNION {Both(l) : l \in {x \in 1..k : Pairs[x] \in classified}}
           Visit(before, k) ==
             IF Pairs[k] \in classified /\ ~PassedOver(Pairs[k], before)
             THEN before \cup Both(k) ELSE before
           After(g) == [k \in 0..n |-> IF k = 0 THEN matched ELSE Visit(g[k - 1], k)]
           closed == [k \in 0..n |-> Closed(k)]
           found == CHOOSE g : g = After(g)
<1>1. n \in Nat /\ DOMAIN Pairs = 1..n
  BY PairsVisitAll
<1>2. Closed(0) = matched
  OBVIOUS
<1>3. \A k \in 1..n : Closed(k) = Visit(Closed(k - 1), k)
  <2> TAKE k \in 1..n
  <2>1. 1..k = 1..(k - 1) \cup {k} /\ k \notin 1..(k - 1)
    BY <1>1
  <2>2. CASE Pairs[k] \notin classified
    <3>1. {x \in 1..k : Pairs[x] \in classified} = {x \in 1..(k - 1) : Pairs[x] \in classified}
      BY <2>1, <2>2
    <3>2. Closed(k) = Closed(k - 1)
      BY <3>1
    <3> QED
      BY <2>2, <3>2
  <2>3. CASE Pairs[k] \in classified
    <3>1. {x \in 1..k : Pairs[x] \in classified} =
            {x \in 1..(k - 1) : Pairs[x] \in classified} \cup {k}
      BY <2>1, <2>3
    <3>2. Closed(k) = Closed(k - 1) \cup Both(k)
      BY <3>1
    <3> HIDE DEF Closed
    <3>3. PassedOver(Pairs[k], Closed(k - 1)) => Both(k) \subseteq Closed(k - 1)
      BY DEF PassedOver
    <3> QED
      BY <2>3, <3>2, <3>3
  <2> QED
    BY <2>2, <2>3
<1> HIDE DEF Closed, Visit
<1>4. closed = After(closed)
  <2>1. \A k \in 1..n : k - 1 \in 0..n /\ closed[k - 1] = Closed(k - 1)
    BY <1>1
  <2> QED
    BY <2>1, <1>1, <1>2, <1>3
<1>5. found = After(found)
  BY <1>4
<1> HIDE DEF found
<1>6. found[0] = matched /\ \A k \in 1..n : found[k] = Visit(found[k - 1], k)
  BY <1>1, <1>5
<1>7. \A k \in 0..n : found[k] = Closed(k)
  <2> DEFINE Wrong == {k \in 0..n : found[k] # Closed(k)}
  <2> SUFFICES ASSUME Wrong # {}
               PROVE  FALSE
    OBVIOUS
  <2>1. Wrong \in SUBSET Nat
    BY <1>1
  <2>2. PICK k \in Wrong : \A y \in Wrong : k =< y
    BY <2>1, MinIsLeast
  <2>3. k \in 1..n
    BY <2>2, <1>1, <1>2, <1>6
  <2>4. k - 1 \in 0..n /\ k - 1 \notin Wrong
    BY <2>2, <2>3, <1>1
  <2>5. found[k - 1] = Closed(k - 1)
    BY <2>4
  <2> QED
    BY <2>2, <2>3, <2>5, <1>3, <1>6
<1>8. FindPairs(classified, matched) = found[n]
  BY DEF FindPairs, found, After, Visit, Both
<1> QED
  BY <1>1, <1>7, <1>8 DEF Closed

LEMMA Matches ==
  ASSUME FactsTypeOK, NEW classified, NEW matched
  PROVE  /\ matched \subseteq FindPairs(classified, matched)
         /\ \A i, j \in DOMAIN rows : <<i, j>> \in classified =>
              {i, j} \subseteq FindPairs(classified, matched)
<1> DEFINE Both(l) == {Pairs[l][1], Pairs[l][2]}
           found == FindPairs(classified, matched)
<1>1. rows \in Seq(Row \cup {NoRow})
  BY DEF FactsTypeOK
<1>2. found = matched \cup UNION {Both(l) : l \in {k \in DOMAIN Pairs : Pairs[k] \in classified}}
  BY <1>1, FindPairsIs
<1> HIDE DEF found
<1>3. ASSUME NEW i \in DOMAIN rows, NEW j \in DOMAIN rows, <<i, j>> \in classified
      PROVE  {i, j} \subseteq found
  <2>1. PICK k \in DOMAIN Pairs : Pairs[k] = <<i, j>>
    BY <1>1, PairsVisitAll
  <2>2. Both(k) = {i, j}
    BY <2>1
  <2>3. k \in {x \in DOMAIN Pairs : Pairs[x] \in classified}
    BY <1>3, <2>1
  <2> HIDE DEF Both
  <2>4. Both(k) \subseteq found
    BY <2>3, <1>2
  <2> QED
    BY <2>2, <2>4
<1>4. matched \subseteq found
  BY <1>2
<1> QED
  BY <1>3, <1>4 DEF found

\* Facts with one effective predicate are in one group of the exact pass, if a predicate that one
\* of them is grouped by in lower case is a normal form of the other.
LEMMA OneGroup ==
  ASSUME NEW i, NEW j, SameSubject(i, j), EffectivePredicate(i) = EffectivePredicate(j),
         ~GroupedApart(i, j)
  PROVE  ExactPredicate(i, j)
<1> DEFINE Key(k) == IF rows[k].normalized # None THEN rows[k].normalized
                     ELSE Lower[rows[k].predicate]
<1>1. Key(i) = Key(j)
  <2>1. CASE rows[i].normalized = None /\ rows[j].normalized = None
    BY <2>1 DEF EffectivePredicate
  <2>2. CASE rows[i].normalized # None /\ rows[j].normalized # None
    BY <2>2 DEF EffectivePredicate
  <2>3. CASE rows[i].normalized # None /\ rows[j].normalized = None
    BY <2>3 DEF EffectivePredicate, GroupedApart
  <2>4. CASE rows[i].normalized = None /\ rows[j].normalized # None
    BY <2>4 DEF EffectivePredicate, GroupedApart
  <2> QED
    BY <2>1, <2>2, <2>3, <2>4
<1> QED
  BY <1>1 DEF ExactPredicate, GroupKey, SameSubject

LEMMA ReportComplete == FactsInv => ContradictionsReported
<1> SUFFICES ASSUME FactsInv, NEW n \in NS,
                    NEW i \in ValidSemantics(n), NEW j \in ValidSemantics(n), i < j,
                    DifferentObjects(i, j)
             PROVE  LET report == DetectContradictions(n) IN
                      /\ SameSubject(i, j) /\ SamePredicate(i, j) => {i, j} \subseteq report
                      /\ /\ rows[j].subject \in Aliases(rows[i].subject)
                         /\ EffectivePredicate(i) = EffectivePredicate(j)
                         => {i, j} \cap report # {}
  BY DEF ContradictionsReported
<1> DEFINE mems == ValidSemantics(n)
           differ == {p \in mems \X mems : p[1] < p[2] /\ DifferentObjects(p[1], p[2])}
           same == {p \in differ : ExactPredicate(p[1], p[2])}
           similar == {p \in differ : FuzzyPredicate(p[1], p[2])}
           exact == FindPairs(same, {})
           fuzzy == FindPairs(similar, exact)
           report == DetectContradictions(n)
<1>1. report = fuzzy \cup AliasMatches(mems, fuzzy)
  BY DEF DetectContradictions
<1>2. i \in Valid /\ j \in Valid /\ i \in DOMAIN rows /\ j \in DOMAIN rows
  BY DEF ValidSemantics, Valid, Stored
<1>3. <<i, j>> \in differ
  OBVIOUS
<1>4. /\ ExactPredicate(i, j) => <<i, j>> \in same
      /\ FuzzyPredicate(i, j) => <<i, j>> \in similar
  BY <1>3
<1> HIDE DEF same, similar
<1>5. /\ exact \subseteq fuzzy
      /\ <<i, j>> \in same => {i, j} \subseteq exact
      /\ <<i, j>> \in similar => {i, j} \subseteq fuzzy
  BY <1>2, Matches DEF FactsInv
<1> HIDE DEF exact, fuzzy, report
<1>6. ASSUME SameSubject(i, j), SamePredicate(i, j)
      PROVE  {i, j} \subseteq fuzzy
  <2>1. CASE EffectivePredicate(i) = EffectivePredicate(j)
    <3>1. ExactPredicate(i, j)
      BY <2>1, <1>6, OneGroup DEF SamePredicate
    <3> QED
      BY <3>1, <1>4, <1>5
  <2>2. CASE EffectivePredicate(i) # EffectivePredicate(j)
    BY <2>2, <1>4, <1>5, <1>6 DEF FuzzyPredicate, SamePredicate
  <2> QED
    BY <2>1, <2>2
<1>7. ASSUME rows[j].subject \in Aliases(rows[i].subject),
             EffectivePredicate(i) = EffectivePredicate(j), {i, j} \cap fuzzy = {}
      PROVE  i \in AliasMatches(mems, fuzzy)
  BY <1>7 DEF AliasMatches
<1> QED
  BY <1>1, <1>6, <1>7 DEF report

\* Reflect hides no contradiction, in any state, whatever the similarities, the entities and the
\* groups' names: of two valid facts that disagree about one subject and predicate both are in
\* the report, though the passes share the memories they have matched (detect_contradictions),
\* but for a row of an older build beside one filed under its very predicate, a group's name that
\* is not in lower case.
THEOREM ContradictionsAreReported == FactsSpec => []ContradictionsReported
BY ReportComplete, FactsInvariantHolds, PTL
=============================================================================

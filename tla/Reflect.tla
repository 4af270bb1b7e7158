------------------------------- MODULE Reflect -------------------------------
(***************************************************************************)
(* The contradictions that reflect reports for the facts of a namespace:   *)
(* three passes that share the set of memories already matched.            *)
(*                                                                         *)
(* A function of the rows at one moment: the ids, the rows and the         *)
(* entities are read by three statements, and a store between them is      *)
(* reported by the next reflect.  The cap MAX_SCAN_MEMORIES is not reached.*)
(***************************************************************************)
EXTENDS Facts

ValidSemantics(n) == {i \in Valid : rows[i].ns = n}

EffectivePredicate(i) ==
    IF rows[i].normalized # None THEN rows[i].normalized ELSE rows[i].predicate

\* The key of the exact pass.
GroupKey(i) ==
    <<rows[i].subject,
      IF rows[i].normalized # None THEN rows[i].normalized ELSE Lower[rows[i].predicate]>>

SameSubject(i, j) == rows[i].subject = rows[j].subject
DifferentObjects(i, j) == rows[i].object # rows[j].object

ExactPredicate(i, j) == GroupKey(i) = GroupKey(j)

FuzzyPredicate(i, j) ==
    /\ SameSubject(i, j) /\ EffectivePredicate(i) # EffectivePredicate(j)
    /\ Similarity[<<EffectivePredicate(i), EffectivePredicate(j)>>]
          > REFLECT_FUZZY_PREDICATE_THRESHOLD

\* The pairs of memories in the order the two loops of a group visit them; a pass classifies
\* only the pairs whose second memory comes after the first.
Pairs ==
    LET n == Len(rows)
    IN [k \in 1..(n * n) |-> <<1 + ((k - 1) \div n), 1 + ((k - 1) % n)>>]

\* Mutant: a pair is passed over as soon as one of the two is matched.
PassedOverEither(p, matched) == p[1] \in matched \/ p[2] \in matched

PassedOver(p, matched) == p[1] \in matched /\ p[2] \in matched

\* The memories matched once the pairs that a pass classifies as contradictions are added.
\* Groups are disjoint, so one pass over all pairs visits each group in its order.
FindPairs(classified, matched) ==
    LET found[k \in 0..Len(Pairs)] ==
            IF k = 0 THEN matched
            ELSE LET p == Pairs[k]
                     before == found[k - 1]
                 IN IF p \in classified /\ ~PassedOver(p, before)
                    THEN before \cup {p[1], p[2]} ELSE before
    IN found[Len(Pairs)]

\* build_entity_alias_map: the other names of every entity that has this one.
Aliases(subject) == (UNION {e \in Entities : subject \in e}) \ {subject}

\* Neither memory of an alias pair may have been matched by the passes before.
AliasMatches(mems, matched) ==
    {i \in mems \ matched :
        \E j \in mems \ matched :
            /\ rows[j].subject \in Aliases(rows[i].subject)
            /\ EffectivePredicate(i) = EffectivePredicate(j)
            /\ DifferentObjects(i, j)}

\* The memories of the pairs that are reported.
DetectContradictions(n) ==
    LET mems == ValidSemantics(n)
        differ == {p \in mems \X mems : p[1] < p[2] /\ DifferentObjects(p[1], p[2])}
        exact == FindPairs({p \in differ : ExactPredicate(p[1], p[2])}, {})
        fuzzy == FindPairs({p \in differ : FuzzyPredicate(p[1], p[2])}, exact)
    IN fuzzy \cup AliasMatches(mems, fuzzy)

-----------------------------------------------------------------------------
(* Property *)

\* A row without a normal form is grouped by its predicate in lower case, so a row whose normal
\* form is that predicate, a group's name with a capital in it, is in another group.
GroupedApart(i, j) ==
    /\ (rows[i].normalized = None) # (rows[j].normalized = None)
    /\ Lower[EffectivePredicate(i)] # EffectivePredicate(i)

SamePredicate(i, j) ==
    LET a == EffectivePredicate(i)
        b == EffectivePredicate(j)
    IN \/ a = b /\ ~GroupedApart(i, j)
       \/ a # b /\ Similarity[<<a, b>>] > REFLECT_FUZZY_PREDICATE_THRESHOLD

\* The pairs that are passed over hide no memory: of any two valid facts of a namespace that
\* disagree about one subject and predicate, spelt alike or similarly, both are in the report;
\* if their subjects are two names of one entity, at least one is.  This is what catches the
\* facts that overlapping stores left side by side (detect_contradictions).  Excepted is a row of
\* an older build beside one that is filed under a group's name with a capital in it, which is
\* its predicate (reflect.rs:33-39).  (The older memory of a pair is compared with the younger
\* one, as the loops compare them.)
ContradictionsReported ==
    \A n \in NS : LET report == DetectContradictions(n) IN
        \A i, j \in ValidSemantics(n) : i < j /\ DifferentObjects(i, j) =>
            /\ SameSubject(i, j) /\ SamePredicate(i, j) => {i, j} \subseteq report
            /\ /\ rows[j].subject \in Aliases(rows[i].subject)
               /\ EffectivePredicate(i) = EffectivePredicate(j)
               => {i, j} \cap report # {}
=============================================================================

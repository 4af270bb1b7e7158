----------------------------- MODULE MemoryLife -----------------------------
(***************************************************************************)
(* What the memory service promises of each memory, whatever fails         *)
(* meanwhile: it is born at one moment, at which it takes the place of at  *)
(* most one other; it is replaced by a birth and forgotten by request, and *)
(* nothing else changes it, no crash, no failed call and no recovery, but  *)
(* for one that takes its op from under another process: such a memory may *)
(* be lost.  What clients are told is so.                                  *)
(***************************************************************************)
CONSTANT Id

VARIABLES
    life,       \* [Id -> "unborn", "current", "superseded" or "forgotten"]
    asked,      \* ids somebody asked to forget
    told,       \* [Id -> "none", "stored" or "rejected"], the answer to its store
    reported,   \* ids reported as deleted
    contested   \* ids that a recovery took from under another process

vars == <<life, asked, told, reported, contested>>

\* What an older build stored is there.
Init ==
    /\ life \in [Id -> {"unborn", "current"}]
    /\ asked = {}
    /\ told = [m \in Id |-> IF life[m] = "current" THEN "stored" ELSE "none"]
    /\ reported = {}
    /\ contested = {}

\* A memory that is not current any more stays what it is; a contested one may be lost at birth.
Store(m, replaced) ==
    /\ life[m] = "unborn" /\ told[m] = "none"
    /\ \E born \in {"current", "forgotten"} :
         /\ born = "forgotten" => m \in contested
         /\ life' = [k \in Id |->
                       IF k = m THEN born
                       ELSE IF k \in replaced /\ life[k] = "current" THEN "superseded"
                       ELSE life[k]]
    /\ UNCHANGED <<asked, told, reported, contested>>

AskToForget(ids) ==
    /\ asked' = asked \cup ids
    /\ UNCHANGED <<life, told, reported, contested>>

Forget(m) ==
    /\ m \in asked /\ life[m] \in {"current", "superseded"}
    /\ life' = [life EXCEPT ![m] = "forgotten"]
    /\ UNCHANGED <<asked, told, reported, contested>>

\* What was contested may go, several at a time.
Lose(ids) ==
    /\ ids \subseteq contested
    /\ life' = [m \in Id |-> IF m \in ids /\ life[m] # "unborn" THEN "forgotten" ELSE life[m]]
    /\ UNCHANGED <<asked, told, reported, contested>>

\* By the time its store is answered a memory may have been replaced or forgotten.
Answer(m) ==
    /\ told[m] = "none"
    /\ told' = [told EXCEPT ![m] = IF life[m] = "unborn" THEN "rejected" ELSE "stored"]
    /\ UNCHANGED <<life, asked, reported, contested>>

Report(m) ==
    /\ life[m] = "forgotten"
    /\ reported' = reported \cup {m}
    /\ UNCHANGED <<life, asked, told, contested>>

Contest(ids) ==
    /\ contested' = contested \cup ids
    /\ UNCHANGED <<life, asked, told, reported>>

Next ==
    \/ \E m \in Id : Store(m, {}) \/ \E k \in Id : Store(m, {k})
    \/ \E ids \in SUBSET Id : AskToForget(ids) \/ Contest(ids) \/ Lose(ids)
    \/ \E m \in Id : Forget(m) \/ Answer(m) \/ Report(m)

LifeSpec == Init /\ [][Next]_vars

(***************************************************************************)
(* What it comes to for a client: a stored memory was born, a rejected one *)
(* never is, one that is gone was asked to be or contested, and one that   *)
(* was reported as deleted is gone for good.                               *)
(***************************************************************************)
ToldIsSo ==
    /\ \A m \in Id :
         /\ told[m] = "stored" => life[m] # "unborn"
         /\ told[m] = "rejected" => life[m] = "unborn"
         /\ life[m] = "forgotten" => m \in asked \cup contested
    /\ \A m \in reported : life[m] = "forgotten"

(***************************************************************************)
(* A memory's life only moves forward: what is superseded is never current *)
(* again, and what is forgotten stays forgotten.                           *)
(***************************************************************************)
Forward ==
    \A m \in Id : life'[m] # life[m] =>
        \/ life[m] = "unborn" /\ life'[m] \in {"current", "forgotten"}
        \/ life[m] = "current" /\ life'[m] \in {"superseded", "forgotten"}
        \/ life[m] = "superseded" /\ life'[m] = "forgotten"
OnlyForward == [][Forward]_vars
=============================================================================

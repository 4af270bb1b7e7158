------------------------- MODULE MemoryStoreProofs -------------------------
(***************************************************************************)
(* Proofs about MemoryStore, for any number of processes over a database:  *)
(* its types, its safety properties and the refinement of MemoryLife, by   *)
(* the inductive invariant of MemoryStoreInv.                              *)
(***************************************************************************)
EXTENDS MemoryStoreInv, TLAPS

\* The points a handler can be at.
LEMMA PCs ==
  /\ "idle" \in PC /\ "ok" \in PC /\ "rejected" \in PC
  /\ "check" \in PC /\ "lookup" \in PC /\ "get" \in PC /\ "journal" \in PC
  /\ "upsert" \in PC /\ "remove" \in PC /\ "mark" \in PC
  /\ "commit" \in PC /\ "erase" \in PC /\ "complete" \in PC /\ "bump" \in PC
  BY DEF PC, StorePC, ForgetPC, SettledPC

\* What a dedup, a conflict or a supersede lookup returns is a set of memory ids.
LEMMA CandidatesAreIds ==
  ASSUME TypeOK, NEW r \in Req
  PROVE  Similar(r) \subseteq Req /\ SameFact(r) \subseteq Req /\ Supersedable(r) \subseteq Req
  BY DEF TypeOK, Similar, SameFact, Supersedable

\* A generation counter stays a number (cache.rs bump_generation).
LEMMA CountUp ==
  ASSUME NEW S, NEW f \in [S -> Nat], NEW n
  PROVE  [f EXCEPT ![n] = f[n] + 1] \in [S -> Nat]
<1>1. n \in S => f[n] + 1 \in Nat
  OBVIOUS
<1>2. ASSUME NEW v, n \in S => v \in Nat PROVE [f EXCEPT ![n] = v] \in [S -> Nat]
  BY <1>2
<1> QED
  BY <1>1, <1>2

\* A request is what a client asked for, in the process that serves it.
LEMMA JobsTyped == \A i \in Inputs, p \in Proc : JobOf(i, p) \in Job
  BY InputsAssumption DEF JobOf, Input, Job

\* Every state the program can start in has its type.
LEMMA TypeInit == Init => TypeOK
<1> SUFFICES ASSUME Init PROVE TypeOK
  OBVIOUS
<1>1. proc \in [Proc -> ProcState]
  BY DEF Init, Down, ProcState, ProcPC, Op
<1>2. job \in [Req -> Job \cup {NoJob}] /\ \A r \in Req : pc[r] # "idle" => job[r] \in Job
  <2>1. PICK stored \in [Legacy -> {i \in Inputs : i.kind = "store"}], p \in Proc :
          job = [r \in Req |-> IF r \in Legacy THEN JobOf(stored[r], p) ELSE NoJob]
    BY DEF Init
  <2>2. \A r \in Legacy : JobOf(stored[r], p) \in Job
    BY InputsAssumption, JobsTyped
  <2> QED
    BY <2>1, <2>2 DEF Init
<1>3. pending \subseteq Op
  BY LegacyAssumption DEF Init, Op
<1>4. pc \in [Req -> PC]
  BY PCs DEF Init
<1> QED
  BY LegacyAssumption, <1>1, <1>2, <1>3, <1>4 DEF Init, TypeOK
\* Every step of a request, a recovery or a crash preserves the types.
LEMMA TypeStep == TypeOK /\ [Next]_vars => TypeOK'
<1> SUFFICES ASSUME TypeOK, [Next]_vars PROVE TypeOK'
  OBVIOUS
<1> USE PCs DEF TypeOK, Goto, reqVars, diskVars, journalVars
<1>1. ASSUME NEW r \in Req, NEW p \in Proc, NEW i \in Inputs, Start(r, p, i) PROVE TypeOK'
  <2>1. i \in Input
    BY InputsAssumption
  <2>2. JobOf(i, p) \in Job
    BY JobsTyped
  <2>3. job' \in [Req -> Job \cup {NoJob}] /\ job'[r] \in Job
    BY <1>1, <2>2 DEF Start
  <2>4. todo' \in [Req -> SUBSET Req]
    BY <1>1, <2>1 DEF Start, Input
  <2>5. pc' \in [Req -> PC]
    BY <1>1, <2>1 DEF Start, Input, Kind
  <2> QED
    BY <1>1, <2>3, <2>4, <2>5 DEF Start
<1>2. ASSUME NEW r \in Req, Abandon(r) PROVE TypeOK'
  BY <1>2 DEF Abandon
<1>3. ASSUME NEW r \in Req, DedupCheck(r) PROVE TypeOK'
  <2>1. Similar(r) \subseteq Req /\ SameFact(r) \subseteq Req /\ Supersedable(r) \subseteq Req
    BY CandidatesAreIds
  <2>2. cur' \in [Req -> Req]
    BY <1>3, <2>1 DEF DedupCheck
  <2>3. pc' \in [Req -> PC] /\ \A q \in Req : pc'[q] # "idle" => job[q] \in Job
    BY <1>3 DEF DedupCheck
  <2> QED
    BY <1>3, <2>2, <2>3 DEF DedupCheck
<1>4. ASSUME NEW r \in Req, ConflictCheck(r) PROVE TypeOK'
  <2>1. Similar(r) \subseteq Req /\ SameFact(r) \subseteq Req /\ Supersedable(r) \subseteq Req
    BY CandidatesAreIds
  <2>2. superseded' \in [Req -> SUBSET Req]
    BY <1>4, <2>1 DEF ConflictCheck
  <2>3. pc' \in [Req -> PC] /\ \A q \in Req : pc'[q] # "idle" => job[q] \in Job
    BY <1>4 DEF ConflictCheck
  <2> QED
    BY <1>4, <2>2, <2>3 DEF ConflictCheck
<1>5. ASSUME NEW r \in Req, SupersedeLookup(r) PROVE TypeOK'
  <2>1. Similar(r) \subseteq Req /\ SameFact(r) \subseteq Req /\ Supersedable(r) \subseteq Req
    BY CandidatesAreIds
  <2>2. superseded' \in [Req -> SUBSET Req]
    BY <1>5, <2>1 DEF SupersedeLookup
  <2>3. pc' \in [Req -> PC] /\ \A q \in Req : pc'[q] # "idle" => job[q] \in Job
    BY <1>5 DEF SupersedeLookup
  <2> QED
    BY <1>5, <2>2, <2>3 DEF SupersedeLookup
<1>6. ASSUME NEW r \in Req, GetMemory(r) PROVE TypeOK'
  <2>1. PICK m \in todo[r] :
          \/ cur' = [cur EXCEPT ![r] = m] /\ Goto(r, "journal") /\ UNCHANGED todo
          \/ todo' = [todo EXCEPT ![r] = @ \ {m}] /\ UNCHANGED <<pc, cur>>
    BY <1>6 DEF GetMemory
  <2>2. cur' \in [Req -> Req] /\ todo' \in [Req -> SUBSET Req]
    <3>1. m \in Req /\ todo[r] \ {m} \in SUBSET Req
      OBVIOUS
    <3>2. CASE cur' = [cur EXCEPT ![r] = m] /\ UNCHANGED todo
      BY <3>1, <3>2
    <3>3. CASE todo' = [todo EXCEPT ![r] = @ \ {m}] /\ UNCHANGED cur
      BY <3>1, <3>3
    <3> QED
      BY <2>1, <3>2, <3>3
  <2>3. pc' \in [Req -> PC] /\ \A q \in Req : pc'[q] # "idle" => job[q] \in Job
    BY <1>6, <2>1 DEF GetMemory
  <2> QED
    BY <1>6, <2>2, <2>3 DEF GetMemory
<1>7. ASSUME NEW r \in Req, ForgetDone(r) PROVE TypeOK'
  BY <1>7 DEF ForgetDone
<1>8. ASSUME NEW r \in Req, InsertPendingOp(r) PROVE TypeOK'
  BY <1>8 DEF InsertPendingOp, OpOf, Op, Either
<1>9. ASSUME NEW r \in Req, UpsertVector(r) PROVE TypeOK'
  BY <1>9 DEF UpsertVector
<1>10. ASSUME NEW r \in Req, DeleteVector(r) PROVE TypeOK'
  BY <1>10 DEF DeleteVector
<1>11. ASSUME NEW r \in Req, MarkQdrantWritten(r) PROVE TypeOK'
  BY <1>11 DEF MarkQdrantWritten, OpOf, Either
<1>12. ASSUME NEW r \in Req, CommitMemoryWrite(r) PROVE TypeOK'
  BY <1>12 DEF CommitMemoryWrite, CompleteOpIn, OpOf, Op
<1>13. ASSUME NEW r \in Req, DeleteRow(r) PROVE TypeOK'
  BY <1>13 DEF DeleteRow
<1>14. ASSUME NEW r \in Req, CompleteForget(r) PROVE TypeOK'
  BY <1>14 DEF CompleteForget, CompleteOpIn, OpOf, Op
<1>15. ASSUME NEW r \in Req, BumpGeneration(r) PROVE TypeOK'
  <2>1. gen' \in [Proc -> [NS -> Nat]]
    <3>1. PICK q, n : gen' = [gen EXCEPT ![q] = [gen[q] EXCEPT ![n] = gen[q][n] + 1]]
      BY <1>15 DEF BumpGeneration
    <3>2. q \in Proc => [gen[q] EXCEPT ![n] = gen[q][n] + 1] \in [NS -> Nat]
      BY CountUp
    <3> QED
      BY <3>1, <3>2
  <2>2. deleted' \in [Req -> SUBSET Req] /\ todo' \in [Req -> SUBSET Req]
    BY <1>15 DEF BumpGeneration
  <2>3. pc' \in [Req -> PC] /\ \A q \in Req : pc'[q] # "idle" => job[q] \in Job
    BY <1>15 DEF BumpGeneration, Either
  <2> QED
    BY <1>15, <2>1, <2>2, <2>3 DEF BumpGeneration
<1>16. ASSUME NEW p \in Proc, StartProcess(p) PROVE TypeOK'
  <2>1. proc' \in [Proc -> ProcState]
    BY <1>16 DEF StartProcess, ProcState, ProcPC
  <2> QED
    BY <1>16, <2>1 DEF StartProcess
<1>17. ASSUME NEW p \in Proc, RecoverNext(p) PROVE TypeOK'
  <2>1. PICK op \in proc[p].todo :
          /\ proc' = [proc EXCEPT ![p].pc = RecoveryStep(p, op), ![p].cur = op]
          /\ contested' \in {contested, contested \cup {op[2]}}
    BY <1>17 DEF RecoverNext
  <2>2. RecoveryStep(p, op) \in ProcPC
    BY DEF RecoveryStep, ProcPC
  <2>3. proc' \in [Proc -> ProcState] /\ contested' \subseteq Req
    <3>1. proc[p] \in ProcState
      OBVIOUS
    <3>2. op \in Op /\ op[2] \in Req
      BY <3>1 DEF ProcState, Op
    <3>3. proc'[p] \in ProcState
      BY <2>1, <2>2, <3>1, <3>2 DEF ProcState
    <3> QED
      BY <2>1, <3>2, <3>3
  <2> QED
    BY <1>17, <2>3 DEF RecoverNext
<1>18. ASSUME NEW p \in Proc, RecoverDeleteVector(p) PROVE TypeOK'
  <2>1. proc' \in [Proc -> ProcState]
    BY <1>18 DEF RecoverDeleteVector, ProcState, ProcPC
  <2> QED
    BY <1>18, <2>1 DEF RecoverDeleteVector
<1>19. ASSUME NEW p \in Proc, RecoverDeleteRow(p) PROVE TypeOK'
  <2>1. proc' \in [Proc -> ProcState]
    BY <1>19 DEF RecoverDeleteRow, ProcState, ProcPC
  <2> QED
    BY <1>19, <2>1 DEF RecoverDeleteRow
<1>20. ASSUME NEW p \in Proc, RecoverClear(p) PROVE TypeOK'
  <2>1. proc' \in [Proc -> ProcState]
    <3>1. proc[p] \in ProcState
      OBVIOUS
    <3>2. proc'[p] \in ProcState
      BY <1>20, <3>1 DEF RecoverClear, ProcState, ProcPC
    <3> QED
      BY <1>20, <3>2 DEF RecoverClear
  <2> QED
    BY <1>20, <2>1 DEF RecoverClear
<1>21. ASSUME NEW p \in Proc, RecoverDone(p) PROVE TypeOK'
  <2>1. proc' \in [Proc -> ProcState]
    BY <1>21 DEF RecoverDone, ProcState, ProcPC
  <2> QED
    BY <1>21, <2>1 DEF RecoverDone
<1>22. ASSUME NEW p \in Proc, Crash(p) PROVE TypeOK'
  <2>1. proc' \in [Proc -> ProcState]
    BY <1>22 DEF Crash, Down, ProcState, ProcPC
  <2> QED
    BY <1>22, <2>1 DEF Crash
<1>23. CASE UNCHANGED vars
  BY <1>23 DEF vars
<1> QED
  BY <1>1, <1>2, <1>3, <1>4, <1>5, <1>6, <1>7, <1>8, <1>9, <1>10, <1>11, <1>12,
     <1>13, <1>14, <1>15, <1>16, <1>17, <1>18, <1>19, <1>20, <1>21, <1>22, <1>23
  DEF Next, Work, RequestStep, Recover

(***************************************************************************)
(* The service's state keeps its shape, whatever the number of requests    *)
(* and processes: in particular an invalidation (t_invalid) is always that *)
(* of an existing row and the qdrant_written flag that of a pending op.    *)
(***************************************************************************)
THEOREM TypeCorrect == Spec => []TypeOK
  BY TypeInit, TypeStep, PTL DEF Spec

-----------------------------------------------------------------------------
(* What holds of every memory, contested or not *)

USE DEF Running, SettledPC, IsWrite, IsForget, Committed, ForgetRequested,
    OpOf, Op, Goto, Either, CompleteOpIn, reqVars, diskVars, journalVars

\* The checks find committed memories only.
LEMMA ChecksShared ==
  ASSUME SharedInv, TypeOK', NEW r \in Req,
         DedupCheck(r) \/ ConflictCheck(r) \/ SupersedeLookup(r) \/ GetMemory(r)
  PROVE  SharedInv'
<1> USE DEF SharedInv, TypeOK
<1>1. /\ pc[r] \in {"check", "lookup", "get"} /\ pc'[r] \in {"journal", "rejected", pc[r]}
      /\ pc'[r] = pc[r] \/ pc[r] = "get" => pc'[r] # "rejected" /\ superseded' = superseded
      /\ pc'[r] = "journal" /\ pc[r] # "get" => cur'[r] = cur[r]
      /\ pc'[r] = "journal" /\ pc[r] = "get" => cur'[r] \in rows \cap todo[r]
      /\ pc'[r] = pc[r] => cur'[r] = cur[r]
      /\ todo'[r] \subseteq todo[r]
      /\ \A q \in Req : q # r => /\ pc'[q] = pc[q] /\ cur'[q] = cur[q] /\ todo'[q] = todo[q]
                                /\ superseded'[q] = superseded[q]
      /\ UNCHANGED <<job, deleted, rows, vectors, invalid>>
  <2>1. CASE DedupCheck(r)
    BY <2>1 DEF DedupCheck
  <2>2. CASE ConflictCheck(r)
    BY <2>2 DEF ConflictCheck
  <2>3. CASE SupersedeLookup(r)
    BY <2>3 DEF SupersedeLookup
  <2>4. CASE GetMemory(r)
    BY <2>4 DEF GetMemory
  <2> QED
    BY <2>1, <2>2, <2>3, <2>4
<1>2. KindMatchesPC'
  BY <1>1 DEF KindMatchesPC
<1>3. OnDisk'
  BY <1>1 DEF OnDisk
<1>4. ForgetOrder'
  <2>1. \A m \in Req : Committed(m)' <=> Committed(m)
    BY <1>1
  <2>2. \A f, m \in Req : m \in deleted'[f] => Committed(m)' /\ m \notin rows' \cup vectors'
    BY <1>1, <2>1 DEF ForgetOrder
  <2>3. ASSUME NEW f \in Req, IsForget(f)'
        PROVE  /\ pc'[f] \in {"journal", "remove", "mark", "erase", "complete", "bump"} =>
                    Committed(cur[f])' /\ cur'[f] \in job'[f].ids
               /\ pc'[f] \in {"mark", "erase", "complete", "bump"} => cur'[f] \notin vectors'
               /\ pc'[f] \in {"complete", "bump"} => cur'[f] \notin rows'
               /\ todo'[f] \subseteq job'[f].ids
    <3>1. CASE f # r
      <4>1. cur[f] \in Req
        OBVIOUS
      <4> QED
        BY <1>1, <2>1, <2>3, <3>1, <4>1 DEF ForgetOrder
    <3>2. CASE f = r
      <4>1. pc[r] = "get" /\ todo[r] \subseteq job[r].ids
        BY <1>1, <2>3, <3>2 DEF KindMatchesPC, ForgetOrder
      <4>2. pc'[r] \in {"journal", "get"}
        BY <1>1, <4>1
      <4>3. pc'[r] = "journal" => cur'[r] \in rows \cap todo[r]
        BY <1>1, <4>1
      <4>4. pc'[r] = "journal" => Committed(cur[r])'
        BY <1>1, <2>1, <4>3 DEF OnDisk
      <4> QED
        BY <1>1, <3>2, <4>1, <4>2, <4>3, <4>4
    <3> QED
      BY <3>1, <3>2
  <2> QED
    BY <2>2, <2>3 DEF ForgetOrder
<1>5. InvalidatedByCommitted'
  BY <1>1 DEF InvalidatedByCommitted
<1> QED
  BY <1>2, <1>3, <1>4, <1>5

\* The journal has no part in it.
LEMMA JournalShared ==
  ASSUME SharedInv, TypeOK', NEW r \in Req,
         InsertPendingOp(r) \/ MarkQdrantWritten(r) \/ CompleteForget(r) \/ ForgetDone(r)
  PROVE  SharedInv'
<1> USE DEF SharedInv, TypeOK
<1>0. pc[r] # "idle" => (IsForget(r) <=> ~IsWrite(r))
  BY DEF Job, Kind
<1>1. KindMatchesPC'
  <2>1. CASE InsertPendingOp(r)
    BY <1>0, <2>1 DEF InsertPendingOp, KindMatchesPC
  <2>2. CASE MarkQdrantWritten(r)
    BY <1>0, <2>2 DEF MarkQdrantWritten, KindMatchesPC
  <2>3. CASE CompleteForget(r)
    BY <2>3 DEF CompleteForget, KindMatchesPC
  <2>4. CASE ForgetDone(r)
    BY <2>4 DEF ForgetDone, KindMatchesPC
  <2> QED
    BY <2>1, <2>2, <2>3, <2>4
<1>2. OnDisk'
  <2>1. CASE InsertPendingOp(r)
    BY <2>1 DEF InsertPendingOp, OnDisk, KindMatchesPC
  <2>2. CASE MarkQdrantWritten(r)
    BY <2>2 DEF MarkQdrantWritten, OnDisk, KindMatchesPC
  <2>3. CASE CompleteForget(r)
    BY <2>3 DEF CompleteForget, OnDisk, KindMatchesPC
  <2>4. CASE ForgetDone(r)
    BY <2>4 DEF ForgetDone, OnDisk, KindMatchesPC
  <2> QED
    BY <2>1, <2>2, <2>3, <2>4
<1>3. ForgetOrder'
  <2>1. CASE InsertPendingOp(r)
    BY <2>1 DEF InsertPendingOp, ForgetOrder, KindMatchesPC, OnDisk
  <2>2. CASE MarkQdrantWritten(r)
    BY <2>2 DEF MarkQdrantWritten, ForgetOrder, KindMatchesPC, OnDisk
  <2>3. CASE CompleteForget(r)
    BY <2>3 DEF CompleteForget, ForgetOrder, KindMatchesPC, OnDisk
  <2>4. CASE ForgetDone(r)
    BY <2>4 DEF ForgetDone, ForgetOrder, KindMatchesPC, OnDisk
  <2> QED
    BY <2>1, <2>2, <2>3, <2>4
<1>4. InvalidatedByCommitted'
  <2>1. CASE InsertPendingOp(r)
    BY <2>1 DEF InsertPendingOp, InvalidatedByCommitted, KindMatchesPC
  <2>2. CASE MarkQdrantWritten(r)
    BY <2>2 DEF MarkQdrantWritten, InvalidatedByCommitted, KindMatchesPC
  <2>3. CASE CompleteForget(r)
    BY <2>3 DEF CompleteForget, InvalidatedByCommitted, KindMatchesPC
  <2>4. CASE ForgetDone(r)
    BY <2>4 DEF ForgetDone, InvalidatedByCommitted, KindMatchesPC
  <2> QED
    BY <2>1, <2>2, <2>3, <2>4
<1> QED
  BY <1>1, <1>2, <1>3, <1>4

\* A store adds a vector for itself, which is not committed yet.
LEMMA UpsertVectorShared ==
  ASSUME SharedInv, TypeOK', NEW r \in Req, UpsertVector(r)
  PROVE  SharedInv'
<1> USE DEF SharedInv, TypeOK, UpsertVector
<1>1. KindMatchesPC'
  BY DEF KindMatchesPC
<1>2. OnDisk'
  BY DEF OnDisk, KindMatchesPC
<1>3. ForgetOrder'
  BY DEF ForgetOrder, KindMatchesPC, OnDisk
<1>4. InvalidatedByCommitted'
  BY DEF InvalidatedByCommitted, KindMatchesPC
<1> QED
  BY <1>1, <1>2, <1>3, <1>4

\* The vector goes first.
LEMMA DeleteVectorShared ==
  ASSUME SharedInv, TypeOK', NEW r \in Req, DeleteVector(r)
  PROVE  SharedInv'
<1> USE DEF SharedInv, TypeOK, DeleteVector
<1>1. KindMatchesPC'
  BY DEF KindMatchesPC
<1>2. OnDisk'
  BY DEF OnDisk, KindMatchesPC
<1>3. ForgetOrder'
  BY DEF ForgetOrder, KindMatchesPC, OnDisk
<1>4. InvalidatedByCommitted'
  BY DEF InvalidatedByCommitted, KindMatchesPC
<1> QED
  BY <1>1, <1>2, <1>3, <1>4

\* The row is the committed store's own, and so is what it invalidates.
LEMMA CommitMemoryWriteShared ==
  ASSUME SharedInv, TypeOK', NEW r \in Req, CommitMemoryWrite(r)
  PROVE  SharedInv'
<1> USE DEF SharedInv, TypeOK, CommitMemoryWrite
<1>1. KindMatchesPC'
  BY DEF KindMatchesPC
<1>2. OnDisk'
  BY DEF OnDisk, KindMatchesPC
<1>3. ForgetOrder'
  BY DEF ForgetOrder, KindMatchesPC, OnDisk
<1>4. InvalidatedByCommitted'
  BY DEF InvalidatedByCommitted, KindMatchesPC
<1> QED
  BY <1>1, <1>2, <1>3, <1>4

\* The row goes next.
LEMMA DeleteRowShared ==
  ASSUME SharedInv, TypeOK', NEW r \in Req, DeleteRow(r)
  PROVE  SharedInv'
<1> USE DEF SharedInv, TypeOK, DeleteRow
<1>1. KindMatchesPC'
  BY DEF KindMatchesPC
<1>2. OnDisk'
  BY DEF OnDisk, KindMatchesPC
<1>3. ForgetOrder'
  BY DEF ForgetOrder, KindMatchesPC, OnDisk
<1>4. InvalidatedByCommitted'
  BY DEF InvalidatedByCommitted, KindMatchesPC
<1> QED
  BY <1>1, <1>2, <1>3, <1>4

\* What is reported as deleted is in neither store.
LEMMA BumpGenerationShared ==
  ASSUME SharedInv, TypeOK', NEW r \in Req, BumpGeneration(r)
  PROVE  SharedInv'
<1> USE DEF SharedInv, TypeOK, BumpGeneration
<1>1. KindMatchesPC'
  BY DEF KindMatchesPC
<1>2. OnDisk'
  BY DEF OnDisk, KindMatchesPC
<1>3. ForgetOrder'
  BY DEF ForgetOrder, KindMatchesPC, OnDisk
<1>4. InvalidatedByCommitted'
  BY DEF InvalidatedByCommitted, KindMatchesPC
<1> QED
  BY <1>1, <1>2, <1>3, <1>4

\* A new request has done nothing yet.
LEMMA StartShared ==
  ASSUME SharedInv, TypeOK', NEW r \in Req, NEW p \in Proc, NEW i \in Inputs, Start(r, p, i)
  PROVE  SharedInv'
<1> USE DEF SharedInv, TypeOK, Start, JobOf
<1>1. i.kind \in Kind
  BY InputsAssumption DEF Input
<1>2. KindMatchesPC'
  BY <1>1 DEF KindMatchesPC, Kind
<1>3. OnDisk'
  BY DEF OnDisk
<1>4. ForgetOrder'
  BY <1>1 DEF ForgetOrder, KindMatchesPC, OnDisk, Kind
<1>5. InvalidatedByCommitted'
  BY DEF InvalidatedByCommitted
<1> QED
  BY <1>2, <1>3, <1>4, <1>5

\* Of the rest recovery alone changes the disk, and it only takes from it.
LEMMA ProcessesShared ==
  ASSUME SharedInv, TypeOK', UNCHANGED <<pc, job, cur, todo, superseded, deleted>>,
         vectors' \subseteq vectors, rows' \subseteq rows, invalid' \subseteq invalid
  PROVE  SharedInv'
<1> USE DEF SharedInv
<1>1. KindMatchesPC'
  BY DEF KindMatchesPC
<1>2. OnDisk'
  BY DEF OnDisk
<1>3. ForgetOrder'
  BY DEF ForgetOrder
<1>4. InvalidatedByCommitted'
  BY DEF InvalidatedByCommitted
<1> QED
  BY <1>1, <1>2, <1>3, <1>4

LEMMA SharedStep == SharedInv /\ [Next]_vars => SharedInv'
<1> SUFFICES ASSUME SharedInv, [Next]_vars PROVE SharedInv'
  OBVIOUS
<1>1. TypeOK'
  BY TypeStep DEF SharedInv
<1>2. ASSUME NEW r \in Req, RequestStep(r) PROVE SharedInv'
  BY <1>1, <1>2, ChecksShared, JournalShared, UpsertVectorShared, DeleteVectorShared,
     CommitMemoryWriteShared, DeleteRowShared, BumpGenerationShared
  DEF RequestStep
<1>3. CASE \/ UNCHANGED vars
           \/ \E r \in Req : Abandon(r)
           \/ \E p \in Proc : StartProcess(p) \/ Recover(p) \/ Crash(p)
  <2>1. /\ UNCHANGED <<pc, job, cur, todo, superseded, deleted>>
        /\ vectors' \subseteq vectors /\ rows' \subseteq rows /\ invalid' \subseteq invalid
    <3>1. CASE UNCHANGED vars
      BY <3>1 DEF vars
    <3>2. ASSUME NEW r \in Req, Abandon(r)
          PROVE  UNCHANGED <<pc, job, cur, todo, superseded, deleted, vectors, rows, invalid>>
      BY <3>2 DEF Abandon
    <3>3. ASSUME NEW p \in Proc, StartProcess(p) \/ Crash(p)
          PROVE  UNCHANGED <<pc, job, cur, todo, superseded, deleted, vectors, rows, invalid>>
      BY <3>3 DEF StartProcess, Crash
    <3>4. ASSUME NEW p \in Proc, Recover(p)
          PROVE  /\ UNCHANGED <<pc, job, cur, todo, superseded, deleted>>
                 /\ vectors' \subseteq vectors /\ rows' \subseteq rows /\ invalid' \subseteq invalid
      BY <3>4 DEF Recover, RecoverNext, RecoverDeleteVector, RecoverDeleteRow, RecoverClear,
         RecoverDone
    <3> QED
      BY <1>3, <3>1, <3>2, <3>3, <3>4
  <2> QED
    BY <1>1, <2>1, ProcessesShared
<1> QED
  BY <1>1, <1>2, <1>3, StartShared DEF Next, Work

-----------------------------------------------------------------------------
(* The inductive invariant, one lemma per action *)

\* While a request runs, no op of an older build is left in the journal.
LEMMA Serving ==
  ASSUME IInv, NEW r \in Req, Running(r)
  PROVE  /\ \A q, m \in Req : <<q, m>> \in pending => pc[q] # "ok"
         /\ IsForget(r) <=> ~IsWrite(r)
<1>1. job[r] \in Job
  BY DEF IInv, SharedInv, TypeOK
<1>2. job[r].proc \in Proc /\ (IsForget(r) <=> ~IsWrite(r))
  BY <1>1 DEF Job, Kind
<1>3. proc[job[r].proc].pc = "up"
  BY DEF IInv, RunsWhereUp
<1>4. ASSUME NEW q \in Req, NEW m \in Req, <<q, m>> \in pending, pc[q] = "ok" PROVE FALSE
  BY <1>2, <1>3, <1>4 DEF IInv, LegacyUntouched
<1> QED
  BY <1>2, <1>4

\* What all steps of a running request have in common.
Moves(r) ==
    /\ Running(r) /\ pc'[r] # "idle"
    /\ \A q \in Req \ {r} : pc'[q] = pc[q] /\ cur'[q] = cur[q]
    /\ UNCHANGED <<job, halted, proc, contested>>
    /\ pending' \subseteq pending \cup {OpOf(r)}
    /\ written' \subseteq written \cup {OpOf(r)}
    /\ vectors' \subseteq vectors \/ (pc[r] = "upsert" /\ vectors' = vectors \cup {r})
    /\ rows' \subseteq rows \/ (pc[r] = "commit" /\ rows' = rows \cup {r})
    /\ IsWrite(r) /\ pc[r] \in {"commit", "bump"} => pc'[r] \in {"bump", "ok"}
    /\ IsForget(r) /\ pc'[r] \in DeletePC =>
         cur'[r] \in rows \/ (pc[r] \in DeletePC /\ cur'[r] = cur[r])
    /\ pc'[r] = "ok" => pc[r] \in {"bump", "get"} /\ pending' = pending

\* A step of a request leaves what is committed committed and what is erased erased.
LEMMA MovesForward ==
  ASSUME IInv, TypeOK', NEW r \in Req, Moves(r)
  PROVE  /\ \A m \in Req : Committed(m) => Committed(m)'
         /\ \A q, m \in Req : Erased(q, m) => Erased(q, m)'
<1>0. TypeOK /\ (IsForget(r) <=> ~IsWrite(r))
  BY Serving DEF IInv, SharedInv, Moves
<1>1. ASSUME NEW m \in Req, Committed(m) PROVE Committed(m)'
  <2>1. CASE m = r
    BY <1>1, <2>1 DEF Moves
  <2>2. CASE m # r
    BY <1>1, <2>2 DEF Moves
  <2> QED
    BY <2>1, <2>2
<1>2. ASSUME NEW q \in Req, NEW m \in Req, Erased(q, m) PROVE Erased(q, m)'
  <2>1. Committed(m)' /\ IsForget(q)' /\ m \notin rows \cup vectors
    BY <1>1, <1>2 DEF Erased, Moves
  <2>2. m \notin rows' \cup vectors'
    BY <1>0, <1>2, <2>1 DEF Erased, Moves, IInv, SharedInv, KindMatchesPC
  <2>3. cur'[q] = m => pc'[q] \notin DeletePC
    <3>1. CASE q = r
      BY <1>2, <2>1, <3>1 DEF Erased, Moves
    <3>2. CASE q # r
      BY <1>2, <3>2 DEF Erased, Moves
    <3> QED
      BY <3>1, <3>2
  <2> QED
    BY <2>1, <2>2, <2>3 DEF Erased
<1> QED
  BY <1>1, <1>2

\* Recoveries know of a request what they knew before its step.
LEMMA MovesKeepRecoveries ==
  ASSUME IInv, TypeOK', NEW r \in Req, Moves(r)
  PROVE  RecoveryKnows'
<1>1. /\ \A m \in Req : Committed(m) => Committed(m)'
      /\ \A q, m \in Req : Erased(q, m) => Erased(q, m)'
      /\ TypeOK /\ RecoveryKnows
  BY MovesForward DEF IInv, SharedInv
<1>2. UNCHANGED <<job, halted, proc, contested>>
  BY DEF Moves
<1>3. ASSUME NEW p \in Proc, NEW q \in Req, NEW m \in Req, <<q, m>> \in proc[p].seen
      PROVE  /\ \/ IsWrite(q)' /\ m = q /\ pc'[q] \in {"commit", "bump", "ok"}
                \/ IsForget(q)' /\ Committed(m)' /\ m \in job'[q].ids /\ m \notin vectors'
             /\ m \notin vectors => m \notin vectors'
             /\ m = r => q = r \/ Committed(r)
  <2>1. \/ IsWrite(q) /\ m = q /\ pc[q] \in {"commit", "bump", "ok"}
        \/ IsForget(q) /\ Committed(m) /\ m \in job[q].ids /\ m \notin vectors
    BY <1>1, <1>3 DEF RecoveryKnows, Knows
  <2>2. CASE IsWrite(q) /\ m = q /\ pc[q] \in {"commit", "bump", "ok"}
    BY <1>2, <2>2 DEF Moves
  <2>3. CASE IsForget(q) /\ Committed(m) /\ m \in job[q].ids /\ m \notin vectors
    BY <1>1, <1>2, <2>3 DEF Moves
  <2> QED
    BY <2>1, <2>2, <2>3
<1>4. ASSUME NEW p \in Proc, NEW q \in Req, NEW m \in Req, MayForget(p, q, m)
      PROVE  MayForget(p, q, m)'
  <2>1. CASE m = q /\ Committed(q)
    BY <1>1, <2>1 DEF MayForget
  <2>2. CASE Erased(q, m)
    BY <1>1, <2>2 DEF MayForget
  <2>3. CASE pc[q] # "idle" /\ ~Running(q) /\ <<q, m>> \notin written
    <3>1. q # r
      BY <2>3 DEF Moves
    <3>2. <<q, m>> \notin written'
      BY <2>3, <3>1 DEF Moves
    <3>3. pc'[q] = pc[q] /\ ~Running(q)'
      BY <1>2, <2>3, <3>1 DEF Moves
    <3> QED
      BY <2>3, <3>2, <3>3 DEF MayForget
  <2>4. CASE q \in halted /\ <<q, m>> \in proc[p].seen /\ m \notin rows \cup vectors
    <3>1. q # r
      BY <2>4 DEF Moves
    <3>2. m \notin rows' \cup vectors'
      BY <1>3, <2>4, <3>1 DEF Moves
    <3> QED
      BY <1>2, <2>4, <3>2 DEF MayForget
  <2> QED
    BY <1>4, <2>1, <2>2, <2>3, <2>4 DEF MayForget
<1>5. ASSUME NEW p \in Proc, NEW q \in Req, NEW m \in Req
      PROVE  /\ <<q, m>> \in proc[p].todo => pc'[q] # "idle"
             /\ proc[p].cur = <<q, m>> =>
                 /\ proc[p].pc \in {"vector", "row"} => <<q, m>> \in proc[p].seen
                 /\ proc[p].pc = "vector" => IsWrite(q)'
                 /\ proc[p].pc = "row" => m \notin vectors'
                 /\ m \notin contested =>
                      /\ proc[p].pc \in {"vector", "row"} =>
                           q \in halted /\ pc'[q] \in {"commit", "erase", "complete"}
                      /\ proc[p].pc = "clear" => MayForget(p, q, m)'
  <2>1. <<q, m>> \in proc[p].todo => pc'[q] # "idle"
    BY <1>1 DEF Moves, RecoveryKnows, Knows
  <2>2. ASSUME proc[p].cur = <<q, m>>
        PROVE  /\ proc[p].pc \in {"vector", "row"} => <<q, m>> \in proc[p].seen
               /\ proc[p].pc = "vector" => IsWrite(q)'
               /\ proc[p].pc = "row" => m \notin vectors'
    BY <1>1, <1>2, <1>3, <2>2 DEF RecoveryKnows, Knows
  <2>3. ASSUME proc[p].cur = <<q, m>>, m \notin contested, proc[p].pc \in {"vector", "row"}
        PROVE  q \in halted /\ pc'[q] \in {"commit", "erase", "complete"}
    BY <1>1, <2>3 DEF RecoveryKnows, Knows, Moves
  <2>4. ASSUME proc[p].cur = <<q, m>>, m \notin contested, proc[p].pc = "clear"
        PROVE  MayForget(p, q, m)'
    BY <1>1, <1>4, <2>4 DEF RecoveryKnows, Knows
  <2> QED
    BY <2>1, <2>2, <2>3, <2>4
<1>6. \A p \in Proc : proc[p].pc \in {"vector", "row", "clear"} => proc[p].cur # NoOp
  BY <1>1 DEF RecoveryKnows, Knows
<1> QED
  BY <1>2, <1>3, <1>5, <1>6 DEF RecoveryKnows, Knows

\* What no step of a request touches.
LEMMA MovesKeep ==
  ASSUME IInv, TypeOK', NEW r \in Req, Moves(r)
  PROVE  RunsWhereUp' /\ LegacyUntouched' /\ RecoveryKnows'
<1>1. TypeOK /\ JournalMatchesPC /\ RunsWhereUp
  BY DEF IInv, SharedInv
<1>2. RunsWhereUp'
  BY <1>1 DEF Moves, RunsWhereUp
<1>3. ASSUME NEW q \in Req, NEW m \in Req, <<q, m>> \in pending', pc'[q] = "ok" PROVE FALSE
  <2>1. CASE q = r
    <3>1. <<r, m>> \in pending /\ pc[r] \in {"bump", "get"}
      BY <1>3, <2>1 DEF Moves
    <3> QED
      BY <1>1, <3>1 DEF JournalMatchesPC
  <2>2. CASE q # r
    <3>1. <<q, m>> \in pending /\ pc[q] = "ok"
      BY <1>3, <2>2 DEF Moves
    <3> QED
      BY <3>1, Serving DEF Moves
  <2> QED
    BY <2>1, <2>2
<1>4. LegacyUntouched'
  BY <1>3 DEF LegacyUntouched
<1> QED
  BY <1>2, <1>4, MovesKeepRecoveries

\* What the four checks have in common: r moves on to next, works on m and will
\* invalidate s.
Advance(r, next, m, s) ==
    /\ Running(r) /\ pc[r] \in {"check", "lookup", "get"}
    /\ next \in {"journal", "rejected"}
    /\ pc[r] = "get" => next = "journal" /\ m \in rows \cap todo[r]
    /\ pc[r] # "get" /\ next = "journal" => m = r
    /\ pc' = [pc EXCEPT ![r] = next]
    /\ cur' = [cur EXCEPT ![r] = m]
    /\ superseded' = [superseded EXCEPT ![r] = s]
    /\ UNCHANGED <<job, todo, deleted, halted, diskVars, journalVars, proc, gen, contested>>

\* A forget meets an id that has no row.
SkipMissing(r, m) ==
    /\ Running(r) /\ pc[r] = "get"
    /\ m \in todo[r] \ rows
    /\ todo' = [todo EXCEPT ![r] = @ \ {m}]
    /\ UNCHANGED <<pc, cur, job, superseded, deleted, halted, diskVars, journalVars, proc, gen,
                   contested>>

\* A check that sends its request on, or rejects it.
LEMMA AdvancePreserves ==
  ASSUME IInv, SharedInv', NEW r \in Req, NEW next, NEW m \in Req, NEW s \in SUBSET Req,
         Advance(r, next, m, s)
  PROVE  IInv'
<1> USE DEF Advance
<1>0. /\ TypeOK /\ TypeOK'
      /\ \A q, n \in Req : <<q, n>> \in pending => pc[q] # "ok"
      /\ IsForget(r) <=> ~IsWrite(r)
  BY Serving DEF IInv, SharedInv
<1>1. Moves(r)
  BY <1>0 DEF Moves, TypeOK, IInv, SharedInv, KindMatchesPC, DeletePC
<1>2. RunsWhereUp' /\ LegacyUntouched' /\ RecoveryKnows'
  BY <1>0, <1>1, MovesKeep
<1>3. VectorKept'
  BY <1>0 DEF TypeOK, IInv, SharedInv, VectorKept, KindMatchesPC, ForgetOrder
<1>4. JournalMatchesPC'
  <2>1. \A q, n \in Req : Erased(q, n) => Erased(q, n)'
    BY <1>0, <1>1, MovesForward
  <2>2. \A q \in Req : Committed(q) => Committed(q)'
    BY <1>0, <1>1, MovesForward
  <2>3. ASSUME NEW q \in Req, NEW n \in Req, <<q, n>> \in pending'
        PROVE  /\ cur'[q] = n
               /\ \/ IsWrite(q)' /\ pc'[q] \in {"upsert", "mark", "commit"}
                  \/ IsForget(q)' /\ pc'[q] \in {"remove", "mark", "erase", "complete"}
                  \/ IsWrite(q)' /\ pc'[q] = "ok" /\ <<q, n>> \in completed'
               /\ pc'[q] # "ok" =>
                    (<<q, n>> \in written' <=> pc'[q] \in {"commit", "erase", "complete"})
    BY <1>0, <2>3 DEF TypeOK, IInv, SharedInv, JournalMatchesPC, KindMatchesPC
  <2>4. ASSUME NEW q \in Req, Running(q)', cur'[q] \notin contested',
               pc'[q] \in {"upsert", "remove", "mark", "commit", "erase", "complete"}
        PROVE  <<q, cur'[q]>> \in pending'
    BY <1>0, <2>4 DEF TypeOK, IInv, SharedInv, JournalMatchesPC, KindMatchesPC
  <2>5. ASSUME NEW q \in Req, NEW n \in Req, <<q, n>> \in completed'
        PROVE  (n = q /\ Committed(q)') \/ Erased(q, n)'
    BY <1>0, <2>1, <2>2, <2>5 DEF TypeOK, IInv, JournalMatchesPC
  <2> QED
    BY <2>3, <2>4, <2>5 DEF JournalMatchesPC
<1>5. VectorFirst'
  BY <1>0 DEF TypeOK, IInv, SharedInv, VectorFirst, KindMatchesPC, OnDisk, ForgetOrder
<1>6. OrphanVectorsExplained'
  <2> SUFFICES ASSUME NEW n \in Req, n \in (vectors' \ rows') \ contested'
               PROVE  <<n, n>> \in pending' \/ (pc'[n] = "mark" /\ n \in halted')
    BY <1>0 DEF TypeOK, OrphanVectorsExplained
  <2>1. n \in (vectors \ rows) \ contested
    BY <1>0 DEF TypeOK
  <2>2. <<n, n>> \in pending \/ (pc[n] = "mark" /\ n \in halted)
    BY <2>1 DEF IInv, OrphanVectorsExplained
  <2> QED
    BY <1>0, <2>1, <2>2 DEF TypeOK
<1>7. RowsExplained'
  <2> SUFFICES ASSUME NEW n \in (rows' \ vectors') \ contested'
               PROVE  (\E f \in Req : TakenBy(f, n))'
    BY DEF RowsExplained
  <2>1. PICK f \in Req : TakenBy(f, n)
    BY <1>0 DEF TypeOK, IInv, SharedInv, RowsExplained, OnDisk
  <2>2. TakenBy(f, n)'
    BY <1>0, <2>1 DEF TypeOK, IInv, SharedInv, TakenBy, KindMatchesPC, ForgetOrder
  <2> QED
    BY <2>2
<1>8. LossIsRequested'
  BY <1>0 DEF TypeOK, IInv, SharedInv, LossIsRequested, KindMatchesPC, OnDisk, ForgetOrder
<1> QED
  BY <1>2, <1>3, <1>4, <1>5, <1>6, <1>7, <1>8 DEF IInv

\* A forget that finds no row for an id drops the id.
LEMMA SkipMissingPreserves ==
  ASSUME IInv, SharedInv', NEW r \in Req, NEW m \in Req, SkipMissing(r, m)
  PROVE  IInv'
<1> USE DEF SkipMissing
<1>0. /\ TypeOK /\ TypeOK'
      /\ \A q, n \in Req : <<q, n>> \in pending => pc[q] # "ok"
      /\ IsForget(r) <=> ~IsWrite(r)
  BY Serving DEF IInv, SharedInv
<1>1. Moves(r)
  BY <1>0 DEF Moves, TypeOK, IInv, SharedInv, KindMatchesPC, DeletePC
<1>2. RunsWhereUp' /\ LegacyUntouched' /\ RecoveryKnows'
  BY <1>0, <1>1, MovesKeep
<1>3. VectorKept'
  BY <1>0 DEF TypeOK, IInv, SharedInv, VectorKept, KindMatchesPC, ForgetOrder
<1>4. JournalMatchesPC'
  <2>1. \A q, n \in Req : Erased(q, n) => Erased(q, n)'
    BY <1>0, <1>1, MovesForward
  <2>2. \A q \in Req : Committed(q) => Committed(q)'
    BY <1>0, <1>1, MovesForward
  <2>3. ASSUME NEW q \in Req, NEW n \in Req, <<q, n>> \in pending'
        PROVE  /\ cur'[q] = n
               /\ \/ IsWrite(q)' /\ pc'[q] \in {"upsert", "mark", "commit"}
                  \/ IsForget(q)' /\ pc'[q] \in {"remove", "mark", "erase", "complete"}
                  \/ IsWrite(q)' /\ pc'[q] = "ok" /\ <<q, n>> \in completed'
               /\ pc'[q] # "ok" =>
                    (<<q, n>> \in written' <=> pc'[q] \in {"commit", "erase", "complete"})
    BY <1>0, <2>3 DEF TypeOK, IInv, SharedInv, JournalMatchesPC, KindMatchesPC
  <2>4. ASSUME NEW q \in Req, Running(q)', cur'[q] \notin contested',
               pc'[q] \in {"upsert", "remove", "mark", "commit", "erase", "complete"}
        PROVE  <<q, cur'[q]>> \in pending'
    BY <1>0, <2>4 DEF TypeOK, IInv, SharedInv, JournalMatchesPC, KindMatchesPC
  <2>5. ASSUME NEW q \in Req, NEW n \in Req, <<q, n>> \in completed'
        PROVE  (n = q /\ Committed(q)') \/ Erased(q, n)'
    BY <1>0, <2>1, <2>2, <2>5 DEF TypeOK, IInv, JournalMatchesPC
  <2> QED
    BY <2>3, <2>4, <2>5 DEF JournalMatchesPC
<1>5. VectorFirst'
  BY <1>0 DEF TypeOK, IInv, SharedInv, VectorFirst, KindMatchesPC, OnDisk, ForgetOrder
<1>6. OrphanVectorsExplained'
  <2> SUFFICES ASSUME NEW n \in Req, n \in (vectors' \ rows') \ contested'
               PROVE  <<n, n>> \in pending' \/ (pc'[n] = "mark" /\ n \in halted')
    BY <1>0 DEF TypeOK, OrphanVectorsExplained
  <2>1. n \in (vectors \ rows) \ contested
    BY <1>0 DEF TypeOK
  <2>2. <<n, n>> \in pending \/ (pc[n] = "mark" /\ n \in halted)
    BY <2>1 DEF IInv, OrphanVectorsExplained
  <2> QED
    BY <1>0, <2>1, <2>2 DEF TypeOK
<1>7. RowsExplained'
  <2> SUFFICES ASSUME NEW n \in (rows' \ vectors') \ contested'
               PROVE  (\E f \in Req : TakenBy(f, n))'
    BY DEF RowsExplained
  <2>1. PICK f \in Req : TakenBy(f, n)
    BY <1>0 DEF TypeOK, IInv, SharedInv, RowsExplained, OnDisk
  <2>2. TakenBy(f, n)'
    BY <1>0, <2>1 DEF TypeOK, IInv, SharedInv, TakenBy, KindMatchesPC, ForgetOrder
  <2> QED
    BY <2>2
<1>8. LossIsRequested'
  BY <1>0 DEF TypeOK, IInv, SharedInv, LossIsRequested, KindMatchesPC, OnDisk, ForgetOrder
<1> QED
  BY <1>2, <1>3, <1>4, <1>5, <1>6, <1>7, <1>8 DEF IInv

\* A forget that has visited its ids.
LEMMA ForgetDonePreserves ==
  ASSUME IInv, SharedInv', NEW r \in Req, ForgetDone(r)
  PROVE  IInv'
<1> USE DEF ForgetDone
<1>0. /\ TypeOK /\ TypeOK'
      /\ \A q, n \in Req : <<q, n>> \in pending => pc[q] # "ok"
      /\ IsForget(r) <=> ~IsWrite(r)
  BY Serving DEF IInv, SharedInv
<1>1. Moves(r)
  BY <1>0 DEF Moves, TypeOK, IInv, SharedInv, KindMatchesPC, DeletePC
<1>2. RunsWhereUp' /\ LegacyUntouched' /\ RecoveryKnows'
  BY <1>0, <1>1, MovesKeep
<1>3. VectorKept'
  BY <1>0 DEF TypeOK, IInv, SharedInv, VectorKept, KindMatchesPC, ForgetOrder
<1>4. JournalMatchesPC'
  <2>1. \A q, n \in Req : Erased(q, n) => Erased(q, n)'
    BY <1>0, <1>1, MovesForward
  <2>2. \A q \in Req : Committed(q) => Committed(q)'
    BY <1>0, <1>1, MovesForward
  <2>3. ASSUME NEW q \in Req, NEW n \in Req, <<q, n>> \in pending'
        PROVE  /\ cur'[q] = n
               /\ \/ IsWrite(q)' /\ pc'[q] \in {"upsert", "mark", "commit"}
                  \/ IsForget(q)' /\ pc'[q] \in {"remove", "mark", "erase", "complete"}
                  \/ IsWrite(q)' /\ pc'[q] = "ok" /\ <<q, n>> \in completed'
               /\ pc'[q] # "ok" =>
                    (<<q, n>> \in written' <=> pc'[q] \in {"commit", "erase", "complete"})
    BY <1>0, <2>3 DEF TypeOK, IInv, SharedInv, JournalMatchesPC, KindMatchesPC
  <2>4. ASSUME NEW q \in Req, Running(q)', cur'[q] \notin contested',
               pc'[q] \in {"upsert", "remove", "mark", "commit", "erase", "complete"}
        PROVE  <<q, cur'[q]>> \in pending'
    BY <1>0, <2>4 DEF TypeOK, IInv, SharedInv, JournalMatchesPC, KindMatchesPC
  <2>5. ASSUME NEW q \in Req, NEW n \in Req, <<q, n>> \in completed'
        PROVE  (n = q /\ Committed(q)') \/ Erased(q, n)'
    BY <1>0, <2>1, <2>2, <2>5 DEF TypeOK, IInv, JournalMatchesPC
  <2> QED
    BY <2>3, <2>4, <2>5 DEF JournalMatchesPC
<1>5. VectorFirst'
  BY <1>0 DEF TypeOK, IInv, SharedInv, VectorFirst, KindMatchesPC, OnDisk, ForgetOrder
<1>6. OrphanVectorsExplained'
  BY <1>0 DEF TypeOK, IInv, SharedInv, OrphanVectorsExplained, KindMatchesPC, JournalMatchesPC,
     OnDisk, ForgetOrder
<1>7. RowsExplained'
  <2> SUFFICES ASSUME NEW n \in (rows' \ vectors') \ contested'
               PROVE  (\E f \in Req : TakenBy(f, n))'
    BY DEF RowsExplained
  <2>1. PICK f \in Req : TakenBy(f, n)
    BY <1>0 DEF TypeOK, IInv, SharedInv, RowsExplained, OnDisk
  <2>2. TakenBy(f, n)'
    BY <1>0, <2>1 DEF TypeOK, IInv, SharedInv, TakenBy, KindMatchesPC, ForgetOrder
  <2> QED
    BY <2>2
<1>8. LossIsRequested'
  BY <1>0 DEF TypeOK, IInv, SharedInv, LossIsRequested, KindMatchesPC, OnDisk, ForgetOrder
<1> QED
  BY <1>2, <1>3, <1>4, <1>5, <1>6, <1>7, <1>8 DEF IInv

\* The journal row comes before the first store is touched.
LEMMA InsertPendingOpPreserves ==
  ASSUME IInv, SharedInv', NEW r \in Req, InsertPendingOp(r)
  PROVE  IInv'
<1> USE DEF InsertPendingOp
<1>0. /\ TypeOK /\ TypeOK'
      /\ \A q, n \in Req : <<q, n>> \in pending => pc[q] # "ok"
      /\ IsForget(r) <=> ~IsWrite(r)
  BY Serving DEF IInv, SharedInv
<1>1. Moves(r)
  BY <1>0 DEF Moves, TypeOK, IInv, SharedInv, KindMatchesPC, DeletePC
<1>2. RunsWhereUp' /\ LegacyUntouched' /\ RecoveryKnows'
  BY <1>0, <1>1, MovesKeep
<1>3. VectorKept'
  BY <1>0 DEF TypeOK, IInv, SharedInv, VectorKept, KindMatchesPC, ForgetOrder
<1>4. JournalMatchesPC'
  <2>1. \A q, n \in Req : Erased(q, n) => Erased(q, n)'
    BY <1>0, <1>1, MovesForward
  <2>2. \A q \in Req : Committed(q) => Committed(q)'
    BY <1>0, <1>1, MovesForward
  <2>3. ASSUME NEW q \in Req, NEW n \in Req, <<q, n>> \in pending'
        PROVE  /\ cur'[q] = n
               /\ \/ IsWrite(q)' /\ pc'[q] \in {"upsert", "mark", "commit"}
                  \/ IsForget(q)' /\ pc'[q] \in {"remove", "mark", "erase", "complete"}
                  \/ IsWrite(q)' /\ pc'[q] = "ok" /\ <<q, n>> \in completed'
               /\ pc'[q] # "ok" =>
                    (<<q, n>> \in written' <=> pc'[q] \in {"commit", "erase", "complete"})
    BY <1>0, <2>3 DEF TypeOK, IInv, SharedInv, JournalMatchesPC, KindMatchesPC
  <2>4. ASSUME NEW q \in Req, Running(q)', cur'[q] \notin contested',
               pc'[q] \in {"upsert", "remove", "mark", "commit", "erase", "complete"}
        PROVE  <<q, cur'[q]>> \in pending'
    BY <1>0, <2>4 DEF TypeOK, IInv, SharedInv, JournalMatchesPC, KindMatchesPC
  <2>5. ASSUME NEW q \in Req, NEW n \in Req, <<q, n>> \in completed'
        PROVE  (n = q /\ Committed(q)') \/ Erased(q, n)'
    BY <1>0, <2>1, <2>2, <2>5 DEF TypeOK, IInv, JournalMatchesPC
  <2> QED
    BY <2>3, <2>4, <2>5 DEF JournalMatchesPC
<1>5. VectorFirst'
  BY <1>0 DEF TypeOK, IInv, SharedInv, VectorFirst, KindMatchesPC, OnDisk, ForgetOrder
<1>6. OrphanVectorsExplained'
  BY <1>0 DEF TypeOK, IInv, SharedInv, OrphanVectorsExplained, KindMatchesPC, JournalMatchesPC,
     OnDisk, ForgetOrder
<1>7. RowsExplained'
  <2> SUFFICES ASSUME NEW n \in (rows' \ vectors') \ contested'
               PROVE  (\E f \in Req : TakenBy(f, n))'
    BY DEF RowsExplained
  <2>1. PICK f \in Req : TakenBy(f, n)
    BY <1>0 DEF TypeOK, IInv, SharedInv, RowsExplained, OnDisk
  <2>2. TakenBy(f, n)'
    BY <1>0, <2>1 DEF TypeOK, IInv, SharedInv, TakenBy, KindMatchesPC, ForgetOrder
  <2> QED
    BY <2>2
<1>8. LossIsRequested'
  BY <1>0 DEF TypeOK, IInv, SharedInv, LossIsRequested, KindMatchesPC, OnDisk, ForgetOrder
<1> QED
  BY <1>2, <1>3, <1>4, <1>5, <1>6, <1>7, <1>8 DEF IInv

\* The vector is named by the journal row of its store.
LEMMA UpsertVectorPreserves ==
  ASSUME IInv, SharedInv', NEW r \in Req, UpsertVector(r)
  PROVE  IInv'
<1> USE DEF UpsertVector
<1>0. /\ TypeOK /\ TypeOK'
      /\ \A q, n \in Req : <<q, n>> \in pending => pc[q] # "ok"
      /\ IsForget(r) <=> ~IsWrite(r)
  BY Serving DEF IInv, SharedInv
<1>1. Moves(r)
  BY <1>0 DEF Moves, TypeOK, IInv, SharedInv, KindMatchesPC, DeletePC
<1>2. RunsWhereUp' /\ LegacyUntouched' /\ RecoveryKnows'
  BY <1>0, <1>1, MovesKeep
<1>3. VectorKept'
  BY <1>0 DEF TypeOK, IInv, SharedInv, VectorKept, KindMatchesPC, ForgetOrder
<1>4. JournalMatchesPC'
  <2>1. \A q, n \in Req : Erased(q, n) => Erased(q, n)'
    BY <1>0, <1>1, MovesForward
  <2>2. \A q \in Req : Committed(q) => Committed(q)'
    BY <1>0, <1>1, MovesForward
  <2>3. ASSUME NEW q \in Req, NEW n \in Req, <<q, n>> \in pending'
        PROVE  /\ cur'[q] = n
               /\ \/ IsWrite(q)' /\ pc'[q] \in {"upsert", "mark", "commit"}
                  \/ IsForget(q)' /\ pc'[q] \in {"remove", "mark", "erase", "complete"}
                  \/ IsWrite(q)' /\ pc'[q] = "ok" /\ <<q, n>> \in completed'
               /\ pc'[q] # "ok" =>
                    (<<q, n>> \in written' <=> pc'[q] \in {"commit", "erase", "complete"})
    BY <1>0, <2>3 DEF TypeOK, IInv, SharedInv, JournalMatchesPC, KindMatchesPC
  <2>4. ASSUME NEW q \in Req, Running(q)', cur'[q] \notin contested',
               pc'[q] \in {"upsert", "remove", "mark", "commit", "erase", "complete"}
        PROVE  <<q, cur'[q]>> \in pending'
    BY <1>0, <2>4 DEF TypeOK, IInv, SharedInv, JournalMatchesPC, KindMatchesPC
  <2>5. ASSUME NEW q \in Req, NEW n \in Req, <<q, n>> \in completed'
        PROVE  (n = q /\ Committed(q)') \/ Erased(q, n)'
    BY <1>0, <2>1, <2>2, <2>5 DEF TypeOK, IInv, JournalMatchesPC
  <2> QED
    BY <2>3, <2>4, <2>5 DEF JournalMatchesPC
<1>5. VectorFirst'
  BY <1>0 DEF TypeOK, IInv, SharedInv, VectorFirst, KindMatchesPC, OnDisk, ForgetOrder
<1>6. OrphanVectorsExplained'
  <2> SUFFICES ASSUME NEW n \in Req, n \in (vectors' \ rows') \ contested'
               PROVE  <<n, n>> \in pending' \/ (pc'[n] = "mark" /\ n \in halted')
    BY <1>0 DEF TypeOK, OrphanVectorsExplained
  <2>1. CASE n = r
    <3>1. cur[r] = r /\ r \notin contested
      BY <1>0, <2>1 DEF IInv, SharedInv, KindMatchesPC
    <3> QED
      BY <1>0, <2>1, <3>1 DEF IInv, JournalMatchesPC
  <2>2. CASE n # r
    <3>1. <<n, n>> \in pending \/ (pc[n] = "mark" /\ n \in halted)
      BY <1>0, <2>2 DEF TypeOK, IInv, OrphanVectorsExplained
    <3> QED
      BY <1>0, <2>2, <3>1 DEF TypeOK
  <2> QED
    BY <2>1, <2>2
<1>7. RowsExplained'
  <2> SUFFICES ASSUME NEW n \in (rows' \ vectors') \ contested'
               PROVE  (\E f \in Req : TakenBy(f, n))'
    BY DEF RowsExplained
  <2>1. PICK f \in Req : TakenBy(f, n)
    BY <1>0 DEF TypeOK, IInv, SharedInv, RowsExplained, OnDisk
  <2>2. TakenBy(f, n)'
    BY <1>0, <2>1 DEF TypeOK, IInv, SharedInv, TakenBy, KindMatchesPC, ForgetOrder
  <2> QED
    BY <2>2
<1>8. LossIsRequested'
  BY <1>0 DEF TypeOK, IInv, SharedInv, LossIsRequested, KindMatchesPC, OnDisk, ForgetOrder
<1> QED
  BY <1>2, <1>3, <1>4, <1>5, <1>6, <1>7, <1>8 DEF IInv

\* The vector goes first, while the journal names the forget.
LEMMA DeleteVectorPreserves ==
  ASSUME IInv, SharedInv', NEW r \in Req, DeleteVector(r)
  PROVE  IInv'
<1> USE DEF DeleteVector
<1>0. /\ TypeOK /\ TypeOK'
      /\ \A q, n \in Req : <<q, n>> \in pending => pc[q] # "ok"
      /\ IsForget(r) <=> ~IsWrite(r)
  BY Serving DEF IInv, SharedInv
<1>1. Moves(r)
  BY <1>0 DEF Moves, TypeOK, IInv, SharedInv, KindMatchesPC, DeletePC
<1>2. RunsWhereUp' /\ LegacyUntouched' /\ RecoveryKnows'
  BY <1>0, <1>1, MovesKeep
<1>3. VectorKept'
  BY <1>0 DEF TypeOK, IInv, SharedInv, VectorKept, KindMatchesPC, ForgetOrder
<1>4. JournalMatchesPC'
  <2>1. \A q, n \in Req : Erased(q, n) => Erased(q, n)'
    BY <1>0, <1>1, MovesForward
  <2>2. \A q \in Req : Committed(q) => Committed(q)'
    BY <1>0, <1>1, MovesForward
  <2>3. ASSUME NEW q \in Req, NEW n \in Req, <<q, n>> \in pending'
        PROVE  /\ cur'[q] = n
               /\ \/ IsWrite(q)' /\ pc'[q] \in {"upsert", "mark", "commit"}
                  \/ IsForget(q)' /\ pc'[q] \in {"remove", "mark", "erase", "complete"}
                  \/ IsWrite(q)' /\ pc'[q] = "ok" /\ <<q, n>> \in completed'
               /\ pc'[q] # "ok" =>
                    (<<q, n>> \in written' <=> pc'[q] \in {"commit", "erase", "complete"})
    BY <1>0, <2>3 DEF TypeOK, IInv, SharedInv, JournalMatchesPC, KindMatchesPC
  <2>4. ASSUME NEW q \in Req, Running(q)', cur'[q] \notin contested',
               pc'[q] \in {"upsert", "remove", "mark", "commit", "erase", "complete"}
        PROVE  <<q, cur'[q]>> \in pending'
    BY <1>0, <2>4 DEF TypeOK, IInv, SharedInv, JournalMatchesPC, KindMatchesPC
  <2>5. ASSUME NEW q \in Req, NEW n \in Req, <<q, n>> \in completed'
        PROVE  (n = q /\ Committed(q)') \/ Erased(q, n)'
    BY <1>0, <2>1, <2>2, <2>5 DEF TypeOK, IInv, JournalMatchesPC
  <2> QED
    BY <2>3, <2>4, <2>5 DEF JournalMatchesPC
<1>5. VectorFirst'
  BY <1>0 DEF TypeOK, IInv, SharedInv, VectorFirst, KindMatchesPC, OnDisk, ForgetOrder
<1>6. OrphanVectorsExplained'
  BY <1>0 DEF TypeOK, IInv, SharedInv, OrphanVectorsExplained, KindMatchesPC, JournalMatchesPC,
     OnDisk, ForgetOrder
<1>7. RowsExplained'
  <2> SUFFICES ASSUME NEW n \in (rows' \ vectors') \ contested'
               PROVE  (\E f \in Req : TakenBy(f, n))'
    BY DEF RowsExplained
  <2>1. CASE n = cur[r]
    <3>1. <<r, n>> \in pending /\ IsForget(r)
      BY <1>0, <2>1 DEF TypeOK, IInv, JournalMatchesPC, SharedInv, KindMatchesPC
    <3>2. TakenBy(r, n)'
      BY <1>0, <2>1, <3>1 DEF TypeOK, TakenBy
    <3> QED
      BY <3>2
  <2>2. CASE n # cur[r]
    <3>1. PICK f \in Req : TakenBy(f, n)
      BY <1>0, <2>2 DEF TypeOK, IInv, RowsExplained
    <3>2. TakenBy(f, n)'
      BY <1>0, <3>1 DEF TypeOK, IInv, SharedInv, TakenBy, KindMatchesPC, ForgetOrder
    <3> QED
      BY <3>2
  <2> QED
    BY <2>1, <2>2
<1>8. LossIsRequested'
  BY <1>0 DEF TypeOK, IInv, SharedInv, LossIsRequested, KindMatchesPC, OnDisk, ForgetOrder
<1> QED
  BY <1>2, <1>3, <1>4, <1>5, <1>6, <1>7, <1>8 DEF IInv

\* The flag is set where the journal row is.
LEMMA MarkQdrantWrittenPreserves ==
  ASSUME IInv, SharedInv', NEW r \in Req, MarkQdrantWritten(r)
  PROVE  IInv'
<1> USE DEF MarkQdrantWritten
<1>0. /\ TypeOK /\ TypeOK'
      /\ \A q, n \in Req : <<q, n>> \in pending => pc[q] # "ok"
      /\ IsForget(r) <=> ~IsWrite(r)
  BY Serving DEF IInv, SharedInv
<1>1. Moves(r)
  BY <1>0 DEF Moves, TypeOK, IInv, SharedInv, KindMatchesPC, DeletePC
<1>2. RunsWhereUp' /\ LegacyUntouched' /\ RecoveryKnows'
  BY <1>0, <1>1, MovesKeep
<1>3. VectorKept'
  BY <1>0 DEF TypeOK, IInv, SharedInv, VectorKept, KindMatchesPC, ForgetOrder
<1>4. JournalMatchesPC'
  <2>1. \A q, n \in Req : Erased(q, n) => Erased(q, n)'
    BY <1>0, <1>1, MovesForward
  <2>2. \A q \in Req : Committed(q) => Committed(q)'
    BY <1>0, <1>1, MovesForward
  <2>3. ASSUME NEW q \in Req, NEW n \in Req, <<q, n>> \in pending'
        PROVE  /\ cur'[q] = n
               /\ \/ IsWrite(q)' /\ pc'[q] \in {"upsert", "mark", "commit"}
                  \/ IsForget(q)' /\ pc'[q] \in {"remove", "mark", "erase", "complete"}
                  \/ IsWrite(q)' /\ pc'[q] = "ok" /\ <<q, n>> \in completed'
               /\ pc'[q] # "ok" =>
                    (<<q, n>> \in written' <=> pc'[q] \in {"commit", "erase", "complete"})
    BY <1>0, <2>3 DEF TypeOK, IInv, SharedInv, JournalMatchesPC, KindMatchesPC
  <2>4. ASSUME NEW q \in Req, Running(q)', cur'[q] \notin contested',
               pc'[q] \in {"upsert", "remove", "mark", "commit", "erase", "complete"}
        PROVE  <<q, cur'[q]>> \in pending'
    BY <1>0, <2>4 DEF TypeOK, IInv, SharedInv, JournalMatchesPC, KindMatchesPC
  <2>5. ASSUME NEW q \in Req, NEW n \in Req, <<q, n>> \in completed'
        PROVE  (n = q /\ Committed(q)') \/ Erased(q, n)'
    BY <1>0, <2>1, <2>2, <2>5 DEF TypeOK, IInv, JournalMatchesPC
  <2> QED
    BY <2>3, <2>4, <2>5 DEF JournalMatchesPC
<1>5. VectorFirst'
  BY <1>0 DEF TypeOK, IInv, SharedInv, VectorFirst, KindMatchesPC, OnDisk, ForgetOrder
<1>6. OrphanVectorsExplained'
  <2> SUFFICES ASSUME NEW n \in Req, n \in (vectors' \ rows') \ contested'
               PROVE  <<n, n>> \in pending' \/ (pc'[n] = "mark" /\ n \in halted')
    BY <1>0 DEF TypeOK, OrphanVectorsExplained
  <2>1. n \in (vectors \ rows) \ contested
    BY <1>0 DEF TypeOK
  <2>2. <<n, n>> \in pending \/ (pc[n] = "mark" /\ n \in halted)
    BY <2>1 DEF IInv, OrphanVectorsExplained
  <2> QED
    BY <1>0, <2>1, <2>2 DEF TypeOK
<1>7. RowsExplained'
  <2> SUFFICES ASSUME NEW n \in (rows' \ vectors') \ contested'
               PROVE  (\E f \in Req : TakenBy(f, n))'
    BY DEF RowsExplained
  <2>1. PICK f \in Req : TakenBy(f, n)
    BY <1>0 DEF TypeOK, IInv, SharedInv, RowsExplained, OnDisk
  <2>2. TakenBy(f, n)'
    BY <1>0, <2>1 DEF TypeOK, IInv, SharedInv, TakenBy, KindMatchesPC, ForgetOrder
  <2> QED
    BY <2>2
<1>8. LossIsRequested'
  BY <1>0 DEF TypeOK, IInv, SharedInv, LossIsRequested, KindMatchesPC, OnDisk, ForgetOrder
<1> QED
  BY <1>2, <1>3, <1>4, <1>5, <1>6, <1>7, <1>8 DEF IInv

\* Row, invalidations and journal change in one transaction.
LEMMA CommitMemoryWritePreserves ==
  ASSUME IInv, SharedInv', NEW r \in Req, CommitMemoryWrite(r)
  PROVE  IInv'
<1> USE DEF CommitMemoryWrite
<1>0. /\ TypeOK /\ TypeOK'
      /\ \A q, n \in Req : <<q, n>> \in pending => pc[q] # "ok"
      /\ IsForget(r) <=> ~IsWrite(r)
  BY Serving DEF IInv, SharedInv
<1>1. Moves(r)
  BY <1>0 DEF Moves, TypeOK, IInv, SharedInv, KindMatchesPC, DeletePC
<1>2. RunsWhereUp' /\ LegacyUntouched' /\ RecoveryKnows'
  BY <1>0, <1>1, MovesKeep
<1>3. VectorKept'
  BY <1>0 DEF TypeOK, IInv, SharedInv, VectorKept, KindMatchesPC, ForgetOrder
<1>4. JournalMatchesPC'
  <2>1. \A q, n \in Req : Erased(q, n) => Erased(q, n)'
    BY <1>0, <1>1, MovesForward
  <2>2. \A q \in Req : Committed(q) => Committed(q)'
    BY <1>0, <1>1, MovesForward
  <2>3. ASSUME NEW q \in Req, NEW n \in Req, <<q, n>> \in pending'
        PROVE  /\ cur'[q] = n
               /\ \/ IsWrite(q)' /\ pc'[q] \in {"upsert", "mark", "commit"}
                  \/ IsForget(q)' /\ pc'[q] \in {"remove", "mark", "erase", "complete"}
                  \/ IsWrite(q)' /\ pc'[q] = "ok" /\ <<q, n>> \in completed'
               /\ pc'[q] # "ok" =>
                    (<<q, n>> \in written' <=> pc'[q] \in {"commit", "erase", "complete"})
    BY <1>0, <2>3 DEF TypeOK, IInv, SharedInv, JournalMatchesPC, KindMatchesPC
  <2>4. ASSUME NEW q \in Req, Running(q)', cur'[q] \notin contested',
               pc'[q] \in {"upsert", "remove", "mark", "commit", "erase", "complete"}
        PROVE  <<q, cur'[q]>> \in pending'
    BY <1>0, <2>4 DEF TypeOK, IInv, SharedInv, JournalMatchesPC, KindMatchesPC
  <2>5. ASSUME NEW q \in Req, NEW n \in Req, <<q, n>> \in completed'
        PROVE  (n = q /\ Committed(q)') \/ Erased(q, n)'
    <3>1. CASE <<q, n>> \in completed
      BY <2>1, <2>2, <3>1 DEF IInv, JournalMatchesPC
    <3>2. CASE q = r /\ n = cur[r]
      BY <1>0, <3>2 DEF TypeOK, IInv, SharedInv, KindMatchesPC
    <3> QED
      BY <2>5, <3>1, <3>2
  <2> QED
    BY <2>3, <2>4, <2>5 DEF JournalMatchesPC
<1>5. VectorFirst'
  BY <1>0 DEF TypeOK, IInv, SharedInv, VectorFirst, KindMatchesPC, OnDisk, ForgetOrder
<1>6. OrphanVectorsExplained'
  BY <1>0 DEF TypeOK, IInv, SharedInv, OrphanVectorsExplained, KindMatchesPC, JournalMatchesPC,
     OnDisk, ForgetOrder
<1>7. RowsExplained'
  <2> SUFFICES ASSUME NEW n \in (rows' \ vectors') \ contested'
               PROVE  (\E f \in Req : TakenBy(f, n))'
    BY DEF RowsExplained
  <2>1. n # r
    BY <1>0 DEF IInv, VectorKept, SharedInv, KindMatchesPC
  <2>2. PICK f \in Req : TakenBy(f, n)
    BY <1>0, <2>1 DEF TypeOK, IInv, RowsExplained
  <2>3. TakenBy(f, n)'
    BY <1>0, <2>2 DEF TypeOK, IInv, SharedInv, TakenBy, KindMatchesPC, ForgetOrder
  <2> QED
    BY <2>3
<1>8. LossIsRequested'
  <2>1. r \in vectors \cup contested
    BY DEF IInv, VectorKept, SharedInv, KindMatchesPC
  <2> QED
    BY <1>0, <2>1 DEF TypeOK, IInv, LossIsRequested
<1> QED
  BY <1>2, <1>3, <1>4, <1>5, <1>6, <1>7, <1>8 DEF IInv

\* The row goes when the vector is gone.
LEMMA DeleteRowPreserves ==
  ASSUME IInv, SharedInv', NEW r \in Req, DeleteRow(r)
  PROVE  IInv'
<1> USE DEF DeleteRow
<1>0. /\ TypeOK /\ TypeOK'
      /\ \A q, n \in Req : <<q, n>> \in pending => pc[q] # "ok"
      /\ IsForget(r) <=> ~IsWrite(r)
  BY Serving DEF IInv, SharedInv
<1>1. Moves(r)
  BY <1>0 DEF Moves, TypeOK, IInv, SharedInv, KindMatchesPC, DeletePC
<1>2. RunsWhereUp' /\ LegacyUntouched' /\ RecoveryKnows'
  BY <1>0, <1>1, MovesKeep
<1>3. VectorKept'
  BY <1>0 DEF TypeOK, IInv, SharedInv, VectorKept, KindMatchesPC, ForgetOrder
<1>4. JournalMatchesPC'
  <2>1. \A q, n \in Req : Erased(q, n) => Erased(q, n)'
    BY <1>0, <1>1, MovesForward
  <2>2. \A q \in Req : Committed(q) => Committed(q)'
    BY <1>0, <1>1, MovesForward
  <2>3. ASSUME NEW q \in Req, NEW n \in Req, <<q, n>> \in pending'
        PROVE  /\ cur'[q] = n
               /\ \/ IsWrite(q)' /\ pc'[q] \in {"upsert", "mark", "commit"}
                  \/ IsForget(q)' /\ pc'[q] \in {"remove", "mark", "erase", "complete"}
                  \/ IsWrite(q)' /\ pc'[q] = "ok" /\ <<q, n>> \in completed'
               /\ pc'[q] # "ok" =>
                    (<<q, n>> \in written' <=> pc'[q] \in {"commit", "erase", "complete"})
    BY <1>0, <2>3 DEF TypeOK, IInv, SharedInv, JournalMatchesPC, KindMatchesPC
  <2>4. ASSUME NEW q \in Req, Running(q)', cur'[q] \notin contested',
               pc'[q] \in {"upsert", "remove", "mark", "commit", "erase", "complete"}
        PROVE  <<q, cur'[q]>> \in pending'
    BY <1>0, <2>4 DEF TypeOK, IInv, SharedInv, JournalMatchesPC, KindMatchesPC
  <2>5. ASSUME NEW q \in Req, NEW n \in Req, <<q, n>> \in completed'
        PROVE  (n = q /\ Committed(q)') \/ Erased(q, n)'
    BY <1>0, <2>1, <2>2, <2>5 DEF TypeOK, IInv, JournalMatchesPC
  <2> QED
    BY <2>3, <2>4, <2>5 DEF JournalMatchesPC
<1>5. VectorFirst'
  BY <1>0 DEF TypeOK, IInv, SharedInv, VectorFirst, KindMatchesPC, OnDisk, ForgetOrder
<1>6. OrphanVectorsExplained'
  <2> SUFFICES ASSUME NEW n \in Req, n \in (vectors' \ rows') \ contested'
               PROVE  <<n, n>> \in pending' \/ (pc'[n] = "mark" /\ n \in halted')
    BY <1>0 DEF TypeOK, OrphanVectorsExplained
  <2>1. n \in (vectors \ rows) \ contested
    BY <1>0 DEF TypeOK, IInv, SharedInv, ForgetOrder, KindMatchesPC
  <2>2. <<n, n>> \in pending \/ (pc[n] = "mark" /\ n \in halted)
    BY <2>1 DEF IInv, OrphanVectorsExplained
  <2> QED
    BY <1>0, <2>1, <2>2 DEF TypeOK
<1>7. RowsExplained'
  <2> SUFFICES ASSUME NEW n \in (rows' \ vectors') \ contested'
               PROVE  (\E f \in Req : TakenBy(f, n))'
    BY DEF RowsExplained
  <2>1. PICK f \in Req : TakenBy(f, n)
    BY <1>0 DEF TypeOK, IInv, SharedInv, RowsExplained, OnDisk
  <2>2. TakenBy(f, n)'
    BY <1>0, <2>1 DEF TypeOK, IInv, SharedInv, TakenBy, KindMatchesPC, ForgetOrder
  <2> QED
    BY <2>2
<1>8. LossIsRequested'
  BY <1>0 DEF TypeOK, IInv, SharedInv, LossIsRequested, KindMatchesPC, OnDisk, ForgetOrder
<1> QED
  BY <1>2, <1>3, <1>4, <1>5, <1>6, <1>7, <1>8 DEF IInv

\* The op is completed when both are gone.
LEMMA CompleteForgetPreserves ==
  ASSUME IInv, SharedInv', NEW r \in Req, CompleteForget(r)
  PROVE  IInv'
<1> USE DEF CompleteForget
<1>0. /\ TypeOK /\ TypeOK'
      /\ \A q, n \in Req : <<q, n>> \in pending => pc[q] # "ok"
      /\ IsForget(r) <=> ~IsWrite(r)
  BY Serving DEF IInv, SharedInv
<1>1. Moves(r)
  BY <1>0 DEF Moves, TypeOK, IInv, SharedInv, KindMatchesPC, DeletePC
<1>2. RunsWhereUp' /\ LegacyUntouched' /\ RecoveryKnows'
  BY <1>0, <1>1, MovesKeep
<1>3. VectorKept'
  BY <1>0 DEF TypeOK, IInv, SharedInv, VectorKept, KindMatchesPC, ForgetOrder
<1>4. JournalMatchesPC'
  <2>1. \A q, n \in Req : Erased(q, n) => Erased(q, n)'
    BY <1>0, <1>1, MovesForward
  <2>2. \A q \in Req : Committed(q) => Committed(q)'
    BY <1>0, <1>1, MovesForward
  <2>3. ASSUME NEW q \in Req, NEW n \in Req, <<q, n>> \in pending'
        PROVE  /\ cur'[q] = n
               /\ \/ IsWrite(q)' /\ pc'[q] \in {"upsert", "mark", "commit"}
                  \/ IsForget(q)' /\ pc'[q] \in {"remove", "mark", "erase", "complete"}
                  \/ IsWrite(q)' /\ pc'[q] = "ok" /\ <<q, n>> \in completed'
               /\ pc'[q] # "ok" =>
                    (<<q, n>> \in written' <=> pc'[q] \in {"commit", "erase", "complete"})
    BY <1>0, <2>3 DEF TypeOK, IInv, SharedInv, JournalMatchesPC, KindMatchesPC
  <2>4. ASSUME NEW q \in Req, Running(q)', cur'[q] \notin contested',
               pc'[q] \in {"upsert", "remove", "mark", "commit", "erase", "complete"}
        PROVE  <<q, cur'[q]>> \in pending'
    BY <1>0, <2>4 DEF TypeOK, IInv, SharedInv, JournalMatchesPC, KindMatchesPC
  <2>5. ASSUME NEW q \in Req, NEW n \in Req, <<q, n>> \in completed'
        PROVE  (n = q /\ Committed(q)') \/ Erased(q, n)'
    <3>1. CASE <<q, n>> \in completed
      BY <2>1, <2>2, <3>1 DEF IInv, JournalMatchesPC
    <3>2. CASE q = r /\ n = cur[r]
      <4>1. Committed(n) /\ n \notin rows \cup vectors
        BY <1>0, <3>2 DEF IInv, SharedInv, KindMatchesPC, ForgetOrder
      <4>2. pc'[r] = "bump" /\ IsForget(r)'
        BY <1>0, <3>2 DEF TypeOK, IInv, SharedInv, KindMatchesPC
      <4> QED
        BY <1>0, <2>2, <3>2, <4>1, <4>2 DEF Erased, DeletePC
    <3> QED
      BY <2>5, <3>1, <3>2
  <2> QED
    BY <2>3, <2>4, <2>5 DEF JournalMatchesPC
<1>5. VectorFirst'
  BY <1>0 DEF TypeOK, IInv, SharedInv, VectorFirst, KindMatchesPC, OnDisk, ForgetOrder
<1>6. OrphanVectorsExplained'
  <2> SUFFICES ASSUME NEW n \in Req, n \in (vectors' \ rows') \ contested'
               PROVE  <<n, n>> \in pending' \/ (pc'[n] = "mark" /\ n \in halted')
    BY <1>0 DEF TypeOK, OrphanVectorsExplained
  <2>1. n \in (vectors \ rows) \ contested
    BY <1>0 DEF TypeOK
  <2>2. <<n, n>> \in pending \/ (pc[n] = "mark" /\ n \in halted)
    BY <2>1 DEF IInv, OrphanVectorsExplained
  <2> QED
    BY <1>0, <2>1, <2>2 DEF TypeOK, IInv, SharedInv, OnDisk, KindMatchesPC
<1>7. RowsExplained'
  <2> SUFFICES ASSUME NEW n \in (rows' \ vectors') \ contested'
               PROVE  (\E f \in Req : TakenBy(f, n))'
    BY DEF RowsExplained
  <2>1. PICK f \in Req : TakenBy(f, n)
    BY <1>0 DEF TypeOK, IInv, SharedInv, RowsExplained, OnDisk
  <2>2. TakenBy(f, n)'
    BY <1>0, <2>1 DEF TypeOK, IInv, SharedInv, TakenBy, KindMatchesPC, ForgetOrder
  <2> QED
    BY <2>2
<1>8. LossIsRequested'
  BY <1>0 DEF TypeOK, IInv, SharedInv, LossIsRequested, KindMatchesPC, OnDisk, ForgetOrder
<1> QED
  BY <1>2, <1>3, <1>4, <1>5, <1>6, <1>7, <1>8 DEF IInv

\* The journal is done with the op by now.
LEMMA BumpGenerationPreserves ==
  ASSUME IInv, SharedInv', NEW r \in Req, BumpGeneration(r)
  PROVE  IInv'
<1> USE DEF BumpGeneration
<1>0. /\ TypeOK /\ TypeOK'
      /\ \A q, n \in Req : <<q, n>> \in pending => pc[q] # "ok"
      /\ IsForget(r) <=> ~IsWrite(r)
  BY Serving DEF IInv, SharedInv
<1>1. Moves(r)
  BY <1>0 DEF Moves, TypeOK, IInv, SharedInv, KindMatchesPC, DeletePC
<1>2. RunsWhereUp' /\ LegacyUntouched' /\ RecoveryKnows'
  BY <1>0, <1>1, MovesKeep
<1>3. VectorKept'
  BY <1>0 DEF TypeOK, IInv, SharedInv, VectorKept, KindMatchesPC, ForgetOrder
<1>4. JournalMatchesPC'
  <2>1. \A q, n \in Req : Erased(q, n) => Erased(q, n)'
    BY <1>0, <1>1, MovesForward
  <2>2. \A q \in Req : Committed(q) => Committed(q)'
    BY <1>0, <1>1, MovesForward
  <2>3. ASSUME NEW q \in Req, NEW n \in Req, <<q, n>> \in pending'
        PROVE  /\ cur'[q] = n
               /\ \/ IsWrite(q)' /\ pc'[q] \in {"upsert", "mark", "commit"}
                  \/ IsForget(q)' /\ pc'[q] \in {"remove", "mark", "erase", "complete"}
                  \/ IsWrite(q)' /\ pc'[q] = "ok" /\ <<q, n>> \in completed'
               /\ pc'[q] # "ok" =>
                    (<<q, n>> \in written' <=> pc'[q] \in {"commit", "erase", "complete"})
    BY <1>0, <2>3 DEF TypeOK, IInv, SharedInv, JournalMatchesPC, KindMatchesPC
  <2>4. ASSUME NEW q \in Req, Running(q)', cur'[q] \notin contested',
               pc'[q] \in {"upsert", "remove", "mark", "commit", "erase", "complete"}
        PROVE  <<q, cur'[q]>> \in pending'
    BY <1>0, <2>4 DEF TypeOK, IInv, SharedInv, JournalMatchesPC, KindMatchesPC
  <2>5. ASSUME NEW q \in Req, NEW n \in Req, <<q, n>> \in completed'
        PROVE  (n = q /\ Committed(q)') \/ Erased(q, n)'
    BY <1>0, <2>1, <2>2, <2>5 DEF TypeOK, IInv, JournalMatchesPC
  <2> QED
    BY <2>3, <2>4, <2>5 DEF JournalMatchesPC
<1>5. VectorFirst'
  BY <1>0 DEF TypeOK, IInv, SharedInv, VectorFirst, KindMatchesPC, OnDisk, ForgetOrder
<1>6. OrphanVectorsExplained'
  BY <1>0 DEF TypeOK, IInv, SharedInv, OrphanVectorsExplained, KindMatchesPC, JournalMatchesPC,
     OnDisk, ForgetOrder
<1>7. RowsExplained'
  <2> SUFFICES ASSUME NEW n \in (rows' \ vectors') \ contested'
               PROVE  (\E f \in Req : TakenBy(f, n))'
    BY DEF RowsExplained
  <2>1. PICK f \in Req : TakenBy(f, n)
    BY <1>0 DEF TypeOK, IInv, SharedInv, RowsExplained, OnDisk
  <2>2. TakenBy(f, n)'
    BY <1>0, <2>1 DEF TypeOK, IInv, SharedInv, TakenBy, KindMatchesPC, ForgetOrder
  <2> QED
    BY <2>2
<1>8. LossIsRequested'
  BY <1>0 DEF TypeOK, IInv, SharedInv, LossIsRequested, KindMatchesPC, OnDisk, ForgetOrder
<1> QED
  BY <1>2, <1>3, <1>4, <1>5, <1>6, <1>7, <1>8 DEF IInv

\* The checks of store and forget keep the invariant.
LEMMA ChecksPreserve ==
  ASSUME IInv, SharedInv', NEW r \in Req,
         DedupCheck(r) \/ ConflictCheck(r) \/ SupersedeLookup(r) \/ GetMemory(r)
  PROVE  IInv'
<1>0. TypeOK /\ KindMatchesPC
  BY DEF IInv, SharedInv
<1> USE DEF TypeOK
<1>1. pc[r] \in {"check", "lookup"} => cur[r] = r
  BY <1>0 DEF KindMatchesPC
<1>2. SameFact(r) \in SUBSET Req /\ Supersedable(r) \in SUBSET Req /\ Similar(r) \subseteq Req
  BY <1>0, CandidatesAreIds
<1>3. CASE DedupCheck(r)
  <2>1. CASE Similar(r) = {} /\ Goto(r, "journal") /\ UNCHANGED cur
    <3>1. Advance(r, "journal", r, superseded[r])
      BY <1>0, <1>1, <1>3, <2>1 DEF DedupCheck, Advance
    <3> QED
      BY <1>0, <3>1, AdvancePreserves
  <2>2. CASE \E m \in Similar(r) : Goto(r, "rejected") /\ cur' = [cur EXCEPT ![r] = m]
    <3>1. PICK m \in Req : Goto(r, "rejected") /\ cur' = [cur EXCEPT ![r] = m]
      BY <1>2, <2>2
    <3>2. Advance(r, "rejected", m, superseded[r])
      BY <1>0, <1>3, <3>1 DEF DedupCheck, Advance
    <3> QED
      BY <1>0, <3>2, AdvancePreserves
  <2> QED
    BY <1>3, <2>1, <2>2 DEF DedupCheck
<1>4. CASE ConflictCheck(r)
  <2>1. Advance(r, "journal", r, SameFact(r)) \/ Advance(r, "rejected", r, superseded[r])
    BY <1>0, <1>1, <1>4 DEF ConflictCheck, Advance
  <2> QED
    BY <1>0, <1>2, <2>1, AdvancePreserves
<1>5. CASE SupersedeLookup(r)
  <2>1. Advance(r, "journal", r, Supersedable(r)) \/ Advance(r, "rejected", r, superseded[r])
    BY <1>0, <1>1, <1>5 DEF SupersedeLookup, Advance
  <2> QED
    BY <1>0, <1>2, <2>1, AdvancePreserves
<1>6. CASE GetMemory(r)
  <2>1. PICK m \in todo[r] :
          \/ /\ m \in rows
             /\ cur' = [cur EXCEPT ![r] = m]
             /\ Goto(r, "journal")
             /\ UNCHANGED todo
          \/ /\ m \notin rows
             /\ todo' = [todo EXCEPT ![r] = @ \ {m}]
             /\ UNCHANGED <<pc, cur>>
    BY <1>6 DEF GetMemory
  <2>2. m \in Req
    BY <1>0
  <2>3. Advance(r, "journal", m, superseded[r]) \/ SkipMissing(r, m)
    BY <1>0, <1>6, <2>1 DEF GetMemory, Advance, SkipMissing
  <2> QED
    BY <1>0, <2>2, <2>3, AdvancePreserves, SkipMissingPreserves
<1> QED
  BY <1>3, <1>4, <1>5, <1>6

\* A new request touches neither store nor journal.
LEMMA StartPreserves ==
  ASSUME IInv, SharedInv', NEW r \in Req, NEW p \in Proc, NEW i \in Inputs, Start(r, p, i)
  PROVE  IInv'
<1> USE DEF Start, JobOf
<1>0. /\ TypeOK /\ TypeOK' /\ KindMatchesPC /\ OnDisk /\ ForgetOrder
      /\ JournalMatchesPC /\ RecoveryKnows
  BY DEF IInv, SharedInv
<1>1. \A q \in Req \ {r} : pc'[q] = pc[q] /\ job'[q] = job[q]
  BY <1>0 DEF TypeOK
<1>2. /\ pc[r] = "idle" /\ ~IsWrite(r) /\ ~IsForget(r) /\ ~Committed(r)
      /\ pc'[r] \in {"check", "lookup", "get"} /\ job'[r].proc = p
  BY <1>0, InputsAssumption DEF Input, Kind, TypeOK, KindMatchesPC
<1>3. UNCHANGED <<cur, superseded, deleted, halted, diskVars, journalVars, proc, contested>>
  OBVIOUS
<1>4. /\ \A m \in Req : Committed(m) => Committed(m)'
      /\ \A q, m \in Req : Erased(q, m) => Erased(q, m)'
      /\ \A m \in Req : ForgetRequested(m) => ForgetRequested(m)'
  <2>1. \A m \in Req : Committed(m) => Committed(m)'
    BY <1>1, <1>2
  <2>2. ASSUME NEW q \in Req, NEW m \in Req, Erased(q, m) PROVE Erased(q, m)'
    <3>1. q # r
      BY <1>2, <2>2 DEF Erased
    <3> QED
      BY <1>1, <1>3, <2>1, <2>2, <3>1 DEF Erased
  <2>3. ASSUME NEW m \in Req, ForgetRequested(m) PROVE ForgetRequested(m)'
    <3>1. PICK f \in Req : pc[f] # "idle" /\ IsForget(f) /\ m \in job[f].ids
      BY <2>3
    <3>2. f # r
      BY <1>2, <3>1
    <3> QED
      BY <1>1, <3>1, <3>2
  <2> QED
    BY <2>1, <2>2, <2>3
<1>5. RunsWhereUp'
  BY <1>0, <1>1, <1>2 DEF IInv, RunsWhereUp
<1>6. VectorKept'
  BY <1>1, <1>2, <1>3 DEF IInv, VectorKept
<1>7. JournalMatchesPC'
  <2>1. \A m \in Req : <<r, m>> \notin pending \cup completed
    BY <1>0, <1>2 DEF JournalMatchesPC, Erased
  <2>2. ASSUME NEW q \in Req, NEW m \in Req, <<q, m>> \in pending
        PROVE  /\ cur[q] = m
               /\ \/ IsWrite(q)' /\ pc'[q] \in {"upsert", "mark", "commit"}
                  \/ IsForget(q)' /\ pc'[q] \in {"remove", "mark", "erase", "complete"}
                  \/ IsWrite(q)' /\ pc'[q] = "ok" /\ <<q, m>> \in completed
               /\ pc'[q] # "ok" =>
                    (<<q, m>> \in written <=> pc'[q] \in {"commit", "erase", "complete"})
    <3>1. q # r
      BY <2>1, <2>2
    <3> QED
      BY <1>0, <1>1, <2>2, <3>1 DEF JournalMatchesPC
  <2>3. ASSUME NEW q \in Req, Running(q)', cur[q] \notin contested,
               pc'[q] \in {"upsert", "remove", "mark", "commit", "erase", "complete"}
        PROVE  <<q, cur[q]>> \in pending
    <3>1. q # r
      BY <1>2, <2>3
    <3>2. Running(q)
      BY <1>1, <1>3, <2>3, <3>1
    <3> QED
      BY <1>0, <1>1, <2>3, <3>1, <3>2 DEF JournalMatchesPC
  <2>4. ASSUME NEW q \in Req, NEW m \in Req, <<q, m>> \in completed
        PROVE  (m = q /\ Committed(q)') \/ Erased(q, m)'
    BY <1>0, <1>4, <2>4 DEF JournalMatchesPC
  <2>5. UNCHANGED <<cur, pending, written, completed, rows, vectors, contested>>
    BY <1>3
  <2> HIDE DEF Start, JobOf
  <2> QED
    BY <2>2, <2>3, <2>4, <2>5 DEF JournalMatchesPC
<1>8. LegacyUntouched'
  <2>1. ASSUME NEW q \in Req, NEW m \in Req, <<q, m>> \in pending', pc'[q] = "ok" PROVE FALSE
    <3>1. <<q, m>> \in pending /\ pc[q] = "ok"
      BY <1>1, <1>2, <1>3, <2>1
    <3>2. proc[p].pc = "down" \/ proc[p].pc \in {"next", "clear"}
      BY <3>1 DEF IInv, LegacyUntouched
    <3> QED
      BY <3>2
  <2> QED
    BY <2>1 DEF LegacyUntouched
<1>9. RecoveryKnows'
  <2>1. ASSUME NEW s \in Proc, NEW m \in Req PROVE <<r, m>> \notin proc[s].seen
    BY <1>0, <1>2 DEF RecoveryKnows, Knows
  <2>2. ASSUME NEW s \in Proc, NEW q \in Req, NEW m \in Req, MayForget(s, q, m)
        PROVE  MayForget(s, q, m)'
    <3>1. q # r
      BY <1>2, <2>1, <2>2 DEF MayForget, Erased
    <3>2. CASE pc[q] # "idle" /\ ~Running(q) /\ <<q, m>> \notin written
      BY <1>1, <1>3, <3>1, <3>2 DEF MayForget
    <3> QED
      BY <1>3, <1>4, <2>2, <3>2 DEF MayForget
  <2>3. ASSUME NEW s \in Proc, NEW q \in Req, NEW m \in Req
        PROVE  /\ <<q, m>> \in proc[s].todo => pc'[q] # "idle"
               /\ <<q, m>> \in proc[s].seen =>
                    \/ IsWrite(q)' /\ m = q /\ pc'[q] \in {"commit", "bump", "ok"}
                    \/ IsForget(q)' /\ Committed(m)' /\ m \in job'[q].ids /\ m \notin vectors
               /\ proc[s].cur = <<q, m>> =>
                    /\ proc[s].pc \in {"vector", "row"} => <<q, m>> \in proc[s].seen
                    /\ proc[s].pc = "vector" => IsWrite(q)'
                    /\ proc[s].pc = "row" => m \notin vectors
                    /\ m \notin contested =>
                         /\ proc[s].pc \in {"vector", "row"} =>
                              q \in halted /\ pc'[q] \in {"commit", "erase", "complete"}
                         /\ proc[s].pc = "clear" => MayForget(s, q, m)'
    <3>1. <<q, m>> \in proc[s].todo => pc'[q] # "idle"
      BY <1>0, <1>1, <1>2 DEF RecoveryKnows, Knows
    <3>2. <<q, m>> \in proc[s].seen =>
            /\ q # r
            /\ \/ IsWrite(q)' /\ m = q /\ pc'[q] \in {"commit", "bump", "ok"}
               \/ IsForget(q)' /\ Committed(m)' /\ m \in job'[q].ids /\ m \notin vectors
      BY <1>0, <1>1, <1>4, <2>1 DEF RecoveryKnows, Knows
    <3>3. ASSUME proc[s].cur = <<q, m>>
          PROVE  /\ proc[s].pc \in {"vector", "row"} => <<q, m>> \in proc[s].seen
                 /\ proc[s].pc = "vector" => IsWrite(q)'
                 /\ proc[s].pc = "row" => m \notin vectors
                 /\ m \notin contested =>
                      /\ proc[s].pc \in {"vector", "row"} =>
                           q \in halted /\ pc'[q] \in {"commit", "erase", "complete"}
                      /\ proc[s].pc = "clear" => MayForget(s, q, m)'
      BY <1>0, <1>1, <2>2, <3>2, <3>3 DEF RecoveryKnows, Knows
    <3> QED
      BY <3>1, <3>2, <3>3
  <2> QED
    BY <1>0, <1>3, <2>3 DEF RecoveryKnows, Knows
<1>10. VectorFirst'
  BY <1>0, <1>1, <1>3 DEF IInv, VectorFirst, OnDisk, TypeOK
<1>11. OrphanVectorsExplained'
  BY <1>0, <1>1, <1>2, <1>3 DEF IInv, OrphanVectorsExplained, OnDisk, TypeOK
<1>12. RowsExplained'
  <2> SUFFICES ASSUME NEW n \in (rows' \ vectors') \ contested'
               PROVE  (\E f \in Req : TakenBy(f, n))'
    BY DEF RowsExplained
  <2>1. PICK f \in Req : TakenBy(f, n)
    BY DEF IInv, RowsExplained
  <2>2. TakenBy(f, n)'
    BY <1>1, <1>2, <1>3, <2>1 DEF TakenBy
  <2> QED
    BY <2>2
<1>13. LossIsRequested'
  <2> SUFFICES ASSUME NEW m \in Req \ contested, Committed(m)', m \notin rows \cap vectors
               PROVE  ForgetRequested(m)'
    BY <1>3 DEF LossIsRequested
  <2>1. m # r /\ Committed(m)
    BY <1>1, <1>2
  <2> QED
    BY <1>4, <2>1 DEF IInv, LossIsRequested
<1> QED
  BY <1>5, <1>6, <1>7, <1>8, <1>9, <1>10, <1>11, <1>12, <1>13 DEF IInv

-----------------------------------------------------------------------------
(* Processes: they only take from disk and journal *)

\* No step of a process runs a handler or writes for one.
Takes ==
    /\ UNCHANGED <<pc, job, cur>>
    /\ halted \subseteq halted' /\ contested \subseteq contested'
    /\ vectors' \subseteq vectors /\ rows' \subseteq rows /\ written' \subseteq written

\* So whatever another recovery knows stays true.
LEMMA TakesKeepKnown ==
  ASSUME IInv, Takes, NEW p \in Proc, proc'[p] = proc[p]
  PROVE  Knows(p)'
<1>1. Knows(p)
  BY DEF IInv, RecoveryKnows
<1>2. ASSUME NEW q \in Req, NEW m \in Req, MayForget(p, q, m) PROVE MayForget(p, q, m)'
  BY <1>2 DEF MayForget, Erased, Takes
<1> QED
  BY <1>1, <1>2 DEF Knows, Takes

\* A step that leaves the stores and the journal alone.
LEMMA DiskUntouched ==
  ASSUME IInv, Takes, UNCHANGED <<vectors, rows, pending, written>>, completed' \subseteq completed,
         completed' = completed \/ \A q, m \in Req : <<q, m>> \in pending => pc[q] # "ok"
  PROVE  /\ VectorKept' /\ JournalMatchesPC' /\ VectorFirst' /\ OrphanVectorsExplained'
         /\ RowsExplained' /\ LossIsRequested'
<1> USE DEF Takes
<1>1. VectorKept' /\ VectorFirst'
  BY DEF IInv, VectorKept, VectorFirst
<1>2. JournalMatchesPC'
  BY DEF IInv, JournalMatchesPC, Erased
<1>3. OrphanVectorsExplained'
  BY DEF IInv, OrphanVectorsExplained
<1>4. RowsExplained'
  <2> SUFFICES ASSUME NEW n \in (rows' \ vectors') \ contested'
               PROVE  (\E f \in Req : TakenBy(f, n))'
    BY DEF RowsExplained
  <2>1. PICK f \in Req : TakenBy(f, n)
    BY DEF IInv, RowsExplained
  <2>2. TakenBy(f, n)'
    BY <2>1 DEF TakenBy
  <2> QED
    BY <2>2
<1>5. LossIsRequested'
  BY DEF IInv, LossIsRequested
<1> QED
  BY <1>1, <1>2, <1>3, <1>4, <1>5

\* A running request is one of a process.
LEMMA RunsIn == ASSUME TypeOK, NEW r \in Req, Running(r) PROVE job[r].proc \in Proc
<1>1. job[r] \in Job
  BY DEF TypeOK
<1> QED
  BY <1>1 DEF Job

\* A request that stops where it is explains what it leaves behind.
LEMMA AbandonPreserves ==
  ASSUME IInv, SharedInv', NEW r \in Req, Abandon(r)
  PROVE  IInv'
<1> USE DEF Abandon
<1>1. Takes
  BY DEF Takes
<1>2. RunsWhereUp' /\ LegacyUntouched'
  BY DEF IInv, RunsWhereUp, LegacyUntouched
<1>3. RecoveryKnows'
  BY <1>1, TakesKeepKnown DEF RecoveryKnows
<1> HIDE DEF Abandon
<1> QED
  BY <1>1, <1>2, <1>3, DiskUntouched DEF IInv, Abandon

\* Recovery starts from what the journal says (list_pending_ops).
LEMMA StartProcessPreserves ==
  ASSUME IInv, SharedInv', NEW p \in Proc, StartProcess(p)
  PROVE  IInv'
<1> USE DEF StartProcess
<1>0. /\ TypeOK /\ KindMatchesPC /\ OnDisk /\ ForgetOrder /\ JournalMatchesPC
      /\ proc \in [Proc -> ProcState] /\ pending \subseteq Op /\ written \subseteq pending
  BY DEF IInv, SharedInv, TypeOK
<1>1. Takes
  BY DEF Takes
<1>2. /\ proc'[p] = [pc |-> "next", todo |-> pending, seen |-> written, cur |-> NoOp]
      /\ \A q \in Proc \ {p} : proc'[q] = proc[q]
      /\ proc[p].pc = "down"
  BY <1>0
<1>3. RunsWhereUp'
  BY <1>2 DEF IInv, RunsWhereUp
<1>4. LegacyUntouched'
  <2> SUFFICES ASSUME NEW r \in Req, NEW m \in Req, <<r, m>> \in pending, pc[r] = "ok"
               PROVE  /\ \A q \in Proc :
                           \/ proc'[q].pc = "down"
                           \/ proc'[q].pc \in {"next", "clear"} /\ <<r, m>> \in proc'[q].todo
                      /\ \A q \in Req : pc[q] \in {"idle", "ok"}
                      /\ \A q \in Proc : proc'[q].todo \subseteq completed
                      /\ vectors \subseteq rows
                      /\ rows \subseteq vectors
    BY DEF LegacyUntouched
  <2>1. /\ \A q \in Proc :
             \/ proc[q].pc = "down"
             \/ proc[q].pc \in {"next", "clear"} /\ <<r, m>> \in proc[q].todo
        /\ \A q \in Req : pc[q] \in {"idle", "ok"}
        /\ \A q \in Proc : proc[q].todo \subseteq completed
        /\ vectors \subseteq rows
        /\ rows \subseteq vectors
    BY DEF IInv, LegacyUntouched
  <2>2. pending \subseteq completed
    BY <1>0, <2>1 DEF JournalMatchesPC
  <2> QED
    BY <1>2, <2>1, <2>2
<1>5. Knows(p)'
  <2>1. ASSUME NEW r \in Req, NEW m \in Req, <<r, m>> \in pending PROVE pc[r] # "idle"
    BY <1>0, <2>1 DEF JournalMatchesPC
  <2>2. ASSUME NEW r \in Req, NEW m \in Req, <<r, m>> \in written
        PROVE  \/ IsWrite(r) /\ m = r /\ pc[r] \in {"commit", "bump", "ok"}
               \/ IsForget(r) /\ Committed(m) /\ m \in job[r].ids /\ m \notin vectors
    <3>1. cur[r] = m
      BY <1>0, <2>2 DEF JournalMatchesPC
    <3>2. CASE IsWrite(r) /\ pc[r] \in {"upsert", "mark", "commit"}
      BY <1>0, <2>2, <3>1, <3>2 DEF JournalMatchesPC, KindMatchesPC
    <3>3. CASE IsForget(r) /\ pc[r] \in {"remove", "mark", "erase", "complete"}
      BY <1>0, <2>2, <3>1, <3>3 DEF JournalMatchesPC, ForgetOrder
    <3>4. CASE IsWrite(r) /\ pc[r] = "ok"
      BY <1>0, <3>1, <3>4 DEF KindMatchesPC
    <3> QED
      BY <1>0, <2>2, <3>2, <3>3, <3>4 DEF JournalMatchesPC
  <2> QED
    BY <1>2, <2>1, <2>2 DEF Knows, NoOp
<1>6. RecoveryKnows'
  BY <1>1, <1>2, <1>5, TakesKeepKnown DEF RecoveryKnows
<1> QED
  BY <1>1, <1>3, <1>4, <1>6, DiskUntouched DEF IInv

\* Recovery looks an op up among the completed ones and decides (recover_on_startup).
LEMMA RecoverNextPreserves ==
  ASSUME IInv, SharedInv', NEW p \in Proc, RecoverNext(p)
  PROVE  IInv'
<1>0. /\ TypeOK /\ JournalMatchesPC /\ Knows(p)
      /\ proc \in [Proc -> ProcState] /\ pending \subseteq Op /\ written \subseteq pending
  BY DEF IInv, SharedInv, TypeOK, RecoveryKnows
<1>1. PICK op \in proc[p].todo :
         /\ proc' = [proc EXCEPT ![p].pc = RecoveryStep(p, op), ![p].cur = op]
         /\ contested' = IF Stale(p, op) THEN contested \cup {op[2]} ELSE contested
  BY DEF RecoverNext
<1>2. PICK r \in Req, m \in Req : op = <<r, m>>
  BY <1>0 DEF ProcState
<1>3. /\ proc'[p].pc = RecoveryStep(p, op) /\ proc'[p].cur = op
      /\ proc'[p].todo = proc[p].todo /\ proc'[p].seen = proc[p].seen
      /\ \A q \in Proc \ {p} : proc'[q] = proc[q]
      /\ proc[p].pc = "next"
  BY <1>0, <1>1 DEF RecoverNext, ProcState
<1>4. /\ UNCHANGED <<pc, job, cur, halted, vectors, rows, pending, written, completed>>
      /\ contested \subseteq contested'
  BY <1>1 DEF RecoverNext
<1>5. Takes
  BY <1>4 DEF Takes
<1>6. RecoveryStep(p, op) \in {"clear", "row", "vector"}
  BY DEF RecoveryStep
<1>7. RunsWhereUp'
  BY <1>0, <1>3, <1>4, RunsIn DEF IInv, RunsWhereUp
<1>8. LegacyUntouched'
  <2> SUFFICES ASSUME NEW q \in Req, NEW n \in Req, <<q, n>> \in pending, pc[q] = "ok"
               PROVE  /\ \A s \in Proc :
                           \/ proc'[s].pc = "down"
                           \/ proc'[s].pc \in {"next", "clear"} /\ <<q, n>> \in proc'[s].todo
                      /\ \A s \in Req : pc[s] \in {"idle", "ok"}
                      /\ \A s \in Proc : proc'[s].todo \subseteq completed
                      /\ vectors \subseteq rows
                      /\ rows \subseteq vectors
    BY <1>4 DEF LegacyUntouched
  <2>1. /\ \A s \in Proc :
             \/ proc[s].pc = "down"
             \/ proc[s].pc \in {"next", "clear"} /\ <<q, n>> \in proc[s].todo
        /\ \A s \in Req : pc[s] \in {"idle", "ok"}
        /\ \A s \in Proc : proc[s].todo \subseteq completed
        /\ vectors \subseteq rows
        /\ rows \subseteq vectors
    BY DEF IInv, LegacyUntouched
  <2>2. RecoveryStep(p, op) = "clear"
    BY <2>1 DEF RecoveryStep
  <2> QED
    BY <1>3, <2>1, <2>2
<1>9. Knows(p)'
  <2>1. /\ RecoveryStep(p, op) \in {"vector", "row"} => op \in proc[p].seen /\ op \notin completed
        /\ RecoveryStep(p, op) = "vector" => ~IsForget(r)
        /\ RecoveryStep(p, op) = "row" => IsForget(r)
        /\ RecoveryStep(p, op) = "clear" => op \in completed \/ op \notin proc[p].seen
    BY <1>2 DEF RecoveryStep
  <2>2. op \in proc[p].seen =>
          \/ IsWrite(r) /\ m = r /\ pc[r] \in {"commit", "bump", "ok"}
          \/ IsForget(r) /\ Committed(m) /\ m \in job[r].ids /\ m \notin vectors
    BY <1>0, <1>2 DEF Knows
  <2>3. ~(IsWrite(r) /\ IsForget(r))
    OBVIOUS
  <2>4. m \notin contested' =>
          op \in completed \/ (~Running(r) /\ (op \in proc[p].seen <=> op \in written))
    BY <1>1, <1>2 DEF Stale
  <2>5. ASSUME m \notin contested', RecoveryStep(p, op) \in {"vector", "row"}
        PROVE  r \in halted /\ pc[r] \in {"commit", "erase", "complete"}
    <3>1. op \in written /\ ~Running(r) /\ op \notin completed
      BY <2>1, <2>4, <2>5
    <3>2. pc[r] \in {"commit", "erase", "complete"}
      BY <1>0, <1>2, <3>1 DEF JournalMatchesPC
    <3> QED
      BY <3>1, <3>2
  <2>6. ASSUME m \notin contested', RecoveryStep(p, op) = "clear"
        PROVE  MayForget(p, r, m)'
    <3>1. CASE op \in completed
      <4>1. (m = r /\ Committed(r)) \/ Erased(r, m)
        BY <1>0, <1>2, <3>1 DEF JournalMatchesPC
      <4> QED
        BY <1>4, <4>1 DEF MayForget, Erased
    <3>2. CASE op \notin completed
      <4>1. ~Running(r) /\ op \notin written /\ pc[r] # "idle"
        BY <1>0, <1>2, <2>1, <2>4, <2>6, <3>2 DEF Knows
      <4> QED
        BY <1>2, <1>4, <4>1 DEF MayForget
    <3> QED
      BY <3>1, <3>2
  <2>7. \A q, n \in Req :
          /\ <<q, n>> \in proc[p].todo => pc[q] # "idle"
          /\ <<q, n>> \in proc[p].seen =>
               \/ IsWrite(q) /\ n = q /\ pc[q] \in {"commit", "bump", "ok"}
               \/ IsForget(q) /\ Committed(n) /\ n \in job[q].ids /\ n \notin vectors
    BY <1>0 DEF Knows
  <2>8. ASSUME NEW q \in Req, NEW n \in Req, proc'[p].cur = <<q, n>>
        PROVE  /\ proc'[p].pc \in {"vector", "row"} => <<q, n>> \in proc[p].seen
               /\ proc'[p].pc = "vector" => IsWrite(q)
               /\ proc'[p].pc = "row" => n \notin vectors
               /\ n \notin contested' =>
                    /\ proc'[p].pc \in {"vector", "row"} =>
                         q \in halted /\ pc[q] \in {"commit", "erase", "complete"}
                    /\ proc'[p].pc = "clear" => MayForget(p, q, n)'
    <3>1. q = r /\ n = m
      BY <1>2, <1>3, <2>8
    <3> QED
      BY <1>2, <1>3, <2>1, <2>2, <2>3, <2>5, <2>6, <3>1
  <2>9. proc'[p].cur # NoOp
    BY <1>2, <1>3 DEF NoOp
  <2> QED
    BY <1>3, <1>4, <2>7, <2>8, <2>9 DEF Knows
<1>10. RecoveryKnows'
  BY <1>3, <1>5, <1>9, TakesKeepKnown DEF RecoveryKnows
<1> QED
  BY <1>4, <1>5, <1>7, <1>8, <1>10, DiskUntouched DEF IInv

\* Compensating a store: its vector first.
LEMMA RecoverDeleteVectorPreserves ==
  ASSUME IInv, SharedInv', NEW p \in Proc, RecoverDeleteVector(p)
  PROVE  IInv'
<1>0. /\ TypeOK /\ OnDisk /\ JournalMatchesPC /\ Knows(p)
      /\ proc \in [Proc -> ProcState] /\ vectors \subseteq Req /\ rows \subseteq Req
  BY DEF IInv, SharedInv, TypeOK, RecoveryKnows
<1>1. PICK r \in Req, m \in Req : proc[p].cur = <<r, m>>
  BY <1>0 DEF ProcState, RecoverDeleteVector, Knows
<1>2. /\ <<r, m>> \in proc[p].seen /\ IsWrite(r) /\ m = r
      /\ m \notin contested => r \in halted /\ pc[r] = "commit"
  <2>1. /\ <<r, m>> \in proc[p].seen /\ IsWrite(r)
        /\ m \notin contested => r \in halted /\ pc[r] \in {"commit", "erase", "complete"}
    BY <1>0, <1>1 DEF Knows, RecoverDeleteVector
  <2>2. m = r /\ pc[r] \in {"commit", "bump", "ok"}
    BY <1>0, <2>1 DEF Knows
  <2> QED
    BY <2>1, <2>2
<1>3. /\ vectors' = vectors \ {m} /\ UNCHANGED <<pc, job, cur, halted, rows, pending, written,
                                                completed, contested>>
      /\ proc'[p] = [proc[p] EXCEPT !.pc = "row"] /\ proc[p].pc = "vector"
      /\ proc'[p].pc = "row" /\ proc'[p].cur = proc[p].cur
      /\ proc'[p].todo = proc[p].todo /\ proc'[p].seen = proc[p].seen
      /\ \A q \in Proc \ {p} : proc'[q] = proc[q]
  BY <1>0, <1>1 DEF RecoverDeleteVector, ProcState
<1>4. Takes
  BY <1>3 DEF Takes
<1>5. RunsWhereUp'
  BY <1>0, <1>3, RunsIn DEF IInv, RunsWhereUp
<1>6. LegacyUntouched'
  BY <1>3 DEF IInv, LegacyUntouched
<1>7. Knows(p)'
  BY <1>0, <1>1, <1>2, <1>3 DEF Knows, NoOp
<1>8. RecoveryKnows'
  BY <1>3, <1>4, <1>7, TakesKeepKnown DEF RecoveryKnows
<1>9. VectorKept' /\ VectorFirst'
  BY <1>2, <1>3 DEF IInv, VectorKept, VectorFirst
<1>10. JournalMatchesPC'
  BY <1>0, <1>3 DEF JournalMatchesPC, Erased
<1>11. OrphanVectorsExplained'
  BY <1>3 DEF IInv, OrphanVectorsExplained
<1>12. RowsExplained'
  <2> SUFFICES ASSUME NEW n \in (rows' \ vectors') \ contested'
               PROVE  (\E f \in Req : TakenBy(f, n))'
    BY DEF RowsExplained
  <2>1. n # m
    BY <1>0, <1>2, <1>3 DEF OnDisk
  <2>2. PICK f \in Req : TakenBy(f, n)
    BY <1>3, <2>1 DEF IInv, RowsExplained
  <2>3. TakenBy(f, n)'
    BY <1>3, <2>2 DEF TakenBy
  <2> QED
    BY <2>3
<1>13. LossIsRequested'
  BY <1>0, <1>2, <1>3 DEF IInv, LossIsRequested
<1> QED
  BY <1>5, <1>6, <1>8, <1>9, <1>10, <1>11, <1>12, <1>13 DEF IInv

\* Then, or to finish a forget, the row.
LEMMA RecoverDeleteRowPreserves ==
  ASSUME IInv, SharedInv', NEW p \in Proc, RecoverDeleteRow(p)
  PROVE  IInv'
<1>0. /\ TypeOK /\ OnDisk /\ JournalMatchesPC /\ Knows(p)
      /\ proc \in [Proc -> ProcState] /\ vectors \subseteq Req /\ rows \subseteq Req
  BY DEF IInv, SharedInv, TypeOK, RecoveryKnows
<1>1. PICK r \in Req, m \in Req : proc[p].cur = <<r, m>>
  BY <1>0 DEF ProcState, RecoverDeleteRow, Knows
<1>2. /\ <<r, m>> \in proc[p].seen /\ m \notin vectors
      /\ m \notin contested => r \in halted /\ pc[r] \in {"commit", "erase", "complete"}
      /\ \/ IsWrite(r) /\ m = r /\ pc[r] \in {"commit", "bump", "ok"}
         \/ IsForget(r) /\ Committed(m) /\ m \in job[r].ids
  BY <1>0, <1>1 DEF Knows, RecoverDeleteRow
<1>3. /\ rows' = rows \ {m} /\ UNCHANGED <<pc, job, cur, halted, vectors, pending, written,
                                          completed, contested>>
      /\ proc'[p] = [proc[p] EXCEPT !.pc = "clear"] /\ proc[p].pc = "row"
      /\ proc'[p].pc = "clear" /\ proc'[p].cur = proc[p].cur
      /\ proc'[p].todo = proc[p].todo /\ proc'[p].seen = proc[p].seen
      /\ \A q \in Proc \ {p} : proc'[q] = proc[q]
  BY <1>0, <1>1 DEF RecoverDeleteRow, ProcState
<1>4. Takes
  BY <1>3 DEF Takes
<1>5. RunsWhereUp'
  BY <1>0, <1>3, RunsIn DEF IInv, RunsWhereUp
<1>6. LegacyUntouched'
  BY <1>3 DEF IInv, LegacyUntouched
<1>7. Knows(p)'
  <2>1. m \notin contested => MayForget(p, r, m)'
    BY <1>2, <1>3 DEF MayForget
  <2> QED
    BY <1>0, <1>1, <1>2, <1>3, <2>1 DEF Knows, NoOp
<1>8. RecoveryKnows'
  BY <1>3, <1>4, <1>7, TakesKeepKnown DEF RecoveryKnows
<1>9. VectorKept' /\ VectorFirst'
  BY <1>2, <1>3 DEF IInv, VectorKept, VectorFirst
<1>10. JournalMatchesPC'
  BY <1>0, <1>3 DEF JournalMatchesPC, Erased
<1>11. OrphanVectorsExplained'
  BY <1>2, <1>3 DEF IInv, OrphanVectorsExplained
<1>12. RowsExplained'
  <2> SUFFICES ASSUME NEW n \in (rows' \ vectors') \ contested'
               PROVE  (\E f \in Req : TakenBy(f, n))'
    BY DEF RowsExplained
  <2>1. PICK f \in Req : TakenBy(f, n)
    BY <1>3 DEF IInv, RowsExplained
  <2>2. TakenBy(f, n)'
    BY <1>3, <2>1 DEF TakenBy
  <2> QED
    BY <2>2
<1>13. LossIsRequested'
  <2> SUFFICES ASSUME NEW n \in Req \ contested, Committed(n), n \notin rows' \cap vectors
               PROVE  ForgetRequested(n)
    BY <1>3 DEF LossIsRequested
  <2>1. n = m => IsForget(r) /\ m \in job[r].ids /\ pc[r] # "idle"
    BY <1>2
  <2> QED
    BY <1>3, <2>1 DEF IInv, LossIsRequested
<1> QED
  BY <1>5, <1>6, <1>8, <1>9, <1>10, <1>11, <1>12, <1>13 DEF IInv

\* Then the journal row: recovery is through with the op.
LEMMA RecoverClearPreserves ==
  ASSUME IInv, SharedInv', NEW p \in Proc, RecoverClear(p)
  PROVE  IInv'
<1>0. /\ TypeOK /\ OnDisk /\ JournalMatchesPC /\ Knows(p)
      /\ proc \in [Proc -> ProcState] /\ vectors \subseteq Req /\ rows \subseteq Req
  BY DEF IInv, SharedInv, TypeOK, RecoveryKnows
<1>1. PICK r \in Req, m \in Req : proc[p].cur = <<r, m>>
  BY <1>0 DEF ProcState, RecoverClear, Knows
<1>2. m \notin contested => MayForget(p, r, m)
  BY <1>0, <1>1 DEF Knows, RecoverClear
<1>3. /\ pending' = pending \ {<<r, m>>} /\ written' = written \ {<<r, m>>}
      /\ UNCHANGED <<pc, job, cur, halted, vectors, rows, completed, contested>>
      /\ proc[p].pc = "clear"
      /\ proc'[p].pc = "next" /\ proc'[p].cur = NoOp
      /\ proc'[p].todo = proc[p].todo \ {<<r, m>>} /\ proc'[p].seen = proc[p].seen
      /\ \A q \in Proc \ {p} : proc'[q] = proc[q]
  BY <1>0, <1>1 DEF RecoverClear, ProcState
<1>4. Takes
  BY <1>3 DEF Takes
<1>5. RunsWhereUp'
  BY <1>0, <1>3, RunsIn DEF IInv, RunsWhereUp
<1>6. LegacyUntouched'
  BY <1>3 DEF IInv, LegacyUntouched
<1>7. Knows(p)'
  BY <1>0, <1>3 DEF Knows, NoOp
<1>8. RecoveryKnows'
  BY <1>3, <1>4, <1>7, TakesKeepKnown DEF RecoveryKnows
<1>9. VectorKept' /\ VectorFirst'
  BY <1>3 DEF IInv, VectorKept, VectorFirst
<1>10. JournalMatchesPC'
  <2>1. \A q, n \in Req : Erased(q, n) => Erased(q, n)'
    BY <1>3 DEF Erased
  <2>2. ASSUME NEW q \in Req, NEW n \in Req, <<q, n>> \in pending'
        PROVE  /\ cur[q] = n
               /\ \/ IsWrite(q) /\ pc[q] \in {"upsert", "mark", "commit"}
                  \/ IsForget(q) /\ pc[q] \in {"remove", "mark", "erase", "complete"}
                  \/ IsWrite(q) /\ pc[q] = "ok" /\ <<q, n>> \in completed
               /\ pc[q] # "ok" =>
                    (<<q, n>> \in written' <=> pc[q] \in {"commit", "erase", "complete"})
    BY <1>0, <1>3, <2>2 DEF JournalMatchesPC
  <2>3. ASSUME NEW q \in Req, Running(q), cur[q] \notin contested,
               pc[q] \in {"upsert", "remove", "mark", "commit", "erase", "complete"}
        PROVE  <<q, cur[q]>> \in pending'
    <3>1. <<q, cur[q]>> \in pending
      BY <1>0, <2>3 DEF JournalMatchesPC
    <3>2. ~MayForget(p, q, cur[q])
      <4>1. cur[q] \in Req
        BY <1>0 DEF TypeOK
      <4>2. IsForget(q) => pc[q] \in DeletePC
        BY <1>0, <3>1, <4>1 DEF JournalMatchesPC, DeletePC
      <4>3. ~Erased(q, cur[q])
        BY <4>2 DEF Erased
      <4> QED
        BY <2>3, <4>3 DEF MayForget
    <3> QED
      BY <1>2, <1>3, <2>3, <3>1, <3>2
  <2> QED
    BY <1>0, <1>3, <2>1, <2>2, <2>3 DEF JournalMatchesPC
<1>11. OrphanVectorsExplained'
  <2> SUFFICES ASSUME NEW n \in Req, n \in (vectors \ rows) \ contested
               PROVE  <<n, n>> \in pending' \/ (pc[n] = "mark" /\ n \in halted)
    BY <1>0, <1>3 DEF OrphanVectorsExplained
  <2>1. <<n, n>> \in pending \/ (pc[n] = "mark" /\ n \in halted)
    BY DEF IInv, OrphanVectorsExplained
  <2>2. ASSUME <<n, n>> \in pending, n = r, n = m PROVE pc[n] = "mark" /\ n \in halted
    <3>1. IsWrite(n) /\ ~IsForget(n) /\ ~Committed(n)
      BY <1>0 DEF OnDisk, IInv, VectorFirst
    <3>2. ~Running(n) /\ <<n, n>> \notin written
      BY <1>2, <2>2, <3>1 DEF MayForget, Erased
    <3>3. pc[n] \in {"mark", "commit"}
      BY <1>0, <3>1 DEF OnDisk
    <3> QED
      BY <1>0, <2>2, <3>2, <3>3 DEF JournalMatchesPC
  <2> QED
    BY <1>3, <2>1, <2>2
<1>12. RowsExplained'
  <2> SUFFICES ASSUME NEW n \in (rows' \ vectors') \ contested'
               PROVE  (\E f \in Req : TakenBy(f, n))'
    BY DEF RowsExplained
  <2>1. PICK f \in Req : TakenBy(f, n)
    BY <1>3 DEF IInv, RowsExplained
  <2>2. CASE f = r /\ n = m /\ <<f, n>> \in pending
    <3>1. IsForget(f) /\ cur[f] = n /\ n \in rows /\ ~IsWrite(f)
      BY <1>3, <2>1 DEF TakenBy
    <3>2. ~Running(f) /\ <<f, n>> \notin written
      BY <1>2, <1>3, <2>2, <3>1 DEF MayForget, Erased
    <3>3. pc[f] = "mark" /\ f \in halted
      BY <1>0, <2>1, <2>2, <3>2 DEF JournalMatchesPC, TakenBy
    <3> QED
      BY <1>3, <2>1, <3>3 DEF TakenBy
  <2>3. CASE ~(f = r /\ n = m /\ <<f, n>> \in pending)
    BY <1>3, <2>1, <2>3 DEF TakenBy
  <2> QED
    BY <2>2, <2>3
<1>13. LossIsRequested'
  BY <1>3 DEF IInv, LossIsRequested
<1> QED
  BY <1>5, <1>6, <1>8, <1>9, <1>10, <1>11, <1>12, <1>13 DEF IInv

\* Pruning completed ops and serving: no op of an older build is left by then.
LEMMA RecoverDonePreserves ==
  ASSUME IInv, SharedInv', NEW p \in Proc, RecoverDone(p)
  PROVE  IInv'
<1>0. TypeOK /\ Knows(p) /\ proc \in [Proc -> ProcState]
  BY DEF IInv, SharedInv, TypeOK, RecoveryKnows
<1>1. /\ completed' \subseteq completed
      /\ UNCHANGED <<pc, job, cur, halted, vectors, rows, pending, written, contested>>
      /\ proc[p].pc = "next" /\ proc[p].todo = {}
      /\ proc'[p].pc = "up" /\ proc'[p].cur = proc[p].cur
      /\ proc'[p].todo = proc[p].todo /\ proc'[p].seen = proc[p].seen
      /\ \A q \in Proc \ {p} : proc'[q] = proc[q]
  BY <1>0 DEF RecoverDone, ProcState
<1>2. Takes
  BY <1>1 DEF Takes
<1>3. \A q, m \in Req : <<q, m>> \in pending => pc[q] # "ok"
  BY <1>1 DEF IInv, LegacyUntouched
<1>4. RunsWhereUp' /\ LegacyUntouched'
  BY <1>0, <1>1, <1>3, RunsIn DEF IInv, RunsWhereUp, LegacyUntouched
<1>5. Knows(p)'
  BY <1>0, <1>1 DEF Knows
<1>6. RecoveryKnows'
  BY <1>1, <1>2, <1>5, TakesKeepKnown DEF RecoveryKnows
<1> QED
  BY <1>1, <1>2, <1>3, <1>4, <1>6, DiskUntouched DEF IInv

\* A crash stops the requests of its process, and nothing else.
LEMMA CrashPreserves ==
  ASSUME IInv, SharedInv', NEW p \in Proc, Crash(p)
  PROVE  IInv'
<1>0. TypeOK /\ proc \in [Proc -> ProcState]
  BY DEF IInv, SharedInv, TypeOK
<1>1. /\ halted' = halted \cup {r \in Req : Running(r) /\ job[r].proc = p}
      /\ UNCHANGED <<pc, job, cur, vectors, rows, pending, written, completed, contested>>
      /\ proc'[p] = Down
      /\ \A q \in Proc \ {p} : proc'[q] = proc[q]
  BY <1>0 DEF Crash
<1>2. Takes
  BY <1>1 DEF Takes
<1>3. RunsWhereUp'
  BY <1>0, <1>1, RunsIn DEF IInv, RunsWhereUp
<1>4. LegacyUntouched'
  BY <1>1 DEF IInv, LegacyUntouched, Down
<1>5. Knows(p)'
  BY <1>1 DEF Knows, Down, NoOp
<1>6. RecoveryKnows'
  BY <1>1, <1>2, <1>5, TakesKeepKnown DEF RecoveryKnows
<1> QED
  BY <1>1, <1>2, <1>3, <1>4, <1>6, DiskUntouched DEF IInv

-----------------------------------------------------------------------------
(* The inductive invariant holds *)

\* The databases the program starts from satisfy the invariant.
LEMMA InvInit == Init => IInv
<1> SUFFICES ASSUME Init PROVE IInv
  OBVIOUS
<1>1. TypeOK
  BY TypeInit
<1>2. /\ \A r \in Req : pc[r] = IF r \in Legacy THEN "ok" ELSE "idle"
      /\ \A r \in Req : cur[r] = r /\ deleted[r] = {} /\ todo[r] = {}
      /\ \A p \in Proc : proc[p] = Down
      /\ \A r, m \in Req : <<r, m>> \in pending <=> r \in Legacy /\ m = r
  BY DEF Init
<1>3. \A r \in Req : job[r].kind = IF r \in Legacy THEN "store" ELSE "none"
  <2>1. PICK stored \in [Legacy -> {i \in Inputs : i.kind = "store"}], p \in Proc :
          job = [r \in Req |-> IF r \in Legacy THEN JobOf(stored[r], p) ELSE NoJob]
    BY DEF Init
  <2> QED
    BY <2>1 DEF JobOf, NoJob
<1>4. /\ vectors = Legacy /\ rows = Legacy /\ invalid = {} /\ halted = {}
      /\ written = pending /\ completed = pending
  BY DEF Init
<1>5. SharedInv
  BY LegacyAssumption, <1>1, <1>2, <1>3, <1>4
  DEF SharedInv, KindMatchesPC, OnDisk, ForgetOrder, InvalidatedByCommitted
<1>6. RunsWhereUp /\ VectorKept /\ VectorFirst
  BY <1>2, <1>4 DEF RunsWhereUp, VectorKept, VectorFirst
<1>7. JournalMatchesPC /\ LegacyUntouched
  BY <1>2, <1>3, <1>4 DEF JournalMatchesPC, LegacyUntouched, Down
<1>8. RecoveryKnows
  BY <1>2 DEF RecoveryKnows, Knows, Down, NoOp
<1>9. OrphanVectorsExplained /\ RowsExplained
  BY <1>4 DEF OrphanVectorsExplained, RowsExplained
<1>10. LossIsRequested
  BY <1>2, <1>3, <1>4 DEF LossIsRequested
<1> QED
  BY <1>5, <1>6, <1>7, <1>8, <1>9, <1>10 DEF IInv

\* Every step of the processes, their requests and their recoveries keeps the invariant.
LEMMA InvStep == IInv /\ [Next]_vars => IInv'
<1> SUFFICES ASSUME IInv, [Next]_vars PROVE IInv'
  OBVIOUS
<1>1. SharedInv'
  BY SharedStep DEF IInv
<1>2. ASSUME NEW r \in Req, NEW p \in Proc, NEW i \in Inputs, Start(r, p, i) PROVE IInv'
  BY <1>1, <1>2, StartPreserves
<1>3. ASSUME NEW r \in Req, RequestStep(r) PROVE IInv'
  BY <1>1, <1>3, ChecksPreserve, ForgetDonePreserves, InsertPendingOpPreserves,
     UpsertVectorPreserves, DeleteVectorPreserves, MarkQdrantWrittenPreserves,
     CommitMemoryWritePreserves, DeleteRowPreserves, CompleteForgetPreserves,
     BumpGenerationPreserves
  DEF RequestStep
<1>4. ASSUME NEW r \in Req, Abandon(r) PROVE IInv'
  BY <1>1, <1>4, AbandonPreserves
<1>5. ASSUME NEW p \in Proc, StartProcess(p) PROVE IInv'
  BY <1>1, <1>5, StartProcessPreserves
<1>6. ASSUME NEW p \in Proc, Recover(p) PROVE IInv'
  BY <1>1, <1>6, RecoverNextPreserves, RecoverDeleteVectorPreserves,
     RecoverDeleteRowPreserves, RecoverClearPreserves, RecoverDonePreserves
  DEF Recover
<1>7. ASSUME NEW p \in Proc, Crash(p) PROVE IInv'
  BY <1>1, <1>7, CrashPreserves
<1>8. CASE UNCHANGED vars
  <2>1. Takes /\ UNCHANGED <<vectors, rows, pending, written, completed, proc>>
    BY <1>8 DEF vars, Takes
  <2>2. RunsWhereUp' /\ LegacyUntouched'
    BY <1>8 DEF vars, IInv, RunsWhereUp, LegacyUntouched
  <2>3. RecoveryKnows'
    BY <2>1, TakesKeepKnown DEF RecoveryKnows
  <2> QED
    BY <1>1, <2>1, <2>2, <2>3, DiskUntouched DEF IInv
<1> QED
  BY <1>2, <1>3, <1>4, <1>5, <1>6, <1>7, <1>8 DEF Next, Work

(***************************************************************************)
(* The inductive invariant holds of every reachable state, however many    *)
(* processes use the database and recover beside one another               *)
(* (execute_write, execute_delete, recover_on_startup).                    *)
(***************************************************************************)
THEOREM InvariantHolds == Spec => []IInv
  BY InvInit, InvStep, PTL DEF Spec

(***************************************************************************)
(* Qdrant and SQLite disagree about a memory only while the journal names  *)
(* it, or after its handler stopped in the window between the Qdrant call  *)
(* and mark_qdrant_written (write.rs:76-79, forget.rs:46-51), or where a   *)
(* recovery took its op from under a handler of another process.           *)
(***************************************************************************)
THEOREM StoresAgreeAlways == Spec => []StoresAgree
<1>1. IInv => StoresAgree
  BY DEF IInv, StoresAgree, OrphanRowsExplained, RowsExplained, TakenBy
<1> QED
  BY InvariantHolds, <1>1, PTL

(***************************************************************************)
(* recover_on_startup (service.rs:185) and failing requests never lose a   *)
(* committed store nobody asked to forget, unless a recovery decided about *)
(* its op while another process was not through with it.                   *)
(***************************************************************************)
THEOREM CommittedStoresDurable == Spec => []CommittedStoreDurable
<1>1. IInv => CommittedStoreDurable
  BY DEF IInv, CommittedStoreDurable, LossIsRequested
<1> QED
  BY InvariantHolds, <1>1, PTL

(***************************************************************************)
(* A fact commit_memory_write invalidated has its replacement in place, or *)
(* somebody asked to forget the replacement, or a recovery contested it.   *)
(***************************************************************************)
THEOREM InvalidationsReplaced == Spec => []InvalidationHasReplacement
<1>1. IInv => InvalidationHasReplacement
  BY DEF IInv, SharedInv, TypeOK, InvalidationHasReplacement, InvalidatedByCommitted,
     LossIsRequested
<1> QED
  BY InvariantHolds, <1>1, PTL

(***************************************************************************)
(* What forget reported as deleted (forget.rs:60) never comes back, though *)
(* other processes store, forget and recover over the same database.       *)
(***************************************************************************)
THEOREM ForgottenIsGone == Spec => []ForgottenStaysGone
<1>1. IInv => ForgottenStaysGone
  BY DEF IInv, SharedInv, ForgottenStaysGone, ForgetOrder
<1> QED
  BY InvariantHolds, <1>1, PTL

(***************************************************************************)
(* Whatever else uses the database, a fact is marked invalid only if a     *)
(* store that replaced it committed (commit_memory_write): a rejected, a   *)
(* failed or an undone check leaves it valid.                              *)
(***************************************************************************)
THEOREM InvalidationsCommitted == Spec => []InvalidatedByCommitted
<1>1. IInv => InvalidatedByCommitted
  BY DEF IInv, SharedInv
<1> QED
  BY InvariantHolds, <1>1, PTL

-----------------------------------------------------------------------------
(* The stores and their journal implement MemoryLife *)

\* What MemoryLife says of a memory is where its request is, whether both
\* stores have it and whether its row is valid.
LEMMA LifeStutters ==
  ASSUME \A m \in Req : /\ LifeOf(m)' = LifeOf(m)
                        /\ ToldOf(m)' = ToldOf(m)
                        /\ ForgetRequested(m)' <=> ForgetRequested(m),
         UNCHANGED <<deleted, contested>>
  PROVE  UNCHANGED Lives!vars
<1>1. [m \in Req |-> LifeOf(m)]' = [m \in Req |-> LifeOf(m)]
  BY DEF LifeOf
<1>2. [m \in Req |-> ToldOf(m)]' = [m \in Req |-> ToldOf(m)]
  BY DEF ToldOf
<1>3. {m \in Req : ForgetRequested(m)}' = {m \in Req : ForgetRequested(m)}
  OBVIOUS
<1> QED
  BY <1>1, <1>2, <1>3 DEF Lives!vars

\* Both stores have the memories they had, valid or not as before.
SameMemories ==
    \A m \in Req : /\ m \in (rows \cap vectors)' <=> m \in rows \cap vectors
                   /\ m \in (rows \cap vectors) => (m \in invalid' <=> m \in invalid)

\* A request moves on without committing and without an answer.
LEMMA MoveStutters ==
  ASSUME TypeOK, NEW r \in Req, NEW next, Goto(r, next),
         UNCHANGED <<job, deleted, contested>>, SameMemories,
         pc[r] # "idle" /\ next # "idle" /\ pc[r] # "rejected" /\ next # "rejected",
         IsWrite(r) => pc[r] \notin {"bump", "ok"} /\ next \notin {"bump", "ok"}
  PROVE  UNCHANGED Lives!vars
<1>1. \A m \in Req : m # r => pc'[m] = pc[m]
  BY DEF TypeOK
<1>2. pc'[r] = next
  BY DEF TypeOK
<1>3. \A m \in Req : Committed(m)' <=> Committed(m)
  BY <1>1, <1>2
<1>4. ASSUME NEW m \in Req
      PROVE  /\ LifeOf(m)' = LifeOf(m)
             /\ ToldOf(m)' = ToldOf(m)
             /\ ForgetRequested(m)' <=> ForgetRequested(m)
  <2>1. LifeOf(m)' = LifeOf(m)
    BY <1>3 DEF LifeOf, SameMemories
  <2>2. ToldOf(m)' = ToldOf(m)
    BY <1>1, <1>2 DEF ToldOf
  <2>3. ForgetRequested(m)' <=> ForgetRequested(m)
    BY <1>1, <1>2
  <2> QED
    BY <2>1, <2>2, <2>3
<1> QED
  BY <1>4, LifeStutters

\* Neither a request nor a process that stops, starts or recovers is seen, as long
\* as both stores keep their memories.
LEMMA RestStutters ==
  ASSUME UNCHANGED <<pc, job, deleted, contested>>, SameMemories
  PROVE  UNCHANGED Lives!vars
<1>1. \A m \in Req : LifeOf(m)' = LifeOf(m)
  BY DEF LifeOf, SameMemories
<1>2. \A m \in Req : ToldOf(m)' = ToldOf(m)
  BY DEF ToldOf
<1> QED
  BY <1>1, <1>2, LifeStutters

\* Memories become contested, and that is all.
ContestLives(ids) ==
    contested' = contested \cup ids /\ UNCHANGED <<pc, job, deleted, diskVars>>

LEMMA ContestIsLives ==
  ASSUME NEW ids \in SUBSET Req, ContestLives(ids)
  PROVE  Lives!Contest(ids)
<1> USE DEF ContestLives
<1>1. [m \in Req |-> LifeOf(m)]' = [m \in Req |-> LifeOf(m)]
  BY DEF LifeOf
<1>2. [m \in Req |-> ToldOf(m)]' = [m \in Req |-> ToldOf(m)]
  BY DEF ToldOf
<1>3. {m \in Req : ForgetRequested(m)}' = {m \in Req : ForgetRequested(m)}
  OBVIOUS
<1>4. (UNION {deleted[f] : f \in Req})' = UNION {deleted[f] : f \in Req}
  OBVIOUS
<1> QED
  BY <1>1, <1>2, <1>3, <1>4 DEF Lives!Contest

\* A forget asks for its ids; a store asks for nothing.
LEMMA StartLives ==
  ASSUME IInv, NEW r \in Req, NEW p \in Proc, NEW i \in Inputs, Start(r, p, i)
  PROVE  [Lives!Next]_(Lives!vars)
<1> DEFINE ids == IF i.kind = "forget" THEN i.ids ELSE {}
<1>1. i \in Input
  BY InputsAssumption
<1>2. ids \in SUBSET Req
  BY <1>1 DEF Input
<1>3. /\ job'[r].kind = i.kind /\ job'[r].ids = i.ids
      /\ pc'[r] \in {"check", "lookup", "get"}
      /\ \A m \in Req \ {r} : pc'[m] = pc[m] /\ job'[m] = job[m]
  BY <1>1 DEF Start, JobOf, Input, Kind, IInv, SharedInv, TypeOK
<1>4. pc[r] = "idle" /\ ~IsWrite(r) /\ ~IsForget(r)
  BY DEF Start, IInv, SharedInv, KindMatchesPC
<1>5. ASSUME NEW m \in Req PROVE LifeOf(m)' = LifeOf(m) /\ ToldOf(m)' = ToldOf(m)
  <2>1. Committed(m)' <=> Committed(m)
    BY <1>3, <1>4
  <2>2. LifeOf(m)' = LifeOf(m)
    BY <2>1 DEF LifeOf, Start
  <2>3. ToldOf(m)' = ToldOf(m)
    BY <1>3, <1>4 DEF ToldOf
  <2> QED
    BY <2>2, <2>3
<1>6. ASSUME NEW m \in Req PROVE ForgetRequested(m)' <=> ForgetRequested(m) \/ m \in ids
  <2>1. pc'[r] # "idle" /\ IsForget(r)' /\ m \in job'[r].ids <=> m \in ids
    BY <1>3
  <2>2. \A f \in Req \ {r} : (pc'[f] # "idle" /\ IsForget(f)' /\ m \in job'[f].ids)
                               <=> (pc[f] # "idle" /\ IsForget(f) /\ m \in job[f].ids)
    BY <1>3
  <2> QED
    BY <1>4, <2>1, <2>2
<1>7. deleted' = deleted /\ contested' = contested
  BY DEF Start
<1> HIDE DEF ids
<1>8. Lives!AskToForget(ids)
  <2>1. {m \in Req : ForgetRequested(m)}' = {m \in Req : ForgetRequested(m)} \cup ids
    BY <1>2, <1>6
  <2>2. [m \in Req |-> LifeOf(m)]' = [m \in Req |-> LifeOf(m)]
    BY <1>5
  <2>3. [m \in Req |-> ToldOf(m)]' = [m \in Req |-> ToldOf(m)]
    BY <1>5
  <2> QED
    BY <1>7, <2>1, <2>2, <2>3 DEF Lives!AskToForget
<1> QED
  BY <1>2, <1>8 DEF Lives!Next

\* A check that fails answers its request: nothing was stored.
LEMMA RejectionLives ==
  ASSUME IInv, NEW r \in Req, pc[r] \in {"check", "lookup"}, Goto(r, "rejected"),
         UNCHANGED <<job, deleted, diskVars, contested>>
  PROVE  Lives!Answer(r)
<1>1. /\ pc'[r] = "rejected"
      /\ \A m \in Req \ {r} : pc'[m] = pc[m]
  BY DEF IInv, SharedInv, TypeOK
<1>2. ToldOf(r) = "none" /\ ToldOf(r)' = "rejected"
  BY <1>1 DEF ToldOf
<1>3. r \notin rows /\ LifeOf(r) = "unborn"
  BY DEF IInv, SharedInv, OnDisk, LifeOf
<1>4. \A m \in Req : LifeOf(m)' = LifeOf(m)
  BY <1>1 DEF LifeOf
<1>5. \A m \in Req : ForgetRequested(m)' <=> ForgetRequested(m)
  BY <1>1
<1>6. \A m \in Req \ {r} : ToldOf(m)' = ToldOf(m)
  BY <1>1 DEF ToldOf
<1>7. [m \in Req |-> ToldOf(m)]' =
        [[m \in Req |-> ToldOf(m)] EXCEPT ![r] = IF LifeOf(r) = "unborn" THEN "rejected" ELSE "stored"]
  BY <1>2, <1>3, <1>6
<1>8. [m \in Req |-> LifeOf(m)]' = [m \in Req |-> LifeOf(m)]
  BY <1>4
<1>9. {m \in Req : ForgetRequested(m)}' = {m \in Req : ForgetRequested(m)}
  BY <1>5
<1> QED
  BY <1>2, <1>7, <1>8, <1>9 DEF Lives!Answer

\* The four checks: silent or a rejection.
LEMMA ChecksLive ==
  ASSUME IInv, NEW r \in Req,
         DedupCheck(r) \/ ConflictCheck(r) \/ SupersedeLookup(r) \/ GetMemory(r) \/ ForgetDone(r)
  PROVE  [Lives!Next]_(Lives!vars)
<1>1. SameMemories \/ ~UNCHANGED diskVars
  BY DEF SameMemories
<1>2. UNCHANGED <<job, deleted, diskVars, contested>>
  BY DEF DedupCheck, ConflictCheck, SupersedeLookup, GetMemory, ForgetDone
<1>3. CASE GetMemory(r) /\ UNCHANGED pc
  BY <1>1, <1>2, <1>3, RestStutters
<1>4. CASE /\ pc[r] \in {"check", "lookup"}
           /\ Goto(r, "rejected")
  BY <1>2, <1>4, RejectionLives DEF Lives!Next
<1>5. CASE pc[r] \in {"check", "lookup", "get"} /\ Goto(r, "journal")
  BY <1>1, <1>2, <1>5, MoveStutters DEF IInv, SharedInv
<1>6. CASE ForgetDone(r)
  <2>1. pc[r] = "get" /\ Goto(r, "ok") /\ ~IsWrite(r)
    BY <1>6 DEF ForgetDone, IInv, SharedInv, KindMatchesPC
  <2> QED
    BY <1>1, <1>2, <2>1, MoveStutters DEF IInv, SharedInv
<1> QED
  BY <1>3, <1>4, <1>5, <1>6 DEF DedupCheck, ConflictCheck, SupersedeLookup, GetMemory

\* Before its transaction a store has no row, and after its delete from Qdrant a
\* forgotten memory has no vector: what the handlers do there is not seen.
LEMMA JournalStepsSilent ==
  ASSUME IInv, NEW r \in Req,
         \/ InsertPendingOp(r) \/ UpsertVector(r) \/ MarkQdrantWritten(r)
         \/ DeleteRow(r) \/ CompleteForget(r)
  PROVE  UNCHANGED Lives!vars
<1> USE DEF IInv, SharedInv
<1>1. IsForget(r) <=> ~IsWrite(r)
  BY Serving
     DEF InsertPendingOp, UpsertVector, MarkQdrantWritten, DeleteRow, CompleteForget
<1>2. CASE InsertPendingOp(r)
  BY <1>2, MoveStutters DEF InsertPendingOp, SameMemories
<1>3. CASE UpsertVector(r)
  <2>1. r \notin rows
    BY <1>3 DEF UpsertVector, SharedInv, OnDisk
  <2>2. SameMemories
    BY <1>3, <2>1 DEF UpsertVector, SameMemories
  <2> QED
    BY <1>3, <2>2, MoveStutters DEF UpsertVector
<1>4. CASE MarkQdrantWritten(r)
  BY <1>4, MoveStutters DEF MarkQdrantWritten, SameMemories
<1>5. CASE DeleteRow(r)
  <2>1. cur[r] \notin vectors /\ ~IsWrite(r)
    BY <1>1, <1>5 DEF DeleteRow, ForgetOrder, KindMatchesPC
  <2>2. SameMemories
    BY <1>5, <2>1 DEF DeleteRow, SameMemories
  <2> QED
    BY <1>5, <2>1, <2>2, MoveStutters DEF DeleteRow
<1>6. CASE CompleteForget(r)
  <2>1. ~IsWrite(r)
    BY <1>1, <1>6 DEF CompleteForget, KindMatchesPC
  <2> QED
    BY <1>6, <2>1, MoveStutters DEF CompleteForget, SameMemories
<1> QED
  BY <1>2, <1>3, <1>4, <1>5, <1>6

\* commit_memory_write gives birth to one memory in place of at most one other.
LEMMA CommitLives ==
  ASSUME IInv, OneReplaced, NEW r \in Req, CommitMemoryWrite(r)
  PROVE  Lives!Next
<1> USE DEF CommitMemoryWrite
<1>1. IsWrite(r) /\ pc[r] = "commit" /\ r \in vectors \cup contested
  BY DEF IInv, VectorKept, SharedInv, KindMatchesPC
<1>2. r \notin rows /\ r \notin invalid
  BY <1>1 DEF IInv, SharedInv, OnDisk, TypeOK
<1>3. /\ pc'[r] = "bump"
      /\ \A m \in Req \ {r} : pc'[m] = pc[m]
  BY DEF IInv, SharedInv, TypeOK
<1>4. LifeOf(r) = "unborn" /\ ToldOf(r) = "none"
  BY <1>1, <1>2 DEF LifeOf, ToldOf
<1>5. PICK born \in {"current", "forgotten"} :
         LifeOf(r)' = born /\ (born = "forgotten" => r \in contested)
  <2>1. r \in rows' /\ r \notin invalid' /\ vectors' = vectors /\ Committed(r)'
    BY <1>1, <1>2, <1>3
  <2>2. LifeOf(r)' = IF r \in vectors THEN "current" ELSE "forgotten"
    BY <2>1 DEF LifeOf
  <2> QED
    BY <1>1, <2>2
<1>6. ASSUME NEW k \in Req \ {r}
      PROVE  LifeOf(k)' = IF k \in superseded[r] /\ LifeOf(k) = "current" THEN "superseded"
                          ELSE LifeOf(k)
  <2>1. Committed(k)' <=> Committed(k)
    BY <1>3, <1>6
  <2>2. /\ k \in (rows \cap vectors)' <=> k \in rows \cap vectors
        /\ k \in rows => (k \in invalid' <=> k \in invalid \/ k \in superseded[r])
    BY <1>6
  <2> QED
    BY <2>1, <2>2 DEF LifeOf
<1>7. \A m \in Req : ToldOf(m)' = ToldOf(m)
  BY <1>1, <1>3 DEF ToldOf
<1>8. \A m \in Req : ForgetRequested(m)' <=> ForgetRequested(m)
  BY <1>1, <1>3
<1>9. [m \in Req |-> LifeOf(m)]' =
        [k \in Req |-> IF k = r THEN born
                       ELSE IF k \in superseded[r] /\ [m \in Req |-> LifeOf(m)][k] = "current"
                            THEN "superseded"
                       ELSE [m \in Req |-> LifeOf(m)][k]]
  BY <1>5, <1>6
<1>10. [m \in Req |-> ToldOf(m)]' = [m \in Req |-> ToldOf(m)]
  BY <1>7
<1>11. {m \in Req : ForgetRequested(m)}' = {m \in Req : ForgetRequested(m)}
  BY <1>8
<1>12. Lives!Store(r, superseded[r])
  BY <1>4, <1>5, <1>9, <1>10, <1>11 DEF Lives!Store
<1>13. superseded[r] = {} \/ \E k \in Req : superseded[r] = {k}
  BY DEF OneReplaced, IInv, SharedInv, TypeOK
<1> QED
  BY <1>12, <1>13 DEF Lives!Next

\* A forget's delete from Qdrant forgets a memory both stores have.
LEMMA DeleteVectorLives ==
  ASSUME IInv, NEW r \in Req, DeleteVector(r)
  PROVE  [Lives!Next]_(Lives!vars)
<1> USE DEF DeleteVector
<1>0. PICK c \in Req : c = cur[r]
  BY DEF IInv, SharedInv, TypeOK
<1>1. /\ IsForget(r) /\ ~IsWrite(r)
      /\ Committed(c) /\ c \in job[r].ids
  BY <1>0 DEF IInv, SharedInv, TypeOK, KindMatchesPC, ForgetOrder
<1>2. /\ pc'[r] = "mark"
      /\ \A m \in Req \ {r} : pc'[m] = pc[m]
  BY DEF IInv, SharedInv, TypeOK
<1>3. CASE c \notin rows \cap vectors
  <2>1. SameMemories
    BY <1>0, <1>3 DEF SameMemories
  <2> QED
    BY <1>1, <2>1, MoveStutters DEF IInv, SharedInv
<1>4. CASE c \in rows \cap vectors
  <2>1. LifeOf(c) \in {"current", "superseded"} /\ ForgetRequested(c)
    BY <1>1, <1>4 DEF LifeOf
  <2>2. LifeOf(c)' = "forgotten"
    BY <1>0, <1>1, <1>2 DEF LifeOf
  <2>3. ASSUME NEW m \in Req \ {c} PROVE LifeOf(m)' = LifeOf(m)
    <3>1. Committed(m)' <=> Committed(m)
      BY <1>1, <1>2
    <3> QED
      BY <1>0, <2>3, <3>1 DEF LifeOf
  <2>4. \A m \in Req : ToldOf(m)' = ToldOf(m)
    BY <1>1, <1>2 DEF ToldOf
  <2>5. \A m \in Req : ForgetRequested(m)' <=> ForgetRequested(m)
    BY <1>2
  <2>6. deleted' = deleted /\ contested' = contested
    OBVIOUS
  <2> HIDE DEF DeleteVector
  <2>7. [m \in Req |-> LifeOf(m)]' = [[m \in Req |-> LifeOf(m)] EXCEPT ![c] = "forgotten"]
    BY <2>2, <2>3
  <2>8. [m \in Req |-> ToldOf(m)]' = [m \in Req |-> ToldOf(m)]
    BY <2>4
  <2>9. {m \in Req : ForgetRequested(m)}' = {m \in Req : ForgetRequested(m)}
    BY <2>5
  <2>10. Lives!Forget(c)
    BY <2>1, <2>6, <2>7, <2>8, <2>9 DEF Lives!Forget
  <2> QED
    BY <2>10 DEF Lives!Next
<1> QED
  BY <1>3, <1>4

\* The last step of a store answers it, that of a forget reports its memory.
LEMMA BumpLives ==
  ASSUME IInv, NEW r \in Req, BumpGeneration(r)
  PROVE  Lives!Next
<1> USE DEF BumpGeneration
<1>0. IsForget(r) <=> ~IsWrite(r)
  BY Serving
<1>1. /\ pc[r] = "bump" /\ pc'[r] = Either(r, "ok", "get")
      /\ \A m \in Req \ {r} : pc'[m] = pc[m]
  BY DEF IInv, SharedInv, TypeOK
<1>2. \A m \in Req : LifeOf(m)' = LifeOf(m)
  <2>1. \A m \in Req : Committed(m)' <=> Committed(m)
    BY <1>0, <1>1
  <2> QED
    BY <2>1 DEF LifeOf
<1>3. \A m \in Req : ForgetRequested(m)' <=> ForgetRequested(m)
  BY <1>1
<1>4. \A m \in Req \ {r} : ToldOf(m)' = ToldOf(m)
  BY <1>1 DEF ToldOf
<1>5. [m \in Req |-> LifeOf(m)]' = [m \in Req |-> LifeOf(m)]
  BY <1>2
<1>6. {m \in Req : ForgetRequested(m)}' = {m \in Req : ForgetRequested(m)}
  BY <1>3
<1>7. CASE IsWrite(r)
  <2>1. ToldOf(r) = "none" /\ ToldOf(r)' = "stored"
    BY <1>0, <1>1, <1>7 DEF ToldOf
  <2>2. LifeOf(r) # "unborn"
    BY <1>1, <1>7 DEF LifeOf
  <2>3. deleted' = deleted /\ contested' = contested
    BY <1>0, <1>7 DEF IInv, SharedInv, TypeOK
  <2> HIDE DEF BumpGeneration
  <2>4. [m \in Req |-> ToldOf(m)]' =
          [[m \in Req |-> ToldOf(m)] EXCEPT ![r] = IF LifeOf(r) = "unborn" THEN "rejected" ELSE "stored"]
    BY <1>4, <2>1, <2>2
  <2>5. Lives!Answer(r)
    BY <1>5, <1>6, <2>1, <2>3, <2>4 DEF Lives!Answer
  <2> QED
    BY <2>5 DEF Lives!Next
<1>8. CASE IsForget(r)
  <2>1. ToldOf(r)' = ToldOf(r)
    BY <1>0, <1>1, <1>8 DEF ToldOf
  <2>2. PICK c \in Req : c = cur[r] /\ Committed(c) /\ c \notin rows \cup vectors
    BY <1>1, <1>8 DEF IInv, SharedInv, TypeOK, ForgetOrder
  <2>3. LifeOf(c) = "forgotten"
    BY <2>2 DEF LifeOf
  <2>4. /\ deleted' = [deleted EXCEPT ![r] = @ \cup {c}] /\ deleted \in [Req -> SUBSET Req]
        /\ contested' = contested
    BY <1>8, <2>2 DEF IInv, SharedInv, TypeOK
  <2> HIDE DEF BumpGeneration
  <2>5. (UNION {deleted[f] : f \in Req})' = (UNION {deleted[f] : f \in Req}) \cup {c}
    <3>1. \A f \in Req : deleted'[f] = IF f = r THEN deleted[f] \cup {c} ELSE deleted[f]
      BY <2>4
    <3>2. \A x : (\E f \in Req : x \in deleted'[f])
                  <=> (\E f \in Req : x \in deleted[f]) \/ x = c
      BY <3>1
    <3> QED
      BY <3>2
  <2>6. [m \in Req |-> ToldOf(m)]' = [m \in Req |-> ToldOf(m)]
    BY <1>4, <2>1
  <2>7. Lives!Report(c)
    BY <1>5, <1>6, <2>2, <2>3, <2>4, <2>5, <2>6 DEF Lives!Report
  <2> QED
    BY <2>2, <2>7 DEF Lives!Next
<1> QED
  BY <1>0, <1>7, <1>8

\* Recovery deletes vectors that have no row, rows that have no vector, and memories it contests.
LEMMA RecoveryLives ==
  ASSUME IInv, NEW p \in Proc, Recover(p)
  PROVE  [Lives!Next]_(Lives!vars)
<1>0. Knows(p) /\ proc \in [Proc -> ProcState] /\ TypeOK /\ OnDisk
  BY DEF IInv, SharedInv, TypeOK, RecoveryKnows
<1>1. CASE RecoverDeleteVector(p)
  <2>1. PICK q \in Req, c \in Req : proc[p].cur = <<q, c>>
    BY <1>0, <1>1 DEF ProcState, RecoverDeleteVector, Knows
  <2>2. vectors' = vectors \ {c} /\ UNCHANGED <<pc, job, deleted, rows, invalid, contested>>
    BY <1>1, <2>1 DEF RecoverDeleteVector
  <2>3. CASE c \notin rows \cap vectors
    <3>1. SameMemories
      BY <2>2, <2>3 DEF SameMemories
    <3> QED
      BY <2>2, <3>1, RestStutters
  <2>4. CASE c \in rows \cap vectors
    <3>1. IsWrite(q) /\ <<q, c>> \in proc[p].seen
      BY <1>0, <1>1, <2>1 DEF Knows, RecoverDeleteVector
    <3>2. c \in contested
      <4>1. c = q
        BY <1>0, <3>1 DEF Knows
      <4>2. c \notin contested => pc[q] \in {"commit", "erase", "complete"}
        BY <1>0, <1>1, <2>1 DEF Knows, RecoverDeleteVector
      <4>3. Committed(c)
        BY <1>0, <2>4 DEF OnDisk
      <4> QED
        BY <4>1, <4>2, <4>3
    <3>3. LifeOf(c) \in {"current", "superseded"}
      BY <2>4 DEF LifeOf
    <3>4. LifeOf(c)' = "forgotten"
      BY <1>0, <2>2, <2>4 DEF LifeOf, OnDisk
    <3>5. \A m \in Req \ {c} : LifeOf(m)' = LifeOf(m)
      BY <2>2 DEF LifeOf
    <3>6. \A m \in Req : ToldOf(m)' = ToldOf(m)
      BY <2>2 DEF ToldOf
    <3>7. \A m \in Req : ForgetRequested(m)' <=> ForgetRequested(m)
      BY <2>2
    <3>8. [m \in Req |-> LifeOf(m)]' =
            [m \in Req |-> IF m \in {c} /\ [k \in Req |-> LifeOf(k)][m] # "unborn"
                           THEN "forgotten" ELSE [k \in Req |-> LifeOf(k)][m]]
      BY <3>3, <3>4, <3>5
    <3>9. [m \in Req |-> ToldOf(m)]' = [m \in Req |-> ToldOf(m)]
      BY <3>6
    <3>10. {m \in Req : ForgetRequested(m)}' = {m \in Req : ForgetRequested(m)}
      BY <3>7
    <3>11. {c} \in SUBSET Req /\ Lives!Lose({c})
      BY <2>2, <3>2, <3>8, <3>9, <3>10 DEF Lives!Lose
    <3> QED
      BY <3>11 DEF Lives!Next
  <2> QED
    BY <2>3, <2>4
<1>2. CASE RecoverDeleteRow(p)
  <2>1. PICK q \in Req, c \in Req : proc[p].cur = <<q, c>>
    BY <1>0, <1>2 DEF ProcState, RecoverDeleteRow, Knows
  <2>2. c \notin vectors
    BY <1>0, <1>2, <2>1 DEF RecoverDeleteRow, Knows
  <2>3. SameMemories
    BY <1>2, <2>1, <2>2 DEF RecoverDeleteRow, SameMemories
  <2> QED
    BY <1>2, <2>3, RestStutters DEF RecoverDeleteRow
<1>3. CASE RecoverClear(p) \/ RecoverDone(p)
  BY <1>3, RestStutters DEF RecoverClear, RecoverDone, SameMemories
<1>4. CASE RecoverNext(p)
  <2>1. PICK ids \in SUBSET Req : contested' = contested \cup ids
    <3>1. PICK op \in proc[p].todo :
            contested' = IF Stale(p, op) THEN contested \cup {op[2]} ELSE contested
      BY <1>4 DEF RecoverNext
    <3>2. op[2] \in Req
      BY <1>0 DEF ProcState
    <3>3. CASE contested' = contested
      <4>1. contested' = contested \cup {} /\ {} \in SUBSET Req
        BY <3>3
      <4> QED
        BY <4>1
    <3>4. CASE contested' = contested \cup {op[2]}
      BY <3>2, <3>4
    <3> QED
      BY <3>1, <3>3, <3>4
  <2>2. UNCHANGED <<pc, job, deleted, diskVars>>
    BY <1>4 DEF RecoverNext
  <2>3. ContestLives(ids)
    BY <2>1, <2>2 DEF ContestLives
  <2> QED
    BY <2>3, ContestIsLives DEF Lives!Next
<1> QED
  BY <1>1, <1>2, <1>3, <1>4 DEF Recover

\* Every step of the service is one of MemoryLife's or changes nothing it speaks of.
LEMMA LifeStep ==
  ASSUME IInv, OneReplaced, [Next]_vars
  PROVE  [Lives!Next]_(Lives!vars)
<1>1. ASSUME NEW r \in Req, RequestStep(r) PROVE [Lives!Next]_(Lives!vars)
  BY <1>1, ChecksLive, JournalStepsSilent, CommitLives, DeleteVectorLives, BumpLives
  DEF RequestStep
<1>2. ASSUME NEW r \in Req, Abandon(r) PROVE UNCHANGED Lives!vars
  BY <1>2, RestStutters DEF Abandon, SameMemories
<1>3. ASSUME NEW p \in Proc, StartProcess(p) \/ Crash(p) PROVE UNCHANGED Lives!vars
  BY <1>3, RestStutters DEF StartProcess, Crash, SameMemories
<1>4. CASE UNCHANGED vars
  BY <1>4, RestStutters DEF vars, SameMemories
<1> QED
  BY <1>1, <1>2, <1>3, <1>4, StartLives, RecoveryLives DEF Next, Work

\* What an older build stored is current from the start, and replaces nothing.
LEMMA LifeInit == Init => Lives!Init /\ OneReplaced
<1> SUFFICES ASSUME Init PROVE Lives!Init /\ OneReplaced
  OBVIOUS
<1>0. \A r \in Req : job[r].kind = IF r \in Legacy THEN "store" ELSE "none"
  <2>1. PICK stored \in [Legacy -> {i \in Inputs : i.kind = "store"}], p \in Proc :
          job = [r \in Req |-> IF r \in Legacy THEN JobOf(stored[r], p) ELSE NoJob]
    BY DEF Init
  <2> QED
    BY <2>1 DEF JobOf, NoJob
<1>1. /\ rows = Legacy /\ vectors = Legacy /\ invalid = {}
      /\ \A r \in Req : pc[r] = IF r \in Legacy THEN "ok" ELSE "idle"
      /\ \A r \in Req : deleted[r] = {} /\ contested = {}
  BY DEF Init
<1>2. \A m \in Req : /\ LifeOf(m) = IF m \in Legacy THEN "current" ELSE "unborn"
                     /\ ToldOf(m) = IF m \in Legacy THEN "stored" ELSE "none"
                     /\ ~ForgetRequested(m)
  BY <1>0, <1>1 DEF LifeOf, ToldOf
<1>3. UNION {deleted[f] : f \in Req} = {}
  BY <1>1
<1>4. [m \in Req |-> LifeOf(m)] \in [Req -> {"unborn", "current"}]
  BY <1>2
<1>5. [m \in Req |-> ToldOf(m)] =
        [m \in Req |-> IF [k \in Req |-> LifeOf(k)][m] = "current" THEN "stored" ELSE "none"]
  BY <1>2
<1>6. {m \in Req : ForgetRequested(m)} = {}
  BY <1>2
<1>7. Lives!Init
  BY <1>1, <1>3, <1>4, <1>5, <1>6 DEF Lives!Init, Init
<1>8. OneReplaced
  BY <1>1 DEF Init, OneReplaced
<1> QED
  BY <1>7, <1>8

\* ConflictCheck and SupersedeLookup pick at most one memory, and no other step
\* writes what they picked.
LEMMA OneReplacedStep == TypeOK /\ OneReplaced /\ [Next]_vars => OneReplaced'
<1> SUFFICES ASSUME TypeOK, OneReplaced, [Next]_vars PROVE OneReplaced'
  OBVIOUS
<1>1. ASSUME NEW r \in Req, NEW next, next # "lookup", Goto(r, next),
             UNCHANGED <<job, superseded>>
      PROVE  OneReplaced'
  BY <1>1 DEF OneReplaced, TypeOK
<1>2. ASSUME NEW r \in Req, NEW next, next # "lookup", Goto(r, next), UNCHANGED job,
             NEW s \in SUBSET Req, \A m, n \in s : m = n,
             superseded' = [superseded EXCEPT ![r] = s]
      PROVE  OneReplaced'
  BY <1>2 DEF OneReplaced, TypeOK
<1>3. UNCHANGED <<pc, job, superseded>> => OneReplaced'
  BY DEF OneReplaced
<1>4. ASSUME NEW r \in Req, NEW p \in Proc, NEW i \in Inputs, Start(r, p, i)
      PROVE  OneReplaced'
  BY <1>4, InputsAssumption DEF Start, JobOf, OneReplaced, TypeOK, Input, Kind
<1>5. ASSUME NEW r \in Req, DedupCheck(r) \/ ForgetDone(r) PROVE OneReplaced'
  BY <1>1, <1>5 DEF DedupCheck, ForgetDone
<1>6. ASSUME NEW r \in Req, ConflictCheck(r) PROVE OneReplaced'
  <2>1. UNCHANGED job
    BY <1>6 DEF ConflictCheck
  <2>2. CASE Goto(r, "rejected") /\ UNCHANGED superseded
    BY <1>1, <2>1, <2>2
  <2>3. CASE /\ Resolvable(r) /\ Goto(r, "journal")
             /\ superseded' = [superseded EXCEPT ![r] = SameFact(r)]
    <3>1. \A m, n \in SameFact(r) : m = n
      BY <2>3 DEF Resolvable
    <3> QED
      BY <1>2, <2>1, <2>3, <3>1, CandidatesAreIds
  <2> QED
    BY <1>6, <2>2, <2>3 DEF ConflictCheck
<1>7. ASSUME NEW r \in Req, SupersedeLookup(r) PROVE OneReplaced'
  <2>1. \A m, n \in Supersedable(r) : m = n
    BY <1>7 DEF SupersedeLookup, Supersedable, OneReplaced
  <2> QED
    BY <1>1, <1>2, <1>7, <2>1, CandidatesAreIds DEF SupersedeLookup
<1>8. ASSUME NEW r \in Req, GetMemory(r) PROVE OneReplaced'
  BY <1>1, <1>3, <1>8 DEF GetMemory
<1>9. ASSUME NEW r \in Req,
             \/ InsertPendingOp(r) \/ UpsertVector(r) \/ DeleteVector(r)
             \/ MarkQdrantWritten(r) \/ CommitMemoryWrite(r) \/ DeleteRow(r)
             \/ CompleteForget(r) \/ BumpGeneration(r)
      PROVE  OneReplaced'
  BY <1>1, <1>9 DEF InsertPendingOp, UpsertVector, DeleteVector, MarkQdrantWritten,
     CommitMemoryWrite, DeleteRow, CompleteForget, BumpGeneration
<1>10. ASSUME NEW p \in Proc, Recover(p) PROVE OneReplaced'
  BY <1>3, <1>10 DEF Recover, RecoverNext, RecoverDeleteVector, RecoverDeleteRow,
     RecoverClear, RecoverDone
<1> QED
  BY <1>3, <1>4, <1>5, <1>6, <1>7, <1>8, <1>9, <1>10
  DEF Next, Work, RequestStep, Abandon, StartProcess, Crash, vars

(***************************************************************************)
(* The two stores, their journal and the recoveries of any number of       *)
(* processes implement MemoryLife: a memory is born in one transaction, is *)
(* replaced only by a birth, is forgotten only on request, and no crash,   *)
(* recovery or failed call (execute_write, execute_delete,                 *)
(* recover_on_startup) changes what a recall would find of it, but for a   *)
(* recovery that took its op from under another process.                   *)
(***************************************************************************)
THEOREM MemoryLifeKept == Spec => MemoryLifePromise
<1>1. IInv /\ OneReplaced /\ [Next]_vars => [Lives!Next]_(Lives!vars)
  BY LifeStep
<1>2. IInv /\ OneReplaced /\ [Next]_vars => (IInv /\ OneReplaced)'
  BY InvStep, OneReplacedStep DEF IInv, SharedInv
<1> QED
  BY <1>1, <1>2, InvInit, LifeInit, PTL
  DEF Spec, MemoryLifePromise, Lives!LifeSpec

\* ToldIsSo follows from MemoryLife alone: no store, journal or recovery is needed any more.
LEMMA LivesTruly ==
  ASSUME TypeOK, TypeOK', Lives!ToldIsSo, [Lives!Next]_(Lives!vars)
  PROVE  Lives!ToldIsSo'
<1> DEFINE Told(m) == /\ ToldOf(m) = "stored" => LifeOf(m) # "unborn"
                      /\ ToldOf(m) = "rejected" => LifeOf(m) = "unborn"
           Asked(m) == LifeOf(m) = "forgotten" => ForgetRequested(m) \/ m \in contested
           Reported == UNION {deleted[f] : f \in Req}
           Gone(m) == m \in Reported => LifeOf(m) = "forgotten"
           SameLife == \A m \in Req : LifeOf(m)' = LifeOf(m)
           SameTold == \A m \in Req : ToldOf(m)' = ToldOf(m)
           SameAsked == \A m \in Req : ForgetRequested(m)' <=> ForgetRequested(m)
<1> HIDE DEF ForgetRequested
<1>1. \A m \in Req : Told(m) /\ Asked(m) /\ Gone(m)
  BY DEF Lives!ToldIsSo
<1>2. ASSUME \A m \in Req : (Told(m) /\ Asked(m) /\ Gone(m))' PROVE Lives!ToldIsSo'
  <2>1. \A m \in (UNION {deleted[f] : f \in Req})' : m \in Req
    BY DEF TypeOK
  <2> QED
    BY <1>2, <2>1 DEF Lives!ToldIsSo
<1>3. /\ UNCHANGED [m \in Req |-> LifeOf(m)] => SameLife
      /\ UNCHANGED [m \in Req |-> ToldOf(m)] => SameTold
      /\ UNCHANGED {m \in Req : ForgetRequested(m)} => SameAsked
  OBVIOUS
<1>4. ASSUME NEW k \in Req, NEW s, Lives!Store(k, s)
      PROVE  \A m \in Req : (Told(m) /\ Asked(m) /\ Gone(m))'
  <2>1. LifeOf(k) = "unborn" /\ ToldOf(k) = "none"
    BY <1>4 DEF Lives!Store
  <2>2. PICK born \in {"current", "forgotten"} :
          /\ born = "forgotten" => k \in contested
          /\ \A m \in Req : LifeOf(m)' = IF m = k THEN born
                                      ELSE IF m \in s /\ LifeOf(m) = "current" THEN "superseded"
                                      ELSE LifeOf(m)
    <3>1. PICK born \in {"current", "forgotten"} :
            /\ born = "forgotten" => k \in contested
            /\ [m \in Req |-> LifeOf(m)]' =
                 [m \in Req |->
                           IF m = k THEN born
                           ELSE IF m \in s /\ LifeOf(m) = "current" THEN "superseded"
                           ELSE LifeOf(m)]
      BY <1>4 DEF Lives!Store
    <3> QED
      BY <3>1
  <2>3. SameTold /\ SameAsked /\ Reported' = Reported /\ contested' = contested
    BY <1>3, <1>4 DEF Lives!Store
  <2> QED
    BY <1>1, <2>1, <2>2, <2>3
<1>5. ASSUME NEW ids \in SUBSET Req, Lives!AskToForget(ids)
      PROVE  \A m \in Req : (Told(m) /\ Asked(m) /\ Gone(m))'
  <2>1. SameLife /\ SameTold /\ Reported' = Reported /\ contested' = contested
    BY <1>3, <1>5 DEF Lives!AskToForget
  <2>2. \A m \in Req : ForgetRequested(m) => ForgetRequested(m)'
    <3>1. {m \in Req : ForgetRequested(m)}' = {m \in Req : ForgetRequested(m)} \cup ids
      BY <1>5 DEF Lives!AskToForget
    <3> QED
      BY <3>1
  <2> QED
    BY <1>1, <2>1, <2>2
<1>6. ASSUME NEW k \in Req, Lives!Forget(k)
      PROVE  \A m \in Req : (Told(m) /\ Asked(m) /\ Gone(m))'
  <2>1. ForgetRequested(k) /\ LifeOf(k) \in {"current", "superseded"}
    BY <1>6 DEF Lives!Forget
  <2>2. \A m \in Req : LifeOf(m)' = IF m = k THEN "forgotten" ELSE LifeOf(m)
    <3>1. [m \in Req |-> LifeOf(m)]' = [[m \in Req |-> LifeOf(m)] EXCEPT ![k] = "forgotten"]
      BY <1>6 DEF Lives!Forget
    <3> QED
      BY <3>1
  <2>3. SameTold /\ SameAsked /\ Reported' = Reported /\ contested' = contested
    BY <1>3, <1>6 DEF Lives!Forget
  <2> QED
    BY <1>1, <2>1, <2>2, <2>3
<1>7. ASSUME NEW k \in Req, Lives!Answer(k)
      PROVE  \A m \in Req : (Told(m) /\ Asked(m) /\ Gone(m))'
  <2>1. \A m \in Req : ToldOf(m)' = IF m = k THEN IF LifeOf(k) = "unborn" THEN "rejected" ELSE "stored"
                                    ELSE ToldOf(m)
    <3>1. [m \in Req |-> ToldOf(m)]' =
            [[m \in Req |-> ToldOf(m)] EXCEPT ![k] = IF LifeOf(k) = "unborn" THEN "rejected" ELSE "stored"]
      BY <1>7 DEF Lives!Answer
    <3> QED
      BY <3>1
  <2>2. SameLife /\ SameAsked /\ Reported' = Reported /\ contested' = contested
    BY <1>3, <1>7 DEF Lives!Answer
  <2> QED
    BY <1>1, <2>1, <2>2
<1>8. ASSUME NEW k \in Req, Lives!Report(k)
      PROVE  \A m \in Req : (Told(m) /\ Asked(m) /\ Gone(m))'
  <2>1. LifeOf(k) = "forgotten" /\ Reported' = Reported \cup {k}
    BY <1>8 DEF Lives!Report
  <2>2. SameLife /\ SameTold /\ SameAsked /\ contested' = contested
    BY <1>3, <1>8 DEF Lives!Report
  <2> QED
    BY <1>1, <2>1, <2>2
<1>9. ASSUME NEW ids \in SUBSET Req, Lives!Contest(ids)
      PROVE  \A m \in Req : (Told(m) /\ Asked(m) /\ Gone(m))'
  <2>1. SameLife /\ SameTold /\ SameAsked /\ Reported' = Reported /\ contested \subseteq contested'
    BY <1>3, <1>9 DEF Lives!Contest
  <2> QED
    BY <1>1, <2>1
<1>10. ASSUME NEW ids \in SUBSET Req, Lives!Lose(ids)
      PROVE  \A m \in Req : (Told(m) /\ Asked(m) /\ Gone(m))'
  <2>1. \A m \in Req : LifeOf(m)' = IF m \in ids /\ LifeOf(m) # "unborn" THEN "forgotten"
                                    ELSE LifeOf(m)
    <3>1. [m \in Req |-> LifeOf(m)]' =
            [m \in Req |-> IF m \in ids /\ LifeOf(m) # "unborn" THEN "forgotten" ELSE LifeOf(m)]
      BY <1>10 DEF Lives!Lose
    <3> QED
      BY <3>1
  <2>2. SameTold /\ SameAsked /\ Reported' = Reported /\ contested' = contested /\ ids \subseteq contested
    BY <1>3, <1>10 DEF Lives!Lose
  <2> QED
    BY <1>1, <2>1, <2>2
<1>11. ASSUME UNCHANGED Lives!vars
      PROVE  \A m \in Req : (Told(m) /\ Asked(m) /\ Gone(m))'
  <2>1. SameLife /\ SameTold /\ SameAsked /\ Reported' = Reported /\ contested' = contested
    BY <1>3, <1>11 DEF Lives!vars
  <2> QED
    BY <1>1, <2>1
<1> QED
  BY <1>2, <1>4, <1>5, <1>6, <1>7, <1>8, <1>9, <1>10, <1>11 DEF Lives!Next

(***************************************************************************)
(* An acknowledged store exists, or somebody asked to forget it, or a      *)
(* recovery took its op from under it; a rejected one never appears        *)
(* (MemoryService::store); and an id reported as deleted (forget.rs:60) is *)
(* that of a forgotten memory.                                             *)
(***************************************************************************)
THEOREM AnswersAreTrue == Spec => []Lives!ToldIsSo
<1>1. Lives!Init => Lives!ToldIsSo
  BY DEF Lives!Init, Lives!ToldIsSo
<1>2. TypeOK /\ TypeOK' /\ Lives!ToldIsSo /\ [Lives!Next]_(Lives!vars) => Lives!ToldIsSo'
  BY LivesTruly
<1> QED
  BY <1>1, <1>2, TypeCorrect, MemoryLifeKept, PTL DEF MemoryLifePromise, Lives!LifeSpec

(***************************************************************************)
(* No interleaving, crash or recovery of any number of processes makes a   *)
(* superseded memory current again, or brings back a forgotten one.        *)
(***************************************************************************)
THEOREM LivesMoveForward == Spec => Lives!OnlyForward
<1> DEFINE Forward == \A m \in Req : LifeOf(m)' # LifeOf(m) =>
             \/ LifeOf(m) = "unborn" /\ LifeOf(m)' \in {"current", "forgotten"}
             \/ LifeOf(m) = "current" /\ LifeOf(m)' \in {"superseded", "forgotten"}
             \/ LifeOf(m) = "superseded" /\ LifeOf(m)' = "forgotten"
<1>1. [Lives!Next]_(Lives!vars) => Forward
  <2> SUFFICES ASSUME [Lives!Next]_(Lives!vars) PROVE Forward
    OBVIOUS
  <2>1. ASSUME UNCHANGED [m \in Req |-> LifeOf(m)] PROVE Forward
    BY <2>1
  <2>2. ASSUME NEW k \in Req, NEW s, Lives!Store(k, s) PROVE Forward
    <3>1. PICK born \in {"current", "forgotten"} :
            [m \in Req |-> LifeOf(m)]' =
            [m \in Req |-> IF m = k THEN born
                           ELSE IF m \in s /\ LifeOf(m) = "current" THEN "superseded"
                           ELSE LifeOf(m)]
      BY <2>2 DEF Lives!Store
    <3>2. LifeOf(k) = "unborn"
      BY <2>2 DEF Lives!Store
    <3> QED
      BY <3>1, <3>2
  <2>3. ASSUME NEW k \in Req, Lives!Forget(k) PROVE Forward
    <3>1. [m \in Req |-> LifeOf(m)]' = [[m \in Req |-> LifeOf(m)] EXCEPT ![k] = "forgotten"]
      BY <2>3 DEF Lives!Forget
    <3>2. LifeOf(k) \in {"current", "superseded"}
      BY <2>3 DEF Lives!Forget
    <3> QED
      BY <3>1, <3>2
  <2>4. ASSUME NEW ids, Lives!Lose(ids) PROVE Forward
    <3>1. [m \in Req |-> LifeOf(m)]' =
            [m \in Req |-> IF m \in ids /\ LifeOf(m) # "unborn" THEN "forgotten" ELSE LifeOf(m)]
      BY <2>4 DEF Lives!Lose
    <3>2. \A m \in Req : LifeOf(m) \in {"unborn", "current", "superseded", "forgotten"}
      BY DEF LifeOf
    <3> QED
      BY <3>1, <3>2
  <2> QED
    BY <2>1, <2>2, <2>3, <2>4
    DEF Lives!Next, Lives!AskToForget, Lives!Answer, Lives!Report, Lives!Contest, Lives!vars
<1>2. Forward => Lives!Forward
  BY DEF Lives!Forward
<1> HIDE DEF Forward
<1>3. [Lives!Next]_(Lives!vars) => [Lives!Forward]_(Lives!vars)
  BY <1>1, <1>2
<1> QED
  BY <1>3, MemoryLifeKept, PTL DEF MemoryLifePromise, Lives!LifeSpec, Lives!OnlyForward
=============================================================================

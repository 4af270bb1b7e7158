----------------------------- MODULE AuditProofs -----------------------------
(***************************************************************************)
(* `ferrex audit reconcile --fix` beside the service, handlers and other   *)
(* processes included: it keeps the inductive invariant of the write path, *)
(* and mends what it is there for.                                         *)
(***************************************************************************)
EXTENDS Audit, MemoryStoreProofs

USE DEF Running, SettledPC, IsWrite, IsForget, Committed, ForgetRequested,
    OpOf, Op, Goto, Either, CompleteOpIn, reqVars, diskVars, journalVars

\* A store with a vector is through with the upsert.
Stored(m) == IsWrite(m) /\ pc[m] \in {"mark", "commit", "bump", "ok"}

\* From there it only moves on, and it is the only one to write its row.
LEMMA StoredStays ==
  ASSUME IInv, IInv', [Next]_vars, NEW m \in Req, Stored(m)
  PROVE  /\ Stored(m)' /\ job'[m] = job[m]
         /\ Committed(m) => Committed(m)'
         /\ m \in vectors' => m \in vectors
         /\ ~Running(m) => ~Running(m)' /\ (m \in rows' => m \in rows)
<1>0. TypeOK /\ KindMatchesPC
  BY DEF IInv, SharedInv
<1> USE DEF TypeOK, Stored
<1>1. ASSUME NEW r \in Req, NEW p \in Proc, NEW i \in Inputs, Start(r, p, i)
      PROVE  /\ pc'[m] = pc[m] /\ job'[m] = job[m]
             /\ UNCHANGED <<vectors, rows, halted>>
  BY <1>0, <1>1 DEF Start
<1>2. ASSUME NEW r \in Req, r # m, RequestStep(r)
      PROVE  /\ pc'[m] = pc[m] /\ job' = job /\ halted' = halted
             /\ m \in vectors' => m \in vectors
             /\ m \in rows' => m \in rows
  BY <1>0, <1>2 DEF RequestStep, DedupCheck, ConflictCheck, SupersedeLookup, GetMemory,
     ForgetDone, InsertPendingOp, UpsertVector, DeleteVector, MarkQdrantWritten,
     CommitMemoryWrite, DeleteRow, CompleteForget, BumpGeneration
<1>3. ASSUME RequestStep(m)
      PROVE  /\ Running(m) /\ job' = job
             /\ pc'[m] \in {"commit", "bump", "ok"}
             /\ Committed(m) => pc'[m] = "ok"
             /\ vectors' = vectors
  <2>1. MarkQdrantWritten(m) \/ CommitMemoryWrite(m) \/ BumpGeneration(m)
    BY <1>0, <1>3 DEF RequestStep, DedupCheck, ConflictCheck, SupersedeLookup, GetMemory,
       ForgetDone, InsertPendingOp, UpsertVector, DeleteVector, DeleteRow, CompleteForget,
       KindMatchesPC
  <2> QED
    BY <1>0, <2>1 DEF MarkQdrantWritten, CommitMemoryWrite, BumpGeneration
<1>4. CASE \/ UNCHANGED vars
           \/ \E r \in Req : Abandon(r)
           \/ \E p \in Proc : StartProcess(p) \/ Recover(p) \/ Crash(p)
  <2>1. /\ UNCHANGED <<pc, job>> /\ halted \subseteq halted'
        /\ vectors' \subseteq vectors /\ rows' \subseteq rows
    <3>1. CASE UNCHANGED vars
      BY <3>1 DEF vars
    <3>2. ASSUME NEW r \in Req, Abandon(r)
          PROVE  UNCHANGED <<pc, job, vectors, rows>> /\ halted \subseteq halted'
      BY <3>2 DEF Abandon
    <3>3. ASSUME NEW p \in Proc, StartProcess(p) \/ Crash(p)
          PROVE  UNCHANGED <<pc, job, vectors, rows>> /\ halted \subseteq halted'
      BY <3>3 DEF StartProcess, Crash
    <3>4. ASSUME NEW p \in Proc, Recover(p)
          PROVE  /\ UNCHANGED <<pc, job, halted>>
                 /\ vectors' \subseteq vectors /\ rows' \subseteq rows
      BY <3>4 DEF Recover, RecoverNext, RecoverDeleteVector, RecoverDeleteRow, RecoverClear,
         RecoverDone
    <3> QED
      BY <1>4, <3>1, <3>2, <3>3, <3>4
  <2> QED
    BY <2>1
<1>5. ASSUME NEW r \in Req, RequestStep(r)
      PROVE  /\ Stored(m)' /\ job'[m] = job[m]
             /\ Committed(m) => Committed(m)'
             /\ m \in vectors' => m \in vectors
             /\ ~Running(m) => ~Running(m)' /\ (m \in rows' => m \in rows)
  <2>1. CASE r = m
    BY <1>3, <1>5, <2>1
  <2>2. CASE r # m
    BY <1>2, <1>5, <2>2
  <2> QED
    BY <2>1, <2>2
<1> QED
  BY <1>1, <1>4, <1>5 DEF Next, Work

\* What the command has read stays so whatever the service does.
LEMMA KnowledgeStays ==
  ASSUME IInv, IInv', AuditKnows, [Next]_vars, UNCHANGED audit,
         audit # NoAudit => audit.pc = "recover" \/ proc'[audit.proc].pc = "up"
  PROVE  AuditKnows'
<1> SUFFICES ASSUME audit # NoAudit PROVE AuditKnows'
  BY DEF AuditKnows
<1>1. ASSUME NEW m \in audit.points PROVE m \in Req /\ Stored(m) /\ job[m].ns = audit.ns
  BY DEF AuditKnows, Stored
<1>2. ASSUME NEW m \in audit.points
      PROVE  /\ Stored(m)' /\ job'[m].ns = audit.ns
             /\ Committed(m) => Committed(m)'
             /\ m \in vectors' => m \in vectors
             /\ ~Running(m) => ~Running(m)' /\ (m \in rows' => m \in rows)
  BY <1>1, StoredStays
<1>3. contested \subseteq contested'
  <2>1. ASSUME NEW r \in Req, RequestStep(r) PROVE contested' = contested
    BY <2>1 DEF RequestStep, DedupCheck, ConflictCheck, SupersedeLookup, GetMemory,
       ForgetDone, InsertPendingOp, UpsertVector, DeleteVector, MarkQdrantWritten,
       CommitMemoryWrite, DeleteRow, CompleteForget, BumpGeneration
  <2>2. ASSUME NEW p \in Proc, StartProcess(p) \/ Recover(p) \/ Crash(p)
        PROVE  contested \subseteq contested'
    BY <2>2 DEF StartProcess, Recover, RecoverNext, RecoverDeleteVector, RecoverDeleteRow,
       RecoverClear, RecoverDone, Crash
  <2> QED
    BY <2>1, <2>2 DEF Next, Work, Start, Abandon, vars
<1>4. CASE audit.pc = "fix"
  <2>1. \A m \in audit.points \ audit.orphans : Committed(m)'
    BY <1>2, <1>4 DEF AuditKnows
  <2>2. \A m \in audit.orphans \ contested' : ~Running(m)' /\ m \notin rows'
    BY <1>2, <1>3, <1>4 DEF AuditKnows
  <2> QED
    BY <1>1, <1>2, <1>4, <2>1, <2>2 DEF AuditKnows, Stored
<1>5. CASE audit.pc = "fixed"
  <2>1. ASSUME NEW m \in audit.points, m \in vectors' PROVE m \in rows'
    <3>1. m \in vectors /\ m \in rows
      BY <1>2, <1>5, <2>1 DEF AuditKnows
    <3>2. Committed(m)'
      BY <1>2, <3>1 DEF IInv, SharedInv, OnDisk
    <3> QED
      BY <2>1, <3>2 DEF IInv, VectorFirst
  <2> QED
    BY <1>1, <1>2, <1>5, <2>1 DEF AuditKnows, Stored
<1>6. CASE audit.pc \notin {"fix", "fixed"}
  BY <1>1, <1>2, <1>6 DEF AuditKnows, Stored
<1> QED
  BY <1>4, <1>5, <1>6

\* A process that serves goes on serving until it ends.
LEMMA UpStays ==
  ASSUME TypeOK, Work, NEW p \in Proc, proc[p].pc = "up"
  PROVE  proc'[p].pc = "up"
<1>1. ASSUME NEW r \in Req, RequestStep(r) PROVE proc' = proc
  BY <1>1 DEF RequestStep, DedupCheck, ConflictCheck, SupersedeLookup, GetMemory,
     ForgetDone, InsertPendingOp, UpsertVector, DeleteVector, MarkQdrantWritten,
     CommitMemoryWrite, DeleteRow, CompleteForget, BumpGeneration
<1>2. ASSUME NEW q \in Proc, StartProcess(q) \/ Recover(q) PROVE proc'[p].pc = "up"
  <2>1. p # q
    BY <1>2 DEF StartProcess, Recover, RecoverNext, RecoverDeleteVector, RecoverDeleteRow,
       RecoverClear, RecoverDone
  <2> QED
    BY <1>2, <2>1 DEF TypeOK, StartProcess, Recover, RecoverNext, RecoverDeleteVector,
       RecoverDeleteRow, RecoverClear, RecoverDone
<1> QED
  BY <1>1, <1>2 DEF Work, Start, Abandon

\* Deleting the vectors of orphans disturbs nothing that the journal or a handler relies on:
\* an orphan that is not contested has no row, and nobody to write one.
LEMMA OrphansGoSafely ==
  ASSUME IInv, NEW p \in Proc, proc[p].pc = "up",
         NEW gone, \A m \in gone \ contested : ~Running(m) /\ m \notin rows,
         vectors' = vectors \ gone,
         UNCHANGED <<reqVars, rows, invalid, journalVars, proc, gen, contested>>
  PROVE  IInv'
<1>0. TypeOK'
  BY DEF IInv, SharedInv, TypeOK
<1>1. SharedInv'
  BY <1>0, ProcessesShared DEF IInv
<1>2. Takes
  BY DEF Takes
<1>3. \A q, m \in Req : <<q, m>> \in pending => pc[q] # "ok"
  BY DEF IInv, LegacyUntouched
<1>4. RunsWhereUp' /\ LegacyUntouched'
  BY <1>3 DEF IInv, RunsWhereUp, LegacyUntouched
<1>5. RecoveryKnows'
  BY <1>2, TakesKeepKnown DEF RecoveryKnows
<1>6. VectorKept' /\ VectorFirst'
  BY DEF IInv, VectorKept, VectorFirst
<1>7. JournalMatchesPC'
  BY DEF IInv, JournalMatchesPC, Erased
<1>8. OrphanVectorsExplained'
  BY DEF IInv, OrphanVectorsExplained
<1>9. RowsExplained'
  <2> SUFFICES ASSUME NEW n \in (rows' \ vectors') \ contested'
               PROVE  (\E f \in Req : TakenBy(f, n))'
    BY DEF RowsExplained
  <2>1. PICK f \in Req : TakenBy(f, n)
    BY DEF IInv, RowsExplained
  <2> QED
    BY <2>1 DEF TakenBy
<1>10. LossIsRequested'
  BY DEF IInv, LossIsRequested
<1> QED
  BY <1>1, <1>4, <1>5, <1>6, <1>7, <1>8, <1>9, <1>10 DEF IInv

\* What looks like an orphan while its handler runs is contested; nothing else happens.
LEMMA ContestingIsSafe ==
  ASSUME IInv, NEW ids \in SUBSET Req, contested' = contested \cup ids,
         UNCHANGED <<reqVars, diskVars, journalVars, proc, gen>>
  PROVE  IInv'
<1>0. TypeOK'
  BY DEF IInv, SharedInv, TypeOK
<1>1. SharedInv'
  BY <1>0, ProcessesShared DEF IInv
<1>2. Takes
  BY DEF Takes
<1>3. RunsWhereUp' /\ LegacyUntouched'
  BY DEF IInv, RunsWhereUp, LegacyUntouched
<1>4. RecoveryKnows'
  BY <1>2, TakesKeepKnown DEF RecoveryKnows
<1> QED
  BY <1>1, <1>2, <1>3, <1>4, DiskUntouched DEF IInv

\* Every step of the service and of the command keeps the invariant.
LEMMA AuditStep == AuditInv /\ [AuditNext]_auditVars => AuditInv'
<1> SUFFICES ASSUME AuditInv, [AuditNext]_auditVars PROVE AuditInv'
  OBVIOUS
<1> USE DEF AuditInv
<1>0. TypeOK
  BY DEF IInv, SharedInv
<1>1. CASE Work /\ UNCHANGED audit
  <2>1. IInv'
    BY <1>1, InvStep DEF Next
  <2>2. audit # NoAudit => audit.pc = "recover" \/ proc'[audit.proc].pc = "up"
    BY <1>0, <1>1, UpStays DEF AuditKnows
  <2> QED
    BY <1>1, <2>1, <2>2, KnowledgeStays DEF Next
<1>2. ASSUME NEW p \in Proc, Crash(p),
             audit' = IF audit # NoAudit /\ audit.proc = p THEN NoAudit ELSE audit
      PROVE  AuditInv'
  <2>1. IInv'
    BY <1>2, InvStep DEF Next
  <2>2. CASE audit' = NoAudit
    BY <2>1, <2>2 DEF AuditKnows
  <2>3. CASE audit # NoAudit /\ audit.proc # p
    <3>1. audit.pc # "recover" => proc'[audit.proc].pc = "up"
      BY <1>0, <1>2, <2>3 DEF AuditKnows, Crash, TypeOK
    <3> QED
      BY <1>2, <2>1, <2>3, <3>1, KnowledgeStays DEF Next
  <2> QED
    BY <1>2, <2>2, <2>3
<1>3. ASSUME NEW p \in Proc, NEW n \in NS, NEW limit \in FixLimits, StartAudit(p, n, limit)
      PROVE  AuditInv'
  <2>1. IInv'
    BY <1>3, InvStep DEF Next, Work, StartAudit
  <2> QED
    BY <1>3, <2>1 DEF AuditKnows, StartAudit
<1>4. CASE ScrollMemoryIds
  <2>1. IInv' /\ audit # NoAudit /\ UNCHANGED vars
    BY <1>4, InvStep DEF ScrollMemoryIds, NoAudit
  <2>2. audit'.pc = "list" /\ audit'.proc = audit.proc /\ audit'.ns = audit.ns
        /\ audit'.points = {m \in vectors : job[m].ns = audit.ns}
    BY <1>4, <2>1 DEF ScrollMemoryIds
  <2> QED
    BY <1>0, <1>4, <2>1, <2>2
    DEF AuditKnows, ScrollMemoryIds, vars, TypeOK, IInv, SharedInv, OnDisk
<1>5. CASE ListMemoryIds
  <2>1. /\ audit # NoAudit /\ audit.pc = "list"
        /\ audit' = [audit EXCEPT !.pc = "fix",
              !.orphans = QdrantOnly(audit.points, {m \in rows : job[m].ns = audit.ns})]
        /\ contested' = contested \cup {m \in audit'.orphans : Running(m)}
        /\ UNCHANGED <<reqVars, diskVars, journalVars, proc, gen>>
    BY <1>5 DEF ListMemoryIds, NoAudit
  <2>2. /\ audit'.pc = "fix" /\ audit'.proc = audit.proc /\ audit'.ns = audit.ns
        /\ audit'.points = audit.points
        /\ audit'.orphans = audit.points \ {m \in rows : job[m].ns = audit.ns}
    BY <2>1 DEF QdrantOnly
  <2>3. audit'.orphans \subseteq Req
    BY <2>1, <2>2 DEF AuditKnows
  <2>4. IInv'
    BY <2>1, <2>3, ContestingIsSafe
  <2>5. \A m \in audit'.points \ audit'.orphans : Committed(m)
    BY <2>1, <2>2 DEF AuditKnows, IInv, SharedInv, OnDisk
  <2>6. \A m \in audit'.orphans \ contested' : ~Running(m) /\ m \notin rows
    BY <2>1, <2>2 DEF AuditKnows
  <2> QED
    BY <2>1, <2>2, <2>4, <2>5, <2>6 DEF AuditKnows
<1>6. CASE FixOrphans
  <2>1. /\ audit # NoAudit /\ audit.pc = "fix" /\ audit' = [audit EXCEPT !.pc = "fixed"]
        /\ vectors' = vectors \ audit.orphans
        /\ UNCHANGED <<reqVars, rows, invalid, journalVars, proc, gen, contested>>
    BY <1>6 DEF FixOrphans, NoAudit
  <2>2. IInv'
    BY <2>1, OrphansGoSafely DEF AuditKnows
  <2>3. audit.points \cap vectors' \subseteq rows
    BY <2>1 DEF AuditKnows, IInv, VectorFirst
  <2>4. audit'.pc = "fixed" /\ audit'.proc = audit.proc /\ audit'.points = audit.points
        /\ audit'.ns = audit.ns
    BY <2>1
  <2> QED
    BY <2>1, <2>2, <2>3, <2>4 DEF AuditKnows
<1>7. CASE RefuseFix
  <2>1. IInv' /\ audit # NoAudit /\ audit.pc = "fix" /\ UNCHANGED vars
        /\ audit' = [audit EXCEPT !.pc = "refused"]
    BY <1>7, InvStep DEF RefuseFix, NoAudit
  <2>2. audit'.pc = "refused" /\ audit'.proc = audit.proc /\ audit'.points = audit.points
        /\ audit'.ns = audit.ns
    BY <2>1
  <2> QED
    BY <2>1, <2>2 DEF AuditKnows, vars
<1>8. CASE UNCHANGED auditVars
  <2>1. IInv' /\ UNCHANGED <<vars, audit>>
    BY <1>8, InvStep DEF auditVars
  <2> QED
    BY <2>1 DEF AuditKnows, vars
<1> QED
  BY <1>1, <1>2, <1>3, <1>4, <1>5, <1>6, <1>7, <1>8 DEF AuditNext

(***************************************************************************)
(* Audits, with servers beside them that the guard did not see or that     *)
(* started after it looked, leave the write path's invariant as it was,    *)
(* and what they have read stays true until they use it (admin.rs          *)
(* audit_reconcile).                                                       *)
(***************************************************************************)
THEOREM AuditInvariantHolds == AuditSpec => []AuditInv
<1>1. AuditInit => AuditInv
  BY InvInit DEF AuditInit, AuditInv, AuditKnows
<1> QED
  BY <1>1, AuditStep, PTL DEF AuditSpec

(***************************************************************************)
(* After `audit reconcile --fix` none of the vectors it listed is without  *)
(* a row, and no committed memory has lost its vector, but for a store     *)
(* that was on its way when it was listed (admin.rs audit_reconcile,       *)
(* delete_by_ids).                                                         *)
(***************************************************************************)
THEOREM AuditAlwaysMends == AuditSpec => []AuditMends
<1>1. AuditInv => AuditMends
  BY DEF AuditInv, AuditKnows, AuditMends, NoAudit, IInv, CommittedStoreDurable, LossIsRequested
<1> QED
  BY <1>1, AuditInvariantHolds, PTL

\* What an audit deletes has no row or is contested, and what else the command does touches
\* no memory.
LEMMA AuditSteps ==
  ASSUME AuditInv, OneReplaced, [AuditNext]_auditVars
  PROVE  [Lives!Next]_(Lives!vars) /\ OneReplaced'
<1>0. TypeOK
  BY DEF AuditInv, IInv, SharedInv
<1>1. [Next]_vars \/ ListMemoryIds \/ FixOrphans
  BY DEF AuditNext, auditVars, Next, Work, StartAudit, ScrollMemoryIds, RefuseFix
<1>2. CASE [Next]_vars
  BY <1>0, <1>2, LifeStep, OneReplacedStep DEF AuditInv
<1>3. CASE ListMemoryIds
  <2>1. PICK ids \in SUBSET Req : contested' = contested \cup ids
    <3>1. audit.points \subseteq Req
      BY <1>3 DEF AuditInv, AuditKnows, ListMemoryIds, NoAudit
    <3>2. {m \in audit'.orphans : Running(m)} \subseteq Req
      BY <1>3, <3>1 DEF ListMemoryIds, QdrantOnly, AuditInv, AuditKnows, NoAudit
    <3> QED
      BY <1>3, <3>2 DEF ListMemoryIds
  <2>2. UNCHANGED <<pc, job, superseded, deleted, diskVars>>
    BY <1>3 DEF ListMemoryIds
  <2>3. Lives!Contest(ids)
    BY <2>1, <2>2, ContestIsLives DEF ContestLives
  <2>4. OneReplaced'
    BY <2>2 DEF OneReplaced
  <2> QED
    BY <2>3, <2>4 DEF Lives!Next
<1>4. CASE FixOrphans
  <2>1. /\ vectors' = vectors \ audit.orphans
        /\ UNCHANGED <<pc, job, superseded, deleted, rows, invalid, contested>>
    BY <1>4 DEF FixOrphans
  <2>2. \A m \in audit.orphans \ contested : m \notin rows
    BY <1>4 DEF AuditInv, AuditKnows, NoAudit, FixOrphans
  <2> DEFINE ids == audit.orphans \cap contested
  <2>3. ids \in SUBSET Req /\ ids \subseteq contested
    BY <1>0 DEF TypeOK
  <2>4. ASSUME NEW m \in Req
        PROVE  LifeOf(m)' = IF m \in ids /\ LifeOf(m) # "unborn" THEN "forgotten" ELSE LifeOf(m)
    <3>1. m \in rows => Committed(m)
      BY DEF AuditInv, IInv, SharedInv, OnDisk
    <3>2. CASE m \in ids
      BY <2>1, <3>1, <3>2 DEF LifeOf
    <3>3. CASE m \notin ids
      BY <2>1, <2>2, <3>3 DEF LifeOf
    <3> QED
      BY <3>2, <3>3
  <2> HIDE DEF ids
  <2>5. [m \in Req |-> LifeOf(m)]' =
          [m \in Req |-> IF m \in ids /\ [k \in Req |-> LifeOf(k)][m] # "unborn"
                         THEN "forgotten" ELSE [k \in Req |-> LifeOf(k)][m]]
    BY <2>4
  <2>6. [m \in Req |-> ToldOf(m)]' = [m \in Req |-> ToldOf(m)]
    BY <2>1 DEF ToldOf
  <2>7. {m \in Req : ForgetRequested(m)}' = {m \in Req : ForgetRequested(m)}
    BY <2>1
  <2>8. Lives!Lose(ids)
    BY <2>1, <2>3, <2>5, <2>6, <2>7 DEF Lives!Lose
  <2>9. OneReplaced'
    BY <2>1 DEF OneReplaced
  <2> QED
    BY <2>3, <2>8, <2>9 DEF Lives!Next
<1> QED
  BY <1>1, <1>2, <1>3, <1>4

(***************************************************************************)
(* With audits beside it the service still implements MemoryLife: an audit *)
(* that fixes takes no memory a recall could have found, but for a store   *)
(* that it caught before its commit (admin.rs audit_reconcile,             *)
(* delete_by_ids).                                                         *)
(***************************************************************************)
THEOREM AuditKeepsMemories == AuditSpec => MemoryLifePromise
<1>1. AuditInit => AuditInv /\ OneReplaced /\ Lives!Init
  BY InvInit, LifeInit DEF AuditInit, AuditInv, AuditKnows
<1>2. AuditInv /\ OneReplaced /\ [AuditNext]_auditVars => (AuditInv /\ OneReplaced)'
  BY AuditStep, AuditSteps
<1>3. AuditInv /\ OneReplaced /\ [AuditNext]_auditVars => [Lives!Next]_(Lives!vars)
  BY AuditSteps
<1> QED
  BY <1>1, <1>2, <1>3, PTL DEF AuditSpec, MemoryLifePromise, Lives!LifeSpec
=============================================================================

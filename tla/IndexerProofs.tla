--------------------------- MODULE IndexerProofs ---------------------------
(***************************************************************************)
(* Proofs about Indexer, for every set of replicas, skills, documents and  *)
(* candidates, every batch size and every bound on faults.                 *)
(***************************************************************************)
EXTENDS Indexer, FiniteSetTheorems, WellFoundedInduction, TLAPS

USE DEF Reconciling, Discovering

(* What the statements of the store return, for any table.                 *)
LEMMA DeleteType ==
  ASSUME NEW table \in Table, NEW id \in SkillIDs
  PROVE  DeleteSkill(table, id) \in Table
BY DEF DeleteSkill, Table

LEMMA UpsertType ==
  ASSUME NEW table \in Table, NEW id \in SkillIDs, NEW row \in Row
  PROVE  UpsertSkill(table, id, row) \in Table
BY DEF UpsertSkill, Table

LEMMA MigrateType ==
  ASSUME NEW table \in Table
  PROVE  Migrate(table) \in Table
BY DEF Migrate, Table

LEMMA UpdateType ==
  ASSUME NEW table \in Table, NEW id \in SkillIDs
  PROVE  UpdateSkillAssessment(table, id) \in Table
<1>1. CASE id \in Unassessed(table)
  <2>1. table[id] \in Row
    BY <1>1 DEF Unassessed, Stored, Table
  <2>2. NewRow(table[id].snapshot, TRUE) \in Row
    BY <2>1 DEF NewRow, Row
  <2> QED
    BY <1>1, <2>2 DEF UpdateSkillAssessment, Table
<1>2. CASE id \notin Unassessed(table)
  BY <1>2 DEF UpdateSkillAssessment, Table
<1> QED
  BY <1>1, <1>2

LEMMA StoreReads ==
  ASSUME NEW table \in Table, NEW limit \in Nat
  PROVE  /\ FreshSkillIDs(table) \in SUBSET SkillIDs
         /\ SkillContentHashes(table) \in [SkillIDs -> Snapshots \cup {Absent}]
         /\ UnassessedSkillCount(table) \in Nat
         /\ UnassessedSkills(table, limit) \in SUBSET Pending
<1>1. FreshSkillIDs(table) \in SUBSET SkillIDs
  BY DEF FreshSkillIDs, Stored
<1>2. \A id \in Stored(table) : table[id] \in Row /\ table[id].snapshot \in Snapshots
  BY DEF Stored, Table, Row
<1>3. SkillContentHashes(table) \in [SkillIDs -> Snapshots \cup {Absent}]
  BY <1>2 DEF SkillContentHashes
<1>4. IsFiniteSet(Unassessed(table))
  BY SkillIDsAssumption, FS_Subset DEF Unassessed, Stored
<1>5. UnassessedSkillCount(table) \in Nat
  BY <1>4, FS_CardinalityType DEF UnassessedSkillCount
<1>6. \A id \in Unassessed(table) :
        id \in SkillIDs /\ table[id].snapshot.primary \in Documents
  BY <1>2 DEF Unassessed, Stored, Snapshots
<1>7. ASSUME NEW p \in UnassessedSkills(table, limit)
      PROVE  p \in Pending
  <2>1. PICK id \in Unassessed(table) : p = [id |-> id, contents |-> Contents(table[id])]
    BY DEF UnassessedSkills
  <2> QED
    BY <1>6, <2>1, DocumentsAssumption DEF Contents, Pending
<1> QED
  BY <1>1, <1>3, <1>5, <1>7, Zenon
-----------------------------------------------------------------------------
(* Type correctness.                                                       *)

LEMMA NoRunType == NoRun \in RunState
BY DEF NoRun, RunState

(* The assignments a step makes to the local state of a run keep its type. *)
LEMMA RunUpdates ==
  ASSUME NEW s \in RunState
  PROVE  /\ \A x \in Int : [s EXCEPT !.remaining = x] \in RunState
         /\ \A x \in SUBSET Pending : [s EXCEPT !.pending = x] \in RunState
         /\ \A x \in SUBSET SkillIDs : [s EXCEPT !.freshIDs = x] \in RunState
         /\ \A x \in [SkillIDs -> Snapshots \cup {Absent}] :
              [s EXCEPT !.storedHashes = x] \in RunState
         /\ \A x \in SUBSET Candidates, y \in SUBSET SkillIDs :
              [s EXCEPT !.batch = x, !.seen = y] \in RunState
         /\ \A x \in BOOLEAN : [s EXCEPT !.passed = x] \in RunState
         /\ \A x \in Candidates, y \in BOOLEAN :
              [s EXCEPT !.job = x, !.passed = y] \in RunState
         /\ \A x \in SUBSET Candidates :
              [s EXCEPT !.jobs = x, !.job = Absent, !.passed = FALSE] \in RunState
<1>1. \A x \in Int : [s EXCEPT !.remaining = x] \in RunState
  BY DEF RunState
<1>2. \A x \in SUBSET Pending : [s EXCEPT !.pending = x] \in RunState
  BY DEF RunState
<1>3. \A x \in SUBSET SkillIDs : [s EXCEPT !.freshIDs = x] \in RunState
  BY DEF RunState
<1>4. \A x \in [SkillIDs -> Snapshots \cup {Absent}] :
        [s EXCEPT !.storedHashes = x] \in RunState
  BY DEF RunState
<1>5. \A x \in SUBSET Candidates, y \in SUBSET SkillIDs :
        [s EXCEPT !.batch = x, !.seen = y] \in RunState
  BY DEF RunState
<1>6. \A x \in BOOLEAN : [s EXCEPT !.passed = x] \in RunState
  BY DEF RunState
<1>7. \A x \in Candidates, y \in BOOLEAN :
        [s EXCEPT !.job = x, !.passed = y] \in RunState
  BY DEF RunState
<1>8. \A x \in SUBSET Candidates :
        [s EXCEPT !.jobs = x, !.job = Absent, !.passed = FALSE] \in RunState
  BY DEF RunState
<1> QED
  BY <1>1, <1>2, <1>3, <1>4, <1>5, <1>6, <1>7, <1>8

LEMMA EndRunType ==
  ASSUME TypeOK, NEW r \in Replicas,
         NEW result \in {"ok", "dependency", "timeout", "bad_response", "conflict", "none"},
         NEW skill \in SkillIDs \cup {Absent},
         EndRun(r, result, skill)
  PROVE  /\ pc' \in [Replicas -> {"down", "idle"} \cup Reconciling \cup Discovering]
         /\ run' \in [Replicas -> RunState]
         /\ outcome' \in [Replicas -> Outcomes]
BY NoRunType DEF TypeOK, EndRun, Goto, Outcomes

LEMMA FaultType ==
  ASSUME TypeOK, Fault
  PROVE  faults' \in 0..MaxFaults
BY MaxFaultsAssumption DEF TypeOK, Fault

LEMMA AssessedType ==
  ASSUME TypeOK, NEW r \in Replicas, NEW id \in SkillIDs,
         NEW document \in Documents, NEW v \in Verdicts, Assessed(r, id, document, v)
  PROVE  approved' \subseteq Documents /\ rejected' \in [Replicas -> SUBSET SkillIDs]
BY DEF TypeOK, Assessed

LEMMA AtHandType ==
  ASSUME TypeOK, NEW r \in Replicas, NEW p \in AtHand(r)
  PROVE  /\ p \in run[r].pending
         /\ p.id \in SkillIDs
         /\ p.contents \in Documents
BY DEF TypeOK, AtHand, RunState, Pending

LEMMA JobType ==
  ASSUME TypeOK, NEW r \in Replicas, NEW c \in run[r].jobs
  PROVE  /\ c \in Candidates
         /\ c.id \in SkillIDs
         /\ c.snapshot \in Snapshots
         /\ c.snapshot.primary \in Documents
BY CandidatesAssumption DEF TypeOK, RunState, CandidateType, Snapshots

LEMMA ProcessedType ==
  ASSUME TypeOK, NEW r \in Replicas, NEW p, Processed(r, p)
  PROVE  /\ pc' \in [Replicas -> {"down", "idle"} \cup Reconciling \cup Discovering]
         /\ run' \in [Replicas -> RunState]
BY DEF TypeOK, Processed, Continue, Goto, RunState

LEMMA WrittenType ==
  ASSUME TypeOK, NEW r \in Replicas, NEW c \in run[r].jobs
  PROVE  CandidateWritten(r, c) \in Table
<1>1. skills \in Table /\ NewRow(c.snapshot, ai[r]) \in Row
  BY JobType DEF TypeOK, NewRow, Row
<1> QED
  BY <1>1, JobType, DeleteType, UpsertType DEF CandidateWritten

LEMMA FlushType ==
  ASSUME TypeOK, NEW r \in Replicas, NEW batch \in SUBSET Candidates,
         NEW seen \in SUBSET SkillIDs, NEW drained \in BOOLEAN,
         Flush(r, batch, seen, drained)
  PROVE  /\ pc' \in [Replicas -> {"down", "idle"} \cup Reconciling \cup Discovering]
         /\ run' \in [Replicas -> RunState]
         /\ outcome' \in [Replicas -> Outcomes]
<1> DEFINE jobs == {c \in batch : Eligible(r, c)}
<1>1. CASE jobs = {} /\ drained
  <2>1. EndRun(r, "ok", Absent)
    BY <1>1 DEF Flush
  <2> QED
    BY <2>1, EndRunType
<1>2. CASE ~(jobs = {} /\ drained)
  <2>1. jobs \in SUBSET Candidates
    OBVIOUS
  <2> HIDE DEF jobs
  <2>2. /\ run' = [run EXCEPT ![r].batch = {}, ![r].jobs = jobs,
                              ![r].seen = seen, ![r].drained = drained]
        /\ Goto(r, IF jobs = {} THEN "discover" ELSE FirstStep(r))
        /\ UNCHANGED outcome
    BY <1>2 DEF Flush, jobs
  <2>3. run[r] \in RunState
    BY DEF TypeOK
  <2>4. [run[r] EXCEPT !.batch = {}, !.jobs = jobs, !.seen = seen, !.drained = drained]
          \in RunState
    BY <2>1, <2>3 DEF RunState
  <2>5. run' \in [Replicas -> RunState]
    BY <2>2, <2>4 DEF TypeOK
  <2>6. /\ pc' \in [Replicas -> {"down", "idle"} \cup Reconciling \cup Discovering]
        /\ outcome' \in [Replicas -> Outcomes]
    BY <2>2 DEF TypeOK, Goto, FirstStep
  <2> QED
    BY <2>5, <2>6
<1> QED
  BY <1>1, <1>2

LEMMA FailJobType ==
  ASSUME TypeOK, NEW r \in Replicas, NEW c \in run[r].jobs,
         NEW cause \in {"dependency", "timeout", "bad_response"}, FailJob(r, c, cause)
  PROVE  /\ pc' \in [Replicas -> {"down", "idle"} \cup Reconciling \cup Discovering]
         /\ run' \in [Replicas -> RunState]
<1>1. c.id \in SkillIDs
  BY JobType
<1>2. run[r] \in RunState
  BY DEF TypeOK
<1>3. [run[r] EXCEPT
         !.jobs = @ \ {c}, !.job = Absent, !.passed = FALSE, !.error = TRUE,
         !.cause = IF run[r].error THEN @ ELSE cause,
         !.skill = IF run[r].error THEN @ ELSE c.id] \in RunState
  BY <1>1, <1>2 DEF RunState
<1>4. run' \in [Replicas -> RunState]
  BY <1>3 DEF TypeOK, FailJob
<1>5. pc' \in [Replicas -> {"down", "idle"} \cup Reconciling \cup Discovering]
  BY DEF TypeOK, FailJob, Goto, FirstStep
<1> QED
  BY <1>4, <1>5

(* One step per action; the lemmas above cover what several of them share. *)
LEMMA TypeStep == TypeOK /\ [Next]_vars => TypeOK'
<1> SUFFICES ASSUME TypeOK, [Next]_vars PROVE TypeOK'
  OBVIOUS
<1> USE DEF history
<1>1. ASSUME NEW r \in Replicas, Boot(r) PROVE TypeOK'
  <2>1. Migrate(skills) \in Table
    BY MigrateType DEF TypeOK
  <2>2. ai' \in [Replicas -> BOOLEAN]
    BY <1>1, ModesAssumption DEF TypeOK, Boot
  <2> QED
    BY <1>1, <2>1, <2>2 DEF TypeOK, Boot
<1>2. ASSUME NEW r \in Replicas, StartRun(r) PROVE TypeOK'
  BY <1>2 DEF TypeOK, StartRun, Goto, NewHistory, Outcomes
<1>3. ASSUME NEW r \in Replicas, CountUnassessed(r) PROVE TypeOK'
  <2>1. UnassessedSkillCount(skills) \in Int
    BY StoreReads DEF TypeOK
  <2>2. run[r] \in RunState
    BY DEF TypeOK
  <2>3. [run[r] EXCEPT !.remaining = UnassessedSkillCount(skills)] \in RunState
    BY <2>1, <2>2, RunUpdates
  <2>4. run' \in [Replicas -> RunState]
    BY <1>3, <2>3 DEF TypeOK, CountUnassessed
  <2> QED
    BY <1>3, <2>4 DEF TypeOK, CountUnassessed, Continue, Goto
<1>4. ASSUME NEW r \in Replicas, LoadUnassessed(r) PROVE TypeOK'
  <2>1. UnassessedSkills(skills, BatchSize) \in SUBSET Pending
    BY StoreReads, BatchSizeAssumption DEF TypeOK
  <2>2. run[r] \in RunState
    BY DEF TypeOK
  <2>3. [run[r] EXCEPT !.pending = UnassessedSkills(skills, BatchSize)] \in RunState
    BY <2>1, <2>2, RunUpdates
  <2>4. run' \in [Replicas -> RunState]
    BY <1>4, <2>3 DEF TypeOK, LoadUnassessed
  <2> QED
    BY <1>4, <2>4 DEF TypeOK, LoadUnassessed, Goto
<1>5. ASSUME NEW r \in Replicas, LoadFindsNothing(r) PROVE TypeOK'
  BY <1>5, EndRunType DEF TypeOK, LoadFindsNothing
<1>6. ASSUME NEW r \in Replicas, NEW p \in AtHand(r), RemoveMissing(r, p) PROVE TypeOK'
  <2>1. DeleteSkill(skills, p.id) \in Table
    BY AtHandType, DeleteType DEF TypeOK
  <2> QED
    BY <1>6, <2>1, ProcessedType DEF TypeOK, RemoveMissing
<1>7. ASSUME NEW r \in Replicas, NEW p \in AtHand(r), AssessStored(r, p) PROVE TypeOK'
  <2>1. PICK v \in Verdicts : /\ Assessed(r, p.id, p.contents, v)
                              /\ run' = [run EXCEPT ![r].passed = Passing(v)]
    BY <1>7 DEF AssessStored
  <2>2. approved' \subseteq Documents /\ rejected' \in [Replicas -> SUBSET SkillIDs]
    BY <2>1, AtHandType, AssessedType
  <2>3. [run[r] EXCEPT !.passed = Passing(v)] \in RunState
    BY RunUpdates DEF TypeOK, Passing
  <2>4. run' \in [Replicas -> RunState]
    BY <2>1, <2>3 DEF TypeOK
  <2> QED
    BY <1>7, <2>2, <2>4 DEF TypeOK, AssessStored, Goto
<1>8. ASSUME NEW r \in Replicas, NEW p \in AtHand(r), RemoveRejected(r, p) PROVE TypeOK'
  <2>1. DeleteSkill(skills, p.id) \in Table
    BY AtHandType, DeleteType DEF TypeOK
  <2> QED
    BY <1>8, <2>1, ProcessedType DEF TypeOK, RemoveRejected
<1>9. ASSUME NEW r \in Replicas, NEW p \in AtHand(r), RecordAssessment(r, p) PROVE TypeOK'
  <2>1. UpdateSkillAssessment(skills, p.id) \in Table
    BY AtHandType, UpdateType DEF TypeOK
  <2> QED
    BY <1>9, <2>1, ProcessedType DEF TypeOK, RecordAssessment
<1>10. ASSUME NEW r \in Replicas, NEW p \in AtHand(r), AssessmentConflicts(r, p) PROVE TypeOK'
  BY <1>10, AtHandType, EndRunType DEF TypeOK, AssessmentConflicts
<1>11. ASSUME NEW r \in Replicas, LoadFresh(r) PROVE TypeOK'
  <2>1. FreshSkillIDs(skills) \in SUBSET SkillIDs
    BY StoreReads DEF TypeOK
  <2>2. run[r] \in RunState
    BY DEF TypeOK
  <2>3. [run[r] EXCEPT !.freshIDs = FreshSkillIDs(skills)] \in RunState
    BY <2>1, <2>2, RunUpdates
  <2>4. run' \in [Replicas -> RunState]
    BY <1>11, <2>3 DEF TypeOK, LoadFresh
  <2> QED
    BY <1>11, <2>4 DEF TypeOK, LoadFresh, Goto
<1>12. ASSUME NEW r \in Replicas, LoadHashes(r) PROVE TypeOK'
  <2>1. SkillContentHashes(skills) \in [SkillIDs -> Snapshots \cup {Absent}]
    BY StoreReads DEF TypeOK
  <2>2. run[r] \in RunState
    BY DEF TypeOK
  <2>3. [run[r] EXCEPT !.storedHashes = SkillContentHashes(skills)] \in RunState
    BY <2>1, <2>2, RunUpdates
  <2>4. run' \in [Replicas -> RunState]
    BY <1>12, <2>3 DEF TypeOK, LoadHashes
  <2> QED
    BY <1>12, <2>4 DEF TypeOK, LoadHashes, Goto
<1>13. ASSUME NEW r \in Replicas, NEW c \in Candidates, Yield(r, c) PROVE TypeOK'
  <2>1. /\ run[r].batch \cup {c} \in SUBSET Candidates
        /\ run[r].seen \cup {c.id} \in SUBSET SkillIDs
    BY CandidatesAssumption DEF TypeOK, RunState, CandidateType
  <2>2. CASE Cardinality(run[r].batch \cup {c}) = BatchSize
    <3>1. Flush(r, run[r].batch \cup {c}, run[r].seen \cup {c.id}, FALSE)
      BY <1>13, <2>2 DEF Yield
    <3> QED
      BY <1>13, <2>1, <3>1, FlushType DEF TypeOK, Yield
  <2>3. CASE Cardinality(run[r].batch \cup {c}) # BatchSize
    <3>1. run' = [run EXCEPT ![r].batch = run[r].batch \cup {c},
                             ![r].seen = run[r].seen \cup {c.id}]
      BY <1>13, <2>3 DEF Yield
    <3>2. [run[r] EXCEPT !.batch = run[r].batch \cup {c}, !.seen = run[r].seen \cup {c.id}]
            \in RunState
      BY <2>1, RunUpdates DEF TypeOK
    <3>3. run' \in [Replicas -> RunState]
      BY <3>1, <3>2 DEF TypeOK
    <3> QED
      BY <1>13, <2>3, <3>3 DEF TypeOK, Yield
  <2> QED
    BY <2>2, <2>3
<1>14. ASSUME NEW r \in Replicas, SourceEnds(r) PROVE TypeOK'
  <2>1. run[r].batch \in SUBSET Candidates /\ run[r].seen \in SUBSET SkillIDs
    BY DEF TypeOK, RunState
  <2> QED
    BY <1>14, <2>1, FlushType DEF TypeOK, SourceEnds
<1>15. ASSUME NEW r \in Replicas, NEW c \in run[r].jobs, AuditCandidate(r, c) PROVE TypeOK'
  <2>1. PICK v \in Verdicts :
          /\ Assessed(r, c.id, c.snapshot.primary, v)
          /\ run' = [run EXCEPT ![r].job = c, ![r].passed = Passing(v)]
    BY <1>15 DEF AuditCandidate
  <2>2. approved' \subseteq Documents /\ rejected' \in [Replicas -> SUBSET SkillIDs]
    BY <2>1, JobType, AssessedType
  <2>3. [run[r] EXCEPT !.job = c, !.passed = Passing(v)] \in RunState
    BY JobType, RunUpdates DEF TypeOK, Passing
  <2>4. run' \in [Replicas -> RunState]
    BY <2>1, <2>3 DEF TypeOK
  <2> QED
    BY <1>15, <2>2, <2>4 DEF TypeOK, AuditCandidate, Goto
<1>16. ASSUME NEW r \in Replicas, NEW c \in run[r].jobs, WriteCandidate(r, c) PROVE TypeOK'
  <2>1. skills' \in Table
    BY <1>16, WrittenType DEF WriteCandidate
  <2>2. run[r].jobs \ {c} \in SUBSET Candidates
    BY DEF TypeOK, RunState
  <2>3. [run[r] EXCEPT !.jobs = @ \ {c}, !.job = Absent, !.passed = FALSE] \in RunState
    BY <2>2, RunUpdates DEF TypeOK
  <2>4. run' \in [Replicas -> RunState]
    BY <1>16, <2>3 DEF TypeOK, WriteCandidate, NextJob
  <2> QED
    BY <1>16, <2>1, <2>4 DEF TypeOK, WriteCandidate, NextJob, Goto, FirstStep
<1>17. ASSUME NEW r \in Replicas, FinishBatch(r) PROVE TypeOK'
  <2>1. CASE run[r].error /\ EndRun(r, run[r].cause, run[r].skill)
    <3>1. run[r].cause \in {"none", "dependency", "timeout", "bad_response"}
          /\ run[r].skill \in SkillIDs \cup {Absent}
      BY DEF TypeOK, RunState
    <3> QED
      BY <1>17, <2>1, <3>1, EndRunType DEF TypeOK, FinishBatch
  <2>2. CASE EndRun(r, "ok", Absent)
    BY <1>17, <2>2, EndRunType DEF TypeOK, FinishBatch
  <2>3. CASE Goto(r, "discover") /\ UNCHANGED <<run, outcome>>
    BY <1>17, <2>3 DEF TypeOK, FinishBatch, Goto
  <2> QED
    BY <1>17, <2>1, <2>2, <2>3 DEF FinishBatch
<1>18. ASSUME NEW r \in Replicas, Crash(r) PROVE TypeOK'
  BY <1>18, FaultType, NoRunType DEF TypeOK, Crash, NewHistory, Outcomes
<1>19. ASSUME NEW r \in Replicas, ReadFails(r) PROVE TypeOK'
  BY <1>19, FaultType, EndRunType DEF TypeOK, ReadFails
<1>20. ASSUME NEW r \in Replicas, NEW p \in AtHand(r), AssessStoredFails(r, p) PROVE TypeOK'
  <2>1. PICK cause \in {"timeout", "bad_response"} : EndRun(r, cause, p.id)
    BY <1>20 DEF AssessStoredFails
  <2> QED
    BY <1>20, <2>1, AtHandType, FaultType, EndRunType DEF TypeOK, AssessStoredFails
<1>21. ASSUME NEW r \in Replicas, NEW p \in AtHand(r), ReconcileWriteFails(r, p) PROVE TypeOK'
  <2>1. /\ DeleteSkill(skills, p.id) \in Table
        /\ UpdateSkillAssessment(skills, p.id) \in Table
    BY AtHandType, UpdateType, DeleteType DEF TypeOK
  <2>2. skills' \in Table
    BY <1>21, <2>1 DEF TypeOK, ReconcileWriteFails
  <2> QED
    BY <1>21, <2>2, AtHandType, FaultType, EndRunType DEF TypeOK, ReconcileWriteFails
<1>22. ASSUME NEW r \in Replicas, NEW c \in run[r].jobs, AuditCandidateFails(r, c) PROVE TypeOK'
  <2>1. PICK cause \in {"timeout", "bad_response"} : FailJob(r, c, cause)
    BY <1>22 DEF AuditCandidateFails
  <2> QED
    BY <1>22, <2>1, FaultType, FailJobType DEF TypeOK, AuditCandidateFails
<1>23. ASSUME NEW r \in Replicas, NEW c \in run[r].jobs, WriteCandidateFails(r, c) PROVE TypeOK'
  <2>1. skills' \in Table
    BY <1>23, WrittenType DEF TypeOK, WriteCandidateFails
  <2> QED
    BY <1>23, <2>1, FaultType, FailJobType DEF TypeOK, WriteCandidateFails
<1>24. ASSUME NEW id \in SkillIDs, Age(id) PROVE TypeOK'
  <2>1. skills[id] \in Row
    BY <1>24 DEF TypeOK, Age, FreshSkillIDs, Stored, Table
  <2>2. [skills[id] EXCEPT !.fresh = FALSE] \in Row
    BY <2>1 DEF Row
  <2> QED
    BY <1>24, <2>2 DEF TypeOK, Age, Table
<1>25. CASE UNCHANGED vars
  BY <1>25 DEF TypeOK, vars
<1> QED
  BY <1>1, <1>2, <1>3, <1>4, <1>5, <1>6, <1>7, <1>8, <1>9, <1>10, <1>11, <1>12,
     <1>13, <1>14, <1>15, <1>16, <1>17, <1>18, <1>19, <1>20, <1>21, <1>22, <1>23,
     <1>24, <1>25
  DEF Next, RunStep, ReconcileStep, DiscoveryStep, FaultStep

LEMMA TypeInit == Init => TypeOK
<1> SUFFICES ASSUME Init PROVE TypeOK
  OBVIOUS
<1>1. /\ skills \in Table
      /\ faults \in 0..MaxFaults
  BY MaxFaultsAssumption DEF Init
<1>2. run \in [Replicas -> RunState]
  BY NoRunType DEF Init
<1> QED
  BY <1>1, <1>2 DEF Init, TypeOK, Outcomes

(* Every variable keeps its type in every behaviour.                       *)
THEOREM TypeCorrect == Spec => []TypeOK
BY TypeInit, TypeStep, PTL DEF Spec

-----------------------------------------------------------------------------
(* The publication gate.  It is not inductive by itself: RecordAssessment  *)
(* marks whatever the row holds, so the document of an assessment must     *)
(* still be that of the row, which holds because every process that runs   *)
(* beside a reconciling one has an auditor too and writes checked rows.    *)

(* Processes that run side by side were started with the same AI settings. *)
SettingsShared == RollingConfig = FALSE \/ \A r, q \in Replicas : r = q

SettingsAgree == \A r, q \in Replicas : Up(r) /\ Up(q) => ai[r] = ai[q]

PendingIsCurrent ==
  \A r \in Replicas : \A p \in run[r].pending :
    p.id \in Unassessed(skills) => Contents(skills[p.id]) = p.contents

Local(r) ==
  /\ pc[r] \in Reconciling => ai[r]
  /\ pc[r] \in {"down", "idle", "count", "load", "assess"} => ~run[r].passed
  /\ run[r].pending # {} => pc[r] \in {"assess", "record"}
  /\ \A p, q \in run[r].pending : p.id = q.id => p = q
  /\ pc[r] = "record" =>
       \A p \in AtHand(r) : /\ p.contents # EmptyDocument
                            /\ run[r].passed => p.contents \in approved
  /\ pc[r] = "write" /\ ai[r] /\ run[r].passed =>
       run[r].job.snapshot.primary \in approved

GateInv ==
  /\ PublishedWasApproved
  /\ SettingsAgree
  /\ PendingIsCurrent
  /\ \A r \in Replicas : Local(r)

(* How a step may change the table: no contents appear that are neither    *)
(* assessed nor known to the reconciling processes, and none is published  *)
(* that was neither published nor approved.                                *)
NothingUnassessedAppears ==
  \A id \in Unassessed(skills') :
    id \in Unassessed(skills) /\ skills'[id].snapshot = skills[id].snapshot

OnlyApprovedAppears ==
  \A id \in Visible(skills', TRUE) :
    \/ id \in Visible(skills, TRUE) /\ skills'[id].snapshot = skills[id].snapshot
    \/ skills'[id].snapshot.primary \in approved'

OthersIdle(r) ==
  \A q \in Replicas \ {r} : pc'[q] = pc[q] /\ run'[q] = run[q] /\ ai'[q] = ai[q]

(* A step of one process keeps the invariant when it keeps its own part.   *)
LEMMA GateFrame ==
  ASSUME GateInv, NEW r \in Replicas, OthersIdle(r), approved \subseteq approved',
         Local(r)', OnlyApprovedAppears,
         NothingUnassessedAppears \/ (Up(r) /\ ~ai[r] /\ run'[r].pending = {}),
         \/ ~Up(r)'
         \/ \A q \in Replicas \ {r} : Up(q) => ai'[r] = ai[q],
         \A p \in run'[r].pending :
           p \in run[r].pending \/ (p \in UnassessedSkills(skills, BatchSize) /\ skills' = skills)
  PROVE  GateInv'
<1>1. PublishedWasApproved'
  BY DEF GateInv, PublishedWasApproved, OnlyApprovedAppears
<1>2. SettingsAgree'
  BY DEF GateInv, SettingsAgree, OthersIdle, Up
<1>3. ASSUME NEW q \in Replicas PROVE Local(q)'
  BY <1>3 DEF GateInv, Local, OthersIdle, AtHand
<1>4. ASSUME NEW q \in Replicas, NEW p \in run'[q].pending, p.id \in Unassessed(skills')
      PROVE  Contents(skills'[p.id]) = p.contents
  <2>1. CASE Up(r) /\ ~ai[r] /\ run'[r].pending = {}
    <3>1. q # r
      BY <1>4, <2>1
    <3>2. Up(q) /\ ai[q]
      BY <1>4, <3>1 DEF GateInv, Local, OthersIdle, Up
    <3> QED
      BY <2>1, <3>2 DEF GateInv, SettingsAgree
  <2>2. CASE NothingUnassessedAppears
    <3>1. p.id \in Unassessed(skills) /\ Contents(skills'[p.id]) = Contents(skills[p.id])
      BY <1>4, <2>2 DEF NothingUnassessedAppears, Contents
    <3>2. CASE p \in run[q].pending
      BY <3>1, <3>2 DEF GateInv, PendingIsCurrent
    <3>3. CASE p \in UnassessedSkills(skills, BatchSize)
      <4>1. PICK id \in Unassessed(skills) : p = [id |-> id, contents |-> Contents(skills[id])]
        BY <3>3 DEF UnassessedSkills
      <4> QED
        BY <3>1, <4>1
    <3> QED
      BY <1>4, <3>2, <3>3 DEF OthersIdle
  <2> QED
    BY <2>1, <2>2
<1>5. PendingIsCurrent'
  BY <1>4 DEF PendingIsCurrent
<1> QED
  BY <1>1, <1>2, <1>3, <1>5 DEF GateInv

(* What each statement on the table contributes to GateFrame.              *)
LEMMA UnchangedTable ==
  ASSUME skills' = skills
  PROVE  NothingUnassessedAppears /\ OnlyApprovedAppears
BY DEF NothingUnassessedAppears, OnlyApprovedAppears

LEMMA DeletedRow ==
  ASSUME skills \in Table, NEW id \in SkillIDs, skills' = DeleteSkill(skills, id)
  PROVE  NothingUnassessedAppears /\ OnlyApprovedAppears
BY DEF NothingUnassessedAppears, OnlyApprovedAppears, DeleteSkill, Unassessed, Visible,
       Stored, Table

LEMMA MigratedRows ==
  ASSUME skills' = Migrate(skills)
  PROVE  NothingUnassessedAppears /\ OnlyApprovedAppears
BY DEF NothingUnassessedAppears, OnlyApprovedAppears, Migrate, Unassessed, Visible, Stored

LEMMA AgedRow ==
  ASSUME skills \in Table, NEW id \in SkillIDs, Age(id)
  PROVE  NothingUnassessedAppears /\ OnlyApprovedAppears
<1>1. skills[id] \in Row
  BY DEF Age, FreshSkillIDs, Stored, Table
<1>2. skills'[id] = [skills[id] EXCEPT !.fresh = FALSE]
  BY DEF Age, Table
<1>3. /\ skills'[id].checked = skills[id].checked
      /\ skills'[id].snapshot = skills[id].snapshot
  BY <1>1, <1>2 DEF Row
<1>4. \A other \in SkillIDs \ {id} : skills'[other] = skills[other]
  BY DEF Age, Table
<1>5. skills[id] # Absent
  BY DEF Age, FreshSkillIDs, Stored
<1> QED
  BY <1>3, <1>4, <1>5
  DEF NothingUnassessedAppears, OnlyApprovedAppears, Unassessed, Visible, Stored

LEMMA MarkedRow ==
  ASSUME skills \in Table, NEW id \in SkillIDs, approved \subseteq approved',
         skills' = UpdateSkillAssessment(skills, id),
         id \in Unassessed(skills) => skills[id].snapshot.primary \in approved
  PROVE  NothingUnassessedAppears /\ OnlyApprovedAppears
<1>1. CASE id \notin Unassessed(skills)
  <2>1. skills' = skills
    BY <1>1 DEF UpdateSkillAssessment, Table
  <2> QED
    BY <2>1, UnchangedTable
<1>2. CASE id \in Unassessed(skills)
  <2>1. skills' = [skills EXCEPT ![id] = NewRow(skills[id].snapshot, TRUE)]
    BY <1>2 DEF UpdateSkillAssessment
  <2>2. /\ skills'[id].checked
        /\ skills'[id].snapshot = skills[id].snapshot
    BY <2>1 DEF Table, NewRow
  <2>3. \A other \in SkillIDs \ {id} : skills'[other] = skills[other]
    BY <2>1 DEF Table
  <2> QED
    BY <1>2, <2>2, <2>3
    DEF NothingUnassessedAppears, OnlyApprovedAppears, Unassessed, Visible, Stored
<1> QED
  BY <1>1, <1>2

LEMMA UpsertedRow ==
  ASSUME skills \in Table, NEW id \in SkillIDs, NEW snapshot, NEW checked \in BOOLEAN,
         skills' = UpsertSkill(skills, id, NewRow(snapshot, checked)),
         checked => snapshot.primary \in approved'
  PROVE  OnlyApprovedAppears /\ (checked => NothingUnassessedAppears)
BY DEF NothingUnassessedAppears, OnlyApprovedAppears, UpsertSkill, NewRow, Unassessed,
       Visible, Stored, Table

(* The steps that only end a run, and those that only move it along.       *)
LEMMA EndRunGate ==
  ASSUME TypeOK, GateInv, NEW r \in Replicas, Up(r),
         NEW result, NEW skill, EndRun(r, result, skill),
         ai' = ai, approved' = approved, OnlyApprovedAppears,
         NothingUnassessedAppears \/ ~ai[r]
  PROVE  GateInv'
<1>1. pc'[r] = "idle" /\ run'[r] = NoRun
  BY DEF EndRun, Goto, TypeOK
<1>2. OthersIdle(r)
  BY DEF EndRun, Goto, TypeOK, OthersIdle
<1>3. Local(r)'
  BY <1>1 DEF Local, NoRun, AtHand
<1>4. run'[r].pending = {}
  BY <1>1 DEF NoRun
<1>5. \A q \in Replicas \ {r} : Up(q) => ai'[r] = ai[q]
  BY DEF GateInv, SettingsAgree
<1> QED
  BY <1>2, <1>3, <1>4, <1>5, GateFrame

(* processed++ in Reconcile.                                               *)
LEMMA ProcessedGate ==
  ASSUME TypeOK, GateInv, NEW r \in Replicas, pc[r] \in {"assess", "record"},
         NEW p \in AtHand(r), Processed(r, p),
         ai' = ai, approved' = approved, OnlyApprovedAppears, NothingUnassessedAppears
  PROVE  GateInv'
<1>1. /\ run'[r].pending = run[r].pending \ {p}
      /\ run'[r].passed = FALSE
  BY DEF Processed, TypeOK, RunState
<1>2. pc'[r] = IF run'[r].pending # {} THEN "assess"
               ELSE IF run[r].remaining - 1 > 0 THEN "load" ELSE "snapshot"
  BY <1>1 DEF Processed, Continue, Goto, TypeOK
<1>3. OthersIdle(r)
  BY DEF Processed, Continue, Goto, TypeOK, OthersIdle
<1>4. ai[r] /\ Up(r)
  BY DEF GateInv, Local, Up
<1>5. \A x, y \in run[r].pending : x.id = y.id => x = y
  BY DEF GateInv, Local
<1>6. Local(r)'
  BY <1>1, <1>2, <1>4, <1>5 DEF Local
<1>7. \A q \in Replicas \ {r} : Up(q) => ai'[r] = ai[q]
  BY <1>4 DEF GateInv, SettingsAgree
<1>8. \A x \in run'[r].pending : x \in run[r].pending
  BY <1>1
<1> QED
  BY <1>3, <1>6, <1>7, <1>8, GateFrame

(* A step of discovery that writes nothing or that has just written.       *)
LEMMA DiscoveryGate ==
  ASSUME TypeOK, GateInv, NEW r \in Replicas, pc[r] \in Discovering,
         pc'[r] \in Discovering, run'[r].pending = {}, OthersIdle(r), ai' = ai,
         approved \subseteq approved', OnlyApprovedAppears,
         NothingUnassessedAppears \/ ~ai[r],
         pc'[r] = "write" /\ ai[r] /\ run'[r].passed =>
           run'[r].job.snapshot.primary \in approved'
  PROVE  GateInv'
<1>1. Up(r) /\ \A q \in Replicas \ {r} : Up(q) => ai'[r] = ai[q]
  BY DEF GateInv, SettingsAgree, Up
<1>2. Local(r)'
  BY DEF Local
<1> QED
  BY <1>1, <1>2, GateFrame

LEMMA NoPending ==
  ASSUME GateInv, NEW r \in Replicas, pc[r] \notin {"assess", "record"}
  PROVE  run[r].pending = {}
BY DEF GateInv, Local

LEMMA FlushGate ==
  ASSUME TypeOK, GateInv, NEW r \in Replicas, pc[r] = "discover",
         NEW batch, NEW seen, NEW drained, Flush(r, batch, seen, drained),
         skills' = skills, ai' = ai, approved' = approved
  PROVE  GateInv'
<1> DEFINE jobs == {c \in batch : Eligible(r, c)}
<1>1. CASE jobs = {} /\ drained
  <2>1. EndRun(r, "ok", Absent)
    BY <1>1 DEF Flush
  <2> QED
    BY <2>1, EndRunGate, UnchangedTable DEF Up
<1>2. CASE ~(jobs = {} /\ drained)
  <2> HIDE DEF jobs
  <2>1. /\ run' = [run EXCEPT ![r].batch = {}, ![r].jobs = jobs,
                              ![r].seen = seen, ![r].drained = drained]
        /\ Goto(r, IF jobs = {} THEN "discover" ELSE FirstStep(r))
    BY <1>2 DEF Flush, jobs
  <2>2. /\ run'[r].pending = run[r].pending
        /\ run'[r].passed = run[r].passed
        /\ OthersIdle(r)
    BY <2>1 DEF TypeOK, RunState, Goto, OthersIdle
  <2>3. pc'[r] \in Discovering /\ (pc'[r] = "write" => ~ai[r])
    BY <2>1 DEF TypeOK, Goto, FirstStep
  <2> QED
    BY <2>2, <2>3, DiscoveryGate, NoPending, UnchangedTable
<1> QED
  BY <1>1, <1>2

LEMMA PassingIsApproving ==
  ASSUME TypeOK, NEW r, NEW id, NEW document, NEW v \in Verdicts,
         Assessed(r, id, document, v)
  PROVE  /\ approved \subseteq approved'
         /\ Passing(v) => document \in approved'
<1>1. v.score \in Int /\ v.quality \in Int
  <2>1. v.score \in Scores /\ v.quality \in Scores
    BY DEF Verdicts
  <2>2. \A x \in Scores : x \in Int
    BY ScoresAssumption, SMT
  <2> QED
    BY <2>1, <2>2
<1>2. Passing(v) => v.status = "pass" /\ v.score >= 5 /\ v.quality >= 5
  BY <1>1 DEF Passing
<1> QED
  BY <1>2 DEF Assessed

LEMMA GateStep ==
  ASSUME SettingsShared, TypeOK, GateInv, [Next]_vars
  PROVE  GateInv'
<1> USE DEF history
<1>1. ASSUME NEW r \in Replicas, Boot(r) PROVE GateInv'
  <2>1. pc'[r] = "idle" /\ run' = run /\ approved' = approved
    BY <1>1 DEF Boot, TypeOK
  <2>2. run[r].pending = {} /\ ~run[r].passed
    BY <1>1, NoPending DEF Boot, Up, GateInv, Local
  <2>3. OthersIdle(r) /\ \A q \in Replicas \ {r} : Up(q) => ai'[r] = ai[q]
    BY <1>1 DEF Boot, TypeOK, OthersIdle, SettingsShared
  <2>4. Local(r)'
    BY <2>1, <2>2 DEF Local
  <2> QED
    BY <1>1, <2>1, <2>2, <2>3, <2>4, MigratedRows, GateFrame DEF Boot
<1>2. ASSUME NEW r \in Replicas, Crash(r) PROVE GateInv'
  <2>1. pc'[r] = "down" /\ run'[r] = NoRun /\ OthersIdle(r)
    BY <1>2 DEF Crash, TypeOK, OthersIdle
  <2>2. Local(r)' /\ run'[r].pending = {}
    BY <2>1 DEF Local, NoRun
  <2> QED
    BY <1>2, <2>1, <2>2, UnchangedTable, GateFrame DEF Crash, NewHistory, Up
<1>3. ASSUME NEW r \in Replicas, StartRun(r) PROVE GateInv'
  <2>1. /\ pc'[r] = IF ai[r] THEN "count" ELSE "snapshot"
        /\ run' = run /\ ai' = ai /\ approved' = approved /\ skills' = skills
        /\ OthersIdle(r)
    BY <1>3 DEF StartRun, Goto, NewHistory, TypeOK, OthersIdle
  <2>2. run[r].pending = {} /\ ~run[r].passed /\ Up(r)
    BY <1>3, NoPending DEF StartRun, GateInv, Local, Up
  <2>3. Local(r)'
    BY <2>1, <2>2 DEF Local
  <2>4. \A q \in Replicas \ {r} : Up(q) => ai'[r] = ai[q]
    BY <2>1, <2>2 DEF GateInv, SettingsAgree
  <2> QED
    BY <2>1, <2>2, <2>3, <2>4, UnchangedTable, GateFrame
<1>4. ASSUME NEW r \in Replicas, CountUnassessed(r) PROVE GateInv'
  <2>1. /\ pc'[r] \in {"load", "snapshot"}
        /\ run'[r].pending = run[r].pending /\ run'[r].passed = run[r].passed
        /\ ai' = ai /\ approved' = approved /\ skills' = skills
        /\ OthersIdle(r)
    BY <1>4 DEF CountUnassessed, Continue, Goto, TypeOK, RunState, OthersIdle
  <2>2. run[r].pending = {} /\ ~run[r].passed /\ Up(r) /\ ai[r]
    BY <1>4, NoPending DEF CountUnassessed, GateInv, Local, Up
  <2>3. Local(r)'
    BY <2>1, <2>2 DEF Local
  <2>4. \A q \in Replicas \ {r} : Up(q) => ai'[r] = ai[q]
    BY <2>1, <2>2 DEF GateInv, SettingsAgree
  <2> QED
    BY <2>1, <2>2, <2>3, <2>4, UnchangedTable, GateFrame
<1>5. ASSUME NEW r \in Replicas, LoadUnassessed(r) PROVE GateInv'
  <2> DEFINE rows == UnassessedSkills(skills, BatchSize)
  <2>1. /\ pc'[r] = "assess"
        /\ run'[r].pending = rows /\ run'[r].passed = run[r].passed
        /\ ai' = ai /\ approved' = approved /\ skills' = skills
        /\ OthersIdle(r)
    BY <1>5 DEF LoadUnassessed, Goto, TypeOK, RunState, OthersIdle
  <2>2. ~run[r].passed /\ Up(r) /\ ai[r]
    BY <1>5 DEF LoadUnassessed, GateInv, Local, Up
  <2>3. \A p, q \in rows : p.id = q.id => p = q
    <3>1. \A p \in rows : \E id \in Unassessed(skills) :
            p = [id |-> id, contents |-> Contents(skills[id])]
      BY DEF UnassessedSkills
    <3> HIDE DEF rows
    <3> QED
      BY <3>1
  <2>4. Local(r)'
    BY <2>1, <2>2, <2>3 DEF Local
  <2>5. \A q \in Replicas \ {r} : Up(q) => ai'[r] = ai[q]
    BY <2>1, <2>2 DEF GateInv, SettingsAgree
  <2> QED
    BY <2>1, <2>2, <2>4, <2>5, UnchangedTable, GateFrame
<1>6. ASSUME NEW r \in Replicas, LoadFindsNothing(r) PROVE GateInv'
  BY <1>6, EndRunGate, UnchangedTable DEF LoadFindsNothing, Up
<1>7. ASSUME NEW r \in Replicas, NEW p \in AtHand(r), RemoveMissing(r, p) PROVE GateInv'
  BY <1>7, AtHandType, DeletedRow, ProcessedGate DEF RemoveMissing, TypeOK
<1>8. ASSUME NEW r \in Replicas, NEW p \in AtHand(r), AssessStored(r, p) PROVE GateInv'
  <2>1. PICK v \in Verdicts : /\ Assessed(r, p.id, p.contents, v)
                              /\ run' = [run EXCEPT ![r].passed = Passing(v)]
    BY <1>8 DEF AssessStored
  <2>2. /\ pc'[r] = "record" /\ ai' = ai /\ skills' = skills
        /\ run'[r].pending = run[r].pending /\ run'[r].passed = Passing(v)
        /\ OthersIdle(r)
    BY <1>8, <2>1 DEF AssessStored, Goto, TypeOK, RunState, OthersIdle
  <2>3. ai[r] /\ Up(r) /\ \A x, y \in run[r].pending : x.id = y.id => x = y
    BY <1>8 DEF AssessStored, GateInv, Local, Up
  <2>4. \A x \in AtHand(r) : x = p
    BY <2>3, AtHandType, SkillIDsAssumption DEF AtHand
  <2>5. p.contents # EmptyDocument /\ (Passing(v) => p.contents \in approved')
    BY <1>8, <2>1, PassingIsApproving DEF AssessStored
  <2>6. Local(r)'
    BY <2>2, <2>3, <2>4, <2>5 DEF Local, AtHand
  <2>7. \A q \in Replicas \ {r} : Up(q) => ai'[r] = ai[q]
    BY <2>2, <2>3 DEF GateInv, SettingsAgree
  <2> QED
    BY <2>1, <2>2, <2>6, <2>7, PassingIsApproving, UnchangedTable, GateFrame
<1>9. ASSUME NEW r \in Replicas, NEW p \in AtHand(r), RemoveRejected(r, p) PROVE GateInv'
  BY <1>9, AtHandType, DeletedRow, ProcessedGate DEF RemoveRejected, TypeOK
<1>10. ASSUME NEW r \in Replicas, NEW p \in AtHand(r), pc[r] = "record", run[r].passed,
              p.id \in Unassessed(skills)
       PROVE  skills[p.id].snapshot.primary \in approved
  <2>1. p.contents \in approved /\ p.contents # EmptyDocument
    BY <1>10 DEF GateInv, Local
  <2>2. Contents(skills[p.id]) = p.contents
    BY <1>10 DEF GateInv, PendingIsCurrent, AtHand
  <2> QED
    BY <2>1, <2>2 DEF Contents
<1>11. ASSUME NEW r \in Replicas, NEW p \in AtHand(r), RecordAssessment(r, p) PROVE GateInv'
  <2>1. NothingUnassessedAppears /\ OnlyApprovedAppears
    BY <1>10, <1>11, AtHandType, MarkedRow DEF RecordAssessment, TypeOK
  <2> QED
    BY <1>11, <2>1, ProcessedGate DEF RecordAssessment
<1>12. ASSUME NEW r \in Replicas, NEW p \in AtHand(r), AssessmentConflicts(r, p)
       PROVE  GateInv'
  BY <1>12, EndRunGate, UnchangedTable DEF AssessmentConflicts, Up
<1>13. ASSUME NEW r \in Replicas, NEW p \in AtHand(r), AssessStoredFails(r, p)
       PROVE  GateInv'
  <2>1. PICK cause : EndRun(r, cause, p.id)
    BY <1>13 DEF AssessStoredFails
  <2> QED
    BY <1>13, <2>1, EndRunGate, UnchangedTable DEF AssessStoredFails, Up
<1>14. ASSUME NEW r \in Replicas, NEW p \in AtHand(r), ReconcileWriteFails(r, p)
       PROVE  GateInv'
  <2>1. CASE skills' = skills
    BY <1>14, <2>1, EndRunGate, UnchangedTable DEF ReconcileWriteFails, Up
  <2>2. CASE skills' = DeleteSkill(skills, p.id)
    BY <1>14, <2>2, AtHandType, DeletedRow, EndRunGate DEF ReconcileWriteFails, Up, TypeOK
  <2>3. CASE run[r].passed /\ skills' = UpdateSkillAssessment(skills, p.id)
    <3>1. pc[r] = "record"
      BY <1>14, <2>3 DEF ReconcileWriteFails, GateInv, Local
    <3>2. NothingUnassessedAppears /\ OnlyApprovedAppears
      BY <1>10, <1>14, <2>3, <3>1, AtHandType, MarkedRow DEF ReconcileWriteFails, TypeOK
    <3> QED
      BY <1>14, <3>2, EndRunGate DEF ReconcileWriteFails, Up
  <2> QED
    BY <1>14, <2>1, <2>2, <2>3 DEF ReconcileWriteFails
<1>15. ASSUME NEW r \in Replicas, LoadFresh(r) \/ LoadHashes(r) PROVE GateInv'
  <2>1. /\ pc[r] \in {"snapshot", "hashes"} /\ pc'[r] \in {"hashes", "discover"}
        /\ run'[r].pending = run[r].pending
        /\ ai' = ai /\ approved' = approved /\ skills' = skills
        /\ OthersIdle(r)
    BY <1>15 DEF LoadFresh, LoadHashes, Goto, TypeOK, RunState, OthersIdle
  <2> QED
    BY <2>1, NoPending, UnchangedTable, DiscoveryGate
<1>16. ASSUME NEW r \in Replicas, NEW c \in Candidates, Yield(r, c) PROVE GateInv'
  <2>1. CASE Cardinality(run[r].batch \cup {c}) = BatchSize
    <3>1. Flush(r, run[r].batch \cup {c}, run[r].seen \cup {c.id}, FALSE)
      BY <1>16, <2>1 DEF Yield
    <3> QED
      BY <1>16, <3>1, FlushGate DEF Yield
  <2>2. CASE Cardinality(run[r].batch \cup {c}) # BatchSize
    <3>1. /\ run' = [run EXCEPT ![r].batch = run[r].batch \cup {c},
                                ![r].seen = run[r].seen \cup {c.id}]
          /\ pc' = pc
      BY <1>16, <2>2 DEF Yield
    <3>2. run'[r].pending = run[r].pending /\ OthersIdle(r)
      BY <1>16, <3>1 DEF Yield, TypeOK, RunState, OthersIdle
    <3> QED
      BY <1>16, <3>1, <3>2, NoPending, UnchangedTable, DiscoveryGate DEF Yield
  <2> QED
    BY <2>1, <2>2
<1>17. ASSUME NEW r \in Replicas, SourceEnds(r) PROVE GateInv'
  BY <1>17, FlushGate DEF SourceEnds
<1>18. ASSUME NEW r \in Replicas, NEW c \in run[r].jobs, AuditCandidate(r, c) PROVE GateInv'
  <2>1. PICK v \in Verdicts :
          /\ Assessed(r, c.id, c.snapshot.primary, v)
          /\ run' = [run EXCEPT ![r].job = c, ![r].passed = Passing(v)]
    BY <1>18 DEF AuditCandidate
  <2>2. /\ run'[r].pending = run[r].pending
        /\ run'[r].job = c /\ run'[r].passed = Passing(v)
        /\ pc[r] = "audit" /\ pc'[r] = "write" /\ ai' = ai /\ skills' = skills
        /\ OthersIdle(r)
    BY <1>18, <2>1 DEF AuditCandidate, Goto, TypeOK, RunState, OthersIdle
  <2> QED
    BY <2>1, <2>2, NoPending, PassingIsApproving, UnchangedTable, DiscoveryGate
<1>19. ASSUME NEW r \in Replicas, NEW c \in run[r].jobs, pc[r] = "write",
              ai[r] => c = run[r].job, approved' = approved,
              skills' \in {skills, CandidateWritten(r, c)}
       PROVE  OnlyApprovedAppears /\ (NothingUnassessedAppears \/ ~ai[r])
  <2>1. CASE skills' = skills
    BY <2>1, UnchangedTable
  <2>2. CASE skills' = DeleteSkill(skills, c.id)
    BY <2>2, JobType, DeletedRow DEF TypeOK
  <2>3. CASE /\ ai[r] => run[r].passed
             /\ skills' = UpsertSkill(skills, c.id, NewRow(c.snapshot, ai[r]))
    <3>1. ai[r] \in BOOLEAN /\ (ai[r] => c.snapshot.primary \in approved')
      BY <1>19, <2>3 DEF TypeOK, GateInv, Local
    <3> QED
      BY <2>3, <3>1, JobType, UpsertedRow DEF TypeOK
  <2> QED
    BY <1>19, <2>1, <2>2, <2>3 DEF CandidateWritten
<1>20. ASSUME NEW r \in Replicas, NEW c \in run[r].jobs, WriteCandidate(r, c) PROVE GateInv'
  <2>1. /\ run'[r].pending = run[r].pending
        /\ pc'[r] \in Discovering /\ (pc'[r] = "write" => ~ai[r])
        /\ OthersIdle(r)
    BY <1>20 DEF WriteCandidate, NextJob, Goto, FirstStep, TypeOK, RunState, OthersIdle
  <2> QED
    BY <1>19, <1>20, <2>1, NoPending, DiscoveryGate DEF WriteCandidate
<1>21. ASSUME NEW r \in Replicas, NEW c \in run[r].jobs, NEW cause, FailJob(r, c, cause)
       PROVE  /\ run'[r].pending = run[r].pending
              /\ pc'[r] \in Discovering /\ (pc'[r] = "write" => ~ai[r])
  BY <1>21 DEF FailJob, Goto, FirstStep, TypeOK, RunState
<1>22. ASSUME NEW r \in Replicas, NEW c \in run[r].jobs, WriteCandidateFails(r, c)
       PROVE  GateInv'
  <2>1. OthersIdle(r)
    BY <1>22 DEF WriteCandidateFails, FailJob, Goto, TypeOK, OthersIdle
  <2> QED
    BY <1>19, <1>21, <1>22, <2>1, NoPending, DiscoveryGate DEF WriteCandidateFails
<1>23. ASSUME NEW r \in Replicas, NEW c \in run[r].jobs, AuditCandidateFails(r, c)
       PROVE  GateInv'
  <2>1. PICK cause : FailJob(r, c, cause)
    BY <1>23 DEF AuditCandidateFails
  <2>2. OthersIdle(r)
    BY <1>23, <2>1 DEF AuditCandidateFails, FailJob, Goto, TypeOK, OthersIdle
  <2> QED
    BY <1>21, <1>23, <2>1, <2>2, NoPending, UnchangedTable, DiscoveryGate
    DEF AuditCandidateFails
<1>24. ASSUME NEW r \in Replicas, FinishBatch(r) PROVE GateInv'
  <2>1. ASSUME NEW result, NEW skill, EndRun(r, result, skill) PROVE GateInv'
    BY <1>24, <2>1, EndRunGate, UnchangedTable DEF FinishBatch, Up
  <2>2. CASE Goto(r, "discover") /\ UNCHANGED <<run, outcome>>
    <3>1. pc'[r] = "discover" /\ OthersIdle(r)
      BY <1>24, <2>2 DEF FinishBatch, Goto, TypeOK, OthersIdle
    <3> QED
      BY <1>24, <2>2, <3>1, NoPending, UnchangedTable, DiscoveryGate DEF FinishBatch
  <2> QED
    BY <1>24, <2>1, <2>2 DEF FinishBatch
<1>25. ASSUME NEW r \in Replicas, ReadFails(r) PROVE GateInv'
  BY <1>25, EndRunGate, UnchangedTable DEF ReadFails, Up
<1>26. ASSUME NEW id \in SkillIDs, Age(id) PROVE GateInv'
  <2>1. NothingUnassessedAppears /\ OnlyApprovedAppears
    BY <1>26, AgedRow DEF TypeOK
  <2>2. pc' = pc /\ run' = run /\ ai' = ai /\ approved' = approved
    BY <1>26 DEF Age
  <2>3. PublishedWasApproved' /\ PendingIsCurrent'
    BY <2>1, <2>2 DEF GateInv, PublishedWasApproved, PendingIsCurrent,
       NothingUnassessedAppears, OnlyApprovedAppears, Contents
  <2>4. SettingsAgree' /\ \A r \in Replicas : Local(r)'
    BY <2>2 DEF GateInv, SettingsAgree, Local, AtHand, Up
  <2> QED
    BY <2>3, <2>4 DEF GateInv
<1>27. CASE UNCHANGED vars
  BY <1>27 DEF vars, GateInv, PublishedWasApproved, SettingsAgree, PendingIsCurrent,
     Local, AtHand, Up
<1> QED
  BY <1>1, <1>2, <1>3, <1>4, <1>5, <1>6, <1>7, <1>8, <1>9, <1>11, <1>12, <1>13, <1>14,
     <1>15, <1>16, <1>17, <1>18, <1>20, <1>22, <1>23, <1>24, <1>25, <1>26, <1>27
  DEF Next, RunStep, ReconcileStep, DiscoveryStep, FaultStep

LEMMA GateInit == Init => TypeOK /\ GateInv
<1> SUFFICES ASSUME Init PROVE TypeOK /\ GateInv
  OBVIOUS
<1>1. TypeOK
  BY TypeInit
<1>2. \A r \in Replicas : Local(r) /\ run[r].pending = {}
  BY DEF Init, NoRun, Local
<1>3. PublishedWasApproved /\ SettingsAgree
  BY DEF Init, PublishedWasApproved, Visible, Unassessed, SettingsAgree, Up
<1> QED
  BY <1>1, <1>2, <1>3 DEF GateInv, PendingIsCurrent

(* When all running processes have the same AI setting, a row is published *)
(* only with a document some assessment passed.                            *)
THEOREM PublicationGate ==
  ASSUME SettingsShared
  PROVE  Spec => []PublishedWasApproved
<1>1. TypeOK /\ GateInv /\ [Next]_vars => (TypeOK /\ GateInv)'
  BY TypeStep, GateStep
<1>2. GateInv => PublishedWasApproved
  BY DEF GateInv
<1> QED
  BY <1>1, <1>2, GateInit, PTL DEF Spec

-----------------------------------------------------------------------------
(* Indexer implements Publication.  Every statement on the table publishes *)
(* one approved document, or only withdraws some; an answer of the auditor *)
(* only approves; everything else is invisible.                            *)

Published(table) ==
  [id \in SkillIDs |->
     IF id \in Visible(table, TRUE) THEN table[id].snapshot.primary ELSE Absent]

LEMMA OnlyWithdraws ==
  ASSUME approved' = approved,
         \A id \in Visible(skills', TRUE) :
           id \in Visible(skills, TRUE) /\ skills'[id].snapshot = skills[id].snapshot
  PROVE  Catalog!Next
<1>1. PICK gone \in SUBSET SkillIDs : gone = SkillIDs \ Visible(skills', TRUE)
  OBVIOUS
<1>2. \A id \in SkillIDs :
        Published(skills')[id] = IF id \in gone THEN Absent ELSE Published(skills)[id]
  BY <1>1 DEF Published
<1>3. Published(skills') =
        [id \in SkillIDs |-> IF id \in gone THEN Absent ELSE Published(skills)[id]]
  BY <1>2 DEF Published
<1>4. Catalog!Withdraw(gone)
  BY <1>3 DEF Catalog!Withdraw, Published
<1> QED
  BY <1>4 DEF Catalog!Next

LEMMA PublishesOne ==
  ASSUME approved' = approved, skills \in Table, NEW id \in SkillIDs,
         NEW snapshot \in Snapshots, snapshot.primary \in approved,
         skills' = [skills EXCEPT ![id] = NewRow(snapshot, TRUE)]
  PROVE  Catalog!Next
<1>1. /\ id \in Visible(skills', TRUE) /\ skills'[id].snapshot = snapshot
      /\ \A other \in SkillIDs \ {id} : skills'[other] = skills[other]
  <2>1. skills'[id] = NewRow(snapshot, TRUE)
    BY DEF Table
  <2>2. NewRow(snapshot, TRUE) # Absent
    <3>1. NewRow(snapshot, TRUE) \in Row
      BY DEF NewRow, Row
    <3> QED
      BY <3>1, AbsentAssumption, Zenon
  <2>3. \A other \in SkillIDs \ {id} : skills'[other] = skills[other]
    BY DEF Table
  <2> QED
    BY <2>1, <2>2, <2>3 DEF Visible, Stored, NewRow
<1>2. Published(skills') = [Published(skills) EXCEPT ![id] = snapshot.primary]
  <2>1. \A other \in SkillIDs \ {id} :
          other \in Visible(skills', TRUE) <=> other \in Visible(skills, TRUE)
    BY <1>1 DEF Visible, Stored
  <2>2. \A other \in SkillIDs :
          Published(skills')[other] =
            IF other = id THEN snapshot.primary ELSE Published(skills)[other]
    <3>1. Published(skills')[id] = snapshot.primary
      BY <1>1 DEF Published
    <3>2. ASSUME NEW other \in SkillIDs \ {id}
          PROVE  Published(skills')[other] = Published(skills)[other]
      <4>1. skills'[other] = skills[other]
        BY <1>1
      <4>2. other \in Visible(skills', TRUE) <=> other \in Visible(skills, TRUE)
        BY <2>1
      <4>3. Published(skills')[other] =
              IF other \in Visible(skills', TRUE)
              THEN skills'[other].snapshot.primary ELSE Absent
        BY DEF Published
      <4>4. Published(skills)[other] =
              IF other \in Visible(skills, TRUE)
              THEN skills[other].snapshot.primary ELSE Absent
        BY DEF Published
      <4> QED
        BY <4>1, <4>2, <4>3, <4>4
    <3> QED
      BY <3>1, <3>2
  <2> QED
    BY <2>2 DEF Published
<1>3. Catalog!Publish(id, snapshot.primary)
  BY <1>2 DEF Catalog!Publish, Published
<1>4. snapshot.primary \in Documents
  BY DEF Snapshots
<1> QED
  BY <1>3, <1>4 DEF Catalog!Next

LEMMA TableStands ==
  ASSUME skills' = skills, approved' = approved
  PROVE  Catalog!Next
BY OnlyWithdraws

LEMMA RowDeleted ==
  ASSUME skills \in Table, NEW id \in SkillIDs, skills' = DeleteSkill(skills, id),
         approved' = approved
  PROVE  Catalog!Next
<1>1. \A other \in Visible(skills', TRUE) :
        other \in Visible(skills, TRUE) /\ skills'[other].snapshot = skills[other].snapshot
  BY DEF DeleteSkill, Visible, Stored, Table
<1> QED
  BY <1>1, OnlyWithdraws

LEMMA AnswerApproves ==
  ASSUME skills' = skills, NEW r, NEW id, NEW document \in Documents, NEW v,
         Assessed(r, id, document, v)
  PROVE  Catalog!Next
<1>1. CASE approved' = approved
  BY <1>1, TableStands
<1>2. CASE approved' = approved \cup {document}
  <2>1. Catalog!Approve(document)
    BY <1>2 DEF Catalog!Approve
  <2> QED
    BY <2>1 DEF Catalog!Next
<1> QED
  BY <1>1, <1>2 DEF Assessed

(* The row that is marked: what was assessed is what the row holds.        *)
LEMMA RowMarked ==
  ASSUME TypeOK, GateInv, NEW r \in Replicas, pc[r] = "record", run[r].passed,
         NEW p \in AtHand(r), approved' = approved,
         skills' = UpdateSkillAssessment(skills, p.id)
  PROVE  Catalog!Next
<1>1. CASE p.id \notin Unassessed(skills)
  <2>1. skills' = skills
    BY <1>1 DEF UpdateSkillAssessment, TypeOK, Table
  <2> QED
    BY <2>1, TableStands
<1>2. CASE p.id \in Unassessed(skills)
  <2>1. p.contents \in approved /\ p.contents # EmptyDocument
    BY DEF GateInv, Local
  <2>2. Contents(skills[p.id]) = p.contents
    BY <1>2 DEF GateInv, PendingIsCurrent, AtHand
  <2>3. skills[p.id].snapshot.primary \in approved
    BY <2>1, <2>2 DEF Contents
  <2>4. skills[p.id].snapshot \in Snapshots
    BY <1>2 DEF TypeOK, Table, Row, Unassessed, Stored
  <2>5. skills' = [skills EXCEPT ![p.id] = NewRow(skills[p.id].snapshot, TRUE)]
    BY <1>2 DEF UpdateSkillAssessment
  <2> QED
    BY <2>3, <2>4, <2>5, AtHandType, PublishesOne DEF TypeOK
<1> QED
  BY <1>1, <1>2

(* What WriteCandidate does to the table, or half of WriteCandidateFails.  *)
LEMMA CandidateIsPublished ==
  ASSUME TypeOK, GateInv, NEW r \in Replicas, NEW c \in run[r].jobs, pc[r] = "write",
         ai[r] => c = run[r].job, approved' = approved,
         skills' \in {skills, CandidateWritten(r, c)}
  PROVE  Catalog!Next
<1>1. CASE skills' = skills
  BY <1>1, TableStands
<1>2. CASE skills' = DeleteSkill(skills, c.id)
  BY <1>2, JobType, RowDeleted DEF TypeOK
<1>3. CASE ai[r] /\ run[r].passed /\ skills' = UpsertSkill(skills, c.id, NewRow(c.snapshot, TRUE))
  <2>1. c.snapshot.primary \in approved
    BY <1>3 DEF GateInv, Local
  <2> QED
    BY <1>3, <2>1, JobType, PublishesOne DEF TypeOK, UpsertSkill
<1>4. CASE skills' = UpsertSkill(skills, c.id, NewRow(c.snapshot, FALSE))
  <2>1. /\ c.id \notin Visible(skills', TRUE)
        /\ \A other \in SkillIDs \ {c.id} : skills'[other] = skills[other]
    BY <1>4, JobType DEF TypeOK, Table, UpsertSkill, NewRow, Visible
  <2>2. \A other \in Visible(skills', TRUE) :
          other \in Visible(skills, TRUE) /\ skills'[other].snapshot = skills[other].snapshot
    BY <2>1 DEF Visible, Stored
  <2> QED
    BY <2>2, OnlyWithdraws
<1>5. ai[r] = TRUE \/ ai[r] = FALSE
  BY DEF TypeOK
<1> QED
  BY <1>1, <1>2, <1>3, <1>4, <1>5 DEF CandidateWritten

LEMMA PublicationStep ==
  ASSUME TypeOK, GateInv, [Next]_vars
  PROVE  Catalog!Next
<1> USE DEF history
<1>1. ASSUME NEW r \in Replicas, Boot(r) PROVE Catalog!Next
  <2>1. \A id \in Visible(skills', TRUE) :
          id \in Visible(skills, TRUE) /\ skills'[id].snapshot = skills[id].snapshot
    BY <1>1 DEF Boot, Migrate, Visible, Stored
  <2> QED
    BY <1>1, <2>1, OnlyWithdraws DEF Boot
<1>2. ASSUME NEW r \in Replicas,
             \/ StartRun(r) \/ Crash(r) \/ ReadFails(r) \/ CountUnassessed(r)
             \/ LoadUnassessed(r) \/ LoadFindsNothing(r) \/ LoadFresh(r) \/ LoadHashes(r)
             \/ SourceEnds(r) \/ FinishBatch(r)
      PROVE  Catalog!Next
  <2>1. skills' = skills /\ approved' = approved
    BY <1>2 DEF StartRun, Crash, NewHistory, ReadFails, CountUnassessed, LoadUnassessed,
       LoadFindsNothing, LoadFresh, LoadHashes, SourceEnds, FinishBatch
  <2> QED
    BY <2>1, TableStands
<1>3. ASSUME NEW r \in Replicas, NEW c \in Candidates, Yield(r, c) PROVE Catalog!Next
  BY <1>3, TableStands DEF Yield
<1>4. ASSUME NEW r \in Replicas, NEW p \in AtHand(r),
             AssessmentConflicts(r, p) \/ AssessStoredFails(r, p)
      PROVE  Catalog!Next
  BY <1>4, TableStands DEF AssessmentConflicts, AssessStoredFails
<1>5. ASSUME NEW r \in Replicas, NEW p \in AtHand(r),
             RemoveMissing(r, p) \/ RemoveRejected(r, p)
      PROVE  Catalog!Next
  <2>1. skills' = DeleteSkill(skills, p.id) /\ approved' = approved
    BY <1>5 DEF RemoveMissing, RemoveRejected
  <2> QED
    BY <2>1, AtHandType, RowDeleted DEF TypeOK
<1>6. ASSUME NEW r \in Replicas, NEW p \in AtHand(r), AssessStored(r, p)
      PROVE  Catalog!Next
  BY <1>6, AtHandType, AnswerApproves DEF AssessStored
<1>7. ASSUME NEW r \in Replicas, NEW p \in AtHand(r), RecordAssessment(r, p)
      PROVE  Catalog!Next
  BY <1>7, RowMarked DEF RecordAssessment
<1>8. ASSUME NEW r \in Replicas, NEW p \in AtHand(r), ReconcileWriteFails(r, p)
      PROVE  Catalog!Next
  <2>1. approved' = approved
    BY <1>8 DEF ReconcileWriteFails
  <2>2. CASE skills' = skills
    BY <2>1, <2>2, TableStands
  <2>3. CASE skills' = DeleteSkill(skills, p.id)
    BY <2>1, <2>3, AtHandType, RowDeleted DEF TypeOK
  <2>4. CASE run[r].passed /\ skills' = UpdateSkillAssessment(skills, p.id)
    <3>1. pc[r] = "record"
      BY <1>8, <2>4 DEF ReconcileWriteFails, GateInv, Local
    <3> QED
      BY <2>1, <2>4, <3>1, RowMarked
  <2> QED
    BY <1>8, <2>2, <2>3, <2>4 DEF ReconcileWriteFails
<1>9. ASSUME NEW r \in Replicas, NEW c \in run[r].jobs, AuditCandidate(r, c)
      PROVE  Catalog!Next
  BY <1>9, JobType, AnswerApproves DEF AuditCandidate
<1>10. ASSUME NEW r \in Replicas, NEW c \in run[r].jobs, AuditCandidateFails(r, c)
       PROVE  Catalog!Next
  BY <1>10, TableStands DEF AuditCandidateFails
<1>11. ASSUME NEW r \in Replicas, NEW c \in run[r].jobs,
              WriteCandidate(r, c) \/ WriteCandidateFails(r, c)
       PROVE  Catalog!Next
  BY <1>11, CandidateIsPublished DEF WriteCandidate, WriteCandidateFails
<1>12. ASSUME NEW id \in SkillIDs, Age(id) PROVE Catalog!Next
  <2>1. skills' = [skills EXCEPT ![id].fresh = FALSE] /\ approved' = approved
    BY <1>12 DEF Age
  <2>2. skills[id] \in Row
    BY <1>12 DEF Age, FreshSkillIDs, Stored, TypeOK, Table
  <2>3. /\ skills'[id].checked = skills[id].checked
        /\ skills'[id].snapshot = skills[id].snapshot
        /\ \A other \in SkillIDs \ {id} : skills'[other] = skills[other]
    BY <2>1, <2>2 DEF TypeOK, Table, Row
  <2>4. \A x \in Visible(skills', TRUE) :
          x \in Visible(skills, TRUE) /\ skills'[x].snapshot = skills[x].snapshot
    BY <1>12, <2>3 DEF Visible, Age, FreshSkillIDs, Stored
  <2> QED
    BY <2>1, <2>4, OnlyWithdraws
<1>13. CASE UNCHANGED vars
  BY <1>13, TableStands DEF vars
<1> QED
  BY <1>1, <1>2, <1>3, <1>4, <1>5, <1>6, <1>7, <1>8, <1>9, <1>10, <1>11, <1>12, <1>13
  DEF Next, RunStep, ReconcileStep, DiscoveryStep, FaultStep

(* README.md:3, as a whole: with processes that share their AI setting,    *)
(* readers only ever see documents change as module Publication allows:    *)
(* approved first, published then, withdrawn at any time.                  *)
THEOREM ImplementsCatalog ==
  ASSUME SettingsShared
  PROVE  Spec => ImplementsPublication
<1>1. Init => Catalog!Init
  <2> SUFFICES ASSUME Init PROVE Catalog!Init
    OBVIOUS
  <2>1. Visible(skills, TRUE) = {}
    BY DEF Init, Visible, Unassessed
  <2> QED
    BY <2>1 DEF Init, Catalog!Init
<1>2. TypeOK /\ GateInv /\ [Next]_vars => (TypeOK /\ GateInv)'
  BY TypeStep, GateStep
<1>3. TypeOK /\ GateInv /\ [Next]_vars => Catalog!Next
  BY PublicationStep
<1> QED
  BY <1>1, <1>2, <1>3, GateInit, PTL DEF Spec, ImplementsPublication, Catalog!Spec

-----------------------------------------------------------------------------
(* A process that has the database to itself: what a run counts and reads  *)
(* stays true of the table until the run ends.                             *)

OneReplica == \A r, q \in Replicas : r = q

(* Reconcile's counter is the number of rows left, and the rows at hand    *)
(* are among them.                                                         *)
RowsCounted(r) ==
  pc[r] \in {"load", "assess", "record"} =>
    /\ run[r].remaining = Cardinality(Unassessed(skills))
    /\ pc[r] = "load" => run[r].remaining > 0
    /\ \A p \in run[r].pending : p.id \in Unassessed(skills)

AllAssessed(r) == ai[r] /\ pc[r] \in Discovering => Unassessed(skills) = {}

EndsOnce(r) ==
  /\ outcome[r].result # "conflict"
  /\ pc[r] # "idle" => outcome[r].result = "none"
  /\ run[r].error => pc[r] \in {"audit", "write"}

(* The skill that was rejected and is about to be removed.                 *)
Doomed(r) ==
  IF pc[r] = "write" /\ ai[r] /\ ~run[r].passed THEN {run[r].job.id} ELSE {}

RejectedGone(r) ==
  /\ (pc[r] \notin {"down", "idle"} /\ ~run[r].error) \/ outcome[r].result = "ok" =>
       rejected[r] \cap Visible(skills, TRUE) \subseteq Doomed(r)
  /\ pc[r] = "record" /\ run[r].passed => \A p \in AtHand(r) : p.id \notin rejected[r]
  /\ pc[r] = "write" /\ ai[r] /\ run[r].passed => run[r].job.id \notin rejected[r]

Waiting(r) == run[r].batch \cup run[r].jobs

JobsOnce(r) ==
  /\ \A c, d \in Waiting(r) : c.id = d.id => c = d
  /\ \A c \in Waiting(r) : c.id \in run[r].seen
  /\ run[r].batch = {} \/ pc[r] = "discover"
  /\ run[r].jobs = {} \/ pc[r] \in {"audit", "write"}
  /\ \A c \in run[r].jobs : c.id \notin run[r].freshIDs
  /\ run[r].seen = {} \/ pc[r] \in {"discover", "audit", "write"}
  /\ pc[r] = "audit" => ai[r]
  /\ pc[r] = "write" /\ ai[r] => run[r].job \in run[r].jobs

(* A row is fresh because it was when the run began, or because the run    *)
(* itself wrote it, and then its id does not come back.                    *)
FreshKnown(r) ==
  pc[r] \in {"hashes", "discover", "audit", "write"} =>
    \A id \in FreshSkillIDs(skills) \ run[r].freshIDs :
      id \in run[r].seen /\ \A c \in Waiting(r) : c.id # id

Sole(r) ==
  /\ RowsCounted(r)
  /\ AllAssessed(r)
  /\ EndsOnce(r)
  /\ RejectedGone(r)
  /\ JobsOnce(r)
  /\ FreshKnown(r)

SoleInv == \A r \in Replicas : Sole(r)

LEMMA UnassessedFinite ==
  /\ IsFiniteSet(Unassessed(skills))
  /\ Cardinality(Unassessed(skills)) \in Nat
  /\ Cardinality(Unassessed(skills)) = 0 <=> Unassessed(skills) = {}
<1>1. IsFiniteSet(Unassessed(skills))
  BY SkillIDsAssumption, FS_Subset DEF Unassessed, Stored
<1> QED
  BY <1>1, FS_CardinalityType, FS_EmptySet

LEMMA LeastNatural ==
  ASSUME NEW S \in SUBSET Nat, S # {}
  PROVE  \E n \in S : \A m \in S : ~(m < n)
<1> DEFINE Below == {pair \in Nat \X Nat : pair[1] < pair[2]}
<1>1. IsWellFoundedOn(Below, Nat)
  BY NatLessThanWellFounded, Zenon DEF OpToRel
<1>2. \A m, n \in Nat : m < n => <<m, n>> \in Below
  OBVIOUS
<1> HIDE DEF Below
<1>3. \E n \in S : \A m \in S : <<m, n>> \notin Below
  BY <1>1, WFMin, Zenon
<1> QED
  BY <1>2, <1>3

(* ORDER BY id LIMIT BatchSize finds a row whenever there is one.          *)
LEMMA SomeRowIsLoaded ==
  ASSUME Unassessed(skills) # {}
  PROVE  UnassessedSkills(skills, BatchSize) # {}
<1>1. Unassessed(skills) \in SUBSET Nat
  BY SkillIDsAssumption DEF Unassessed, Stored
<1>2. PICK id \in Unassessed(skills) : \A other \in Unassessed(skills) : ~(other < id)
  BY <1>1, LeastNatural
<1>3. {other \in Unassessed(skills) : other < id} = {}
  BY <1>2
<1>4. Cardinality({other \in Unassessed(skills) : other < id}) < BatchSize
  BY <1>3, FS_EmptySet, BatchSizeAssumption
<1> QED
  BY <1>2, <1>4 DEF UnassessedSkills

LEMMA RunEnded ==
  ASSUME TypeOK, NEW r \in Replicas, NEW result, NEW skill, result # "conflict",
         EndRun(r, result, skill),
         result = "ok" => rejected'[r] \cap Visible(skills', TRUE) = {}
  PROVE  Sole(r)'
<1>1. pc'[r] = "idle" /\ run'[r] = NoRun /\ outcome'[r].result = result
  BY DEF EndRun, Goto, TypeOK, Outcomes
<1>2. /\ run'[r].batch = {} /\ run'[r].jobs = {} /\ run'[r].seen = {}
      /\ run'[r].error = FALSE
  BY <1>1 DEF NoRun
<1>3. RowsCounted(r)' /\ AllAssessed(r)' /\ EndsOnce(r)' /\ FreshKnown(r)'
  BY <1>1, <1>2 DEF RowsCounted, AllAssessed, EndsOnce, FreshKnown
<1>4. RejectedGone(r)'
  BY <1>1, <1>2 DEF RejectedGone
<1>5. JobsOnce(r)'
  BY <1>1, <1>2 DEF JobsOnce, Waiting
<1> QED
  BY <1>3, <1>4, <1>5 DEF Sole

(* processed++ in Reconcile, after the row was marked or removed.          *)
LEMMA RowDone ==
  ASSUME TypeOK, GateInv, NEW r \in Replicas, Sole(r), pc[r] \in {"assess", "record"},
         NEW p \in AtHand(r), Processed(r, p),
         ai' = ai, outcome' = outcome, rejected' = rejected,
         Unassessed(skills') = Unassessed(skills) \ {p.id},
         \A id \in Visible(skills', TRUE) :
           id \in Visible(skills, TRUE) \/ (id = p.id /\ id \notin rejected[r])
  PROVE  Sole(r)'
<1>1. /\ run'[r].pending = run[r].pending \ {p}
      /\ run'[r].remaining = run[r].remaining - 1
      /\ run'[r].error = run[r].error
      /\ run'[r].batch = run[r].batch /\ run'[r].jobs = run[r].jobs
      /\ run'[r].seen = run[r].seen
  BY DEF Processed, TypeOK, RunState
<1>2. pc'[r] = IF run'[r].pending # {} THEN "assess"
               ELSE IF run[r].remaining - 1 > 0 THEN "load" ELSE "snapshot"
  BY <1>1 DEF Processed, Continue, Goto, TypeOK
<1>3. /\ p.id \in Unassessed(skills)
      /\ run[r].remaining = Cardinality(Unassessed(skills))
  BY DEF Sole, RowsCounted, AtHand
<1>4. /\ Cardinality(Unassessed(skills')) = run'[r].remaining
      /\ Cardinality(Unassessed(skills')) \in Nat
      /\ Cardinality(Unassessed(skills')) = 0 <=> Unassessed(skills') = {}
  <2>1. /\ IsFiniteSet(Unassessed(skills'))
        /\ Cardinality(Unassessed(skills')) = Cardinality(Unassessed(skills)) - 1
    <3> DEFINE rows == Unassessed(skills)
    <3>1. IsFiniteSet(rows) /\ p.id \in rows /\ Unassessed(skills') = rows \ {p.id}
      BY <1>3, UnassessedFinite
    <3> HIDE DEF rows
    <3>2. IsFiniteSet(rows \ {p.id}) /\ Cardinality(rows \ {p.id}) = Cardinality(rows) - 1
      BY <3>1, FS_RemoveElement
    <3> QED
      BY <3>1, <3>2 DEF rows
  <2>2. /\ Cardinality(Unassessed(skills')) \in Nat
        /\ Cardinality(Unassessed(skills')) = 0 <=> Unassessed(skills') = {}
    BY <2>1, FS_EmptySet, FS_CardinalityType
  <2> QED
    BY <1>1, <1>3, <2>1, <2>2
<1>5. \A q \in run'[r].pending : q.id \in Unassessed(skills')
  <2>1. \A q \in run[r].pending : q.id = p.id => q = p
    BY DEF GateInv, Local, AtHand
  <2> QED
    BY <1>1, <2>1 DEF Sole, RowsCounted
<1>6. RowsCounted(r)'
  BY <1>1, <1>2, <1>4, <1>5 DEF RowsCounted
<1>7. AllAssessed(r)'
  BY <1>1, <1>2, <1>4 DEF AllAssessed
<1>8. EndsOnce(r)' /\ FreshKnown(r)'
  BY <1>1, <1>2 DEF Sole, EndsOnce, FreshKnown
<1>9. RejectedGone(r)'
  <2>1. rejected[r] \cap Visible(skills, TRUE) = {}
    BY DEF Sole, EndsOnce, RejectedGone, Doomed
  <2>2. pc'[r] \notin {"record", "write"}
    BY <1>2
  <2> QED
    BY <2>1, <2>2 DEF RejectedGone
<1>10. JobsOnce(r)'
  BY <1>1, <1>2 DEF Sole, JobsOnce, Waiting
<1> QED
  BY <1>6, <1>7, <1>8, <1>9, <1>10 DEF Sole

(* A step that leaves the table alone and goes on within the run.          *)
LEMMA FlushSole ==
  ASSUME TypeOK, NEW r \in Replicas, Sole(r), pc[r] = "discover",
         NEW batch, NEW seen, NEW drained, Flush(r, batch, seen, drained),
         skills' = skills, ai' = ai, rejected' = rejected,
         \A c, d \in batch : c.id = d.id => c = d,
         \A c \in batch : c.id \in seen,
         run[r].seen \subseteq seen,
         \A id \in FreshSkillIDs(skills) \ run[r].freshIDs :
           id \in run[r].seen /\ \A c \in batch : c.id # id
  PROVE  Sole(r)'
<1> DEFINE jobs == {c \in batch : Eligible(r, c)}
<1>1. rejected[r] \cap Visible(skills, TRUE) = {} /\ ~run[r].error
  BY DEF Sole, EndsOnce, RejectedGone, Doomed
<1>2. CASE jobs = {} /\ drained
  <2>1. EndRun(r, "ok", Absent)
    BY <1>2 DEF Flush
  <2> QED
    BY <1>1, <2>1, RunEnded
<1>3. CASE ~(jobs = {} /\ drained)
  <2>1. /\ \A c \in jobs : c \in batch /\ c.id \notin run[r].freshIDs
    BY DEF Eligible
  <2> HIDE DEF jobs
  <2>2. /\ run' = [run EXCEPT ![r].batch = {}, ![r].jobs = jobs,
                              ![r].seen = seen, ![r].drained = drained]
        /\ Goto(r, IF jobs = {} THEN "discover" ELSE FirstStep(r))
        /\ outcome' = outcome
    BY <1>3 DEF Flush, jobs
  <2>3. /\ run'[r].batch = {} /\ run'[r].jobs = jobs /\ run'[r].seen = seen
        /\ run'[r].freshIDs = run[r].freshIDs
        /\ run'[r].error = run[r].error
    BY <2>2 DEF TypeOK, RunState
  <2>4. /\ pc'[r] \in {"discover", "audit", "write"}
        /\ (pc'[r] = "write" => ~ai[r]) /\ (pc'[r] = "audit" => ai[r])
        /\ (jobs # {} => pc'[r] # "discover")
    BY <2>2 DEF TypeOK, Goto, FirstStep
  <2>5. RowsCounted(r)' /\ AllAssessed(r)'
    BY <2>4 DEF Sole, RowsCounted, AllAssessed
  <2>6. EndsOnce(r)'
    BY <1>1, <2>2, <2>3, <2>4 DEF Sole, EndsOnce
  <2>7. RejectedGone(r)'
    BY <1>1, <2>4 DEF RejectedGone
  <2>8. JobsOnce(r)'
    BY <2>1, <2>3, <2>4 DEF JobsOnce, Waiting
  <2>9. FreshKnown(r)'
    BY <2>1, <2>3 DEF FreshKnown, Waiting
  <2> QED
    BY <2>5, <2>6, <2>7, <2>8, <2>9 DEF Sole
<1> QED
  BY <1>2, <1>3

(* What a written candidate does to the table.                             *)
LEMMA WrittenRows ==
  ASSUME TypeOK, NEW r \in Replicas, NEW c \in run[r].jobs,
         skills' = CandidateWritten(r, c)
  PROVE  /\ FreshSkillIDs(skills') \subseteq FreshSkillIDs(skills) \cup {c.id}
         /\ ai[r] => Unassessed(skills') \subseteq Unassessed(skills)
         /\ \A id \in Visible(skills', TRUE) :
              \/ id \in Visible(skills, TRUE)
              \/ id = c.id /\ ai[r] /\ run[r].passed
         /\ ai[r] /\ ~run[r].passed => c.id \notin Visible(skills', TRUE)
         /\ \A id \in SkillIDs \ {c.id} : skills'[id] = skills[id]
<1>1. c.id \in SkillIDs
  BY JobType
<1>2. CASE ai[r] /\ ~run[r].passed
  <2>1. skills' = [skills EXCEPT ![c.id] = Absent]
    BY <1>2 DEF CandidateWritten, DeleteSkill
  <2>2. /\ skills'[c.id] = Absent
        /\ \A id \in SkillIDs \ {c.id} : skills'[id] = skills[id]
    BY <1>1, <2>1 DEF TypeOK, Table
  <2> QED
    BY <2>2 DEF FreshSkillIDs, Unassessed, Visible, Stored
<1>3. CASE ~(ai[r] /\ ~run[r].passed) /\ c.snapshot \in Unstorable
  <2>1. skills' = skills
    BY <1>3 DEF CandidateWritten
  <2> QED
    BY <1>3, <2>1
<1>4. CASE ~(ai[r] /\ ~run[r].passed) /\ c.snapshot \notin Unstorable
  <2>1. skills' = [skills EXCEPT ![c.id] = NewRow(c.snapshot, ai[r])]
    BY <1>4 DEF CandidateWritten, UpsertSkill
  <2>2. /\ skills'[c.id].checked = ai[r]
        /\ \A id \in SkillIDs \ {c.id} : skills'[id] = skills[id]
    BY <1>1, <2>1 DEF TypeOK, Table, NewRow
  <2>3. FreshSkillIDs(skills') \subseteq FreshSkillIDs(skills) \cup {c.id}
    BY <2>2 DEF FreshSkillIDs, Stored
  <2>4. ai[r] => Unassessed(skills') \subseteq Unassessed(skills)
    BY <2>2 DEF Unassessed, Stored
  <2>5. \A id \in Visible(skills', TRUE) :
          \/ id \in Visible(skills, TRUE)
          \/ id = c.id /\ ai[r] /\ run[r].passed
    BY <1>4, <2>2 DEF Visible, Stored
  <2> QED
    BY <1>4, <2>2, <2>3, <2>4, <2>5
<1> QED
  BY <1>2, <1>3, <1>4

(* Job c has been written, or has failed at any point.                     *)
LEMMA JobDone ==
  ASSUME TypeOK, NEW r \in Replicas, Sole(r), pc[r] \in {"audit", "write"},
         NEW c \in run[r].jobs, ai' = ai, outcome' = outcome, rejected' = rejected,
         pc'[r] = FirstStep(r),
         run'[r].jobs = run[r].jobs \ {c}, run'[r].batch = run[r].batch,
         run'[r].seen = run[r].seen, run'[r].freshIDs = run[r].freshIDs,
         FreshSkillIDs(skills') \subseteq FreshSkillIDs(skills) \cup {c.id},
         ai[r] => Unassessed(skills') \subseteq Unassessed(skills),
         \/ run'[r].error
         \/ /\ run'[r].error = run[r].error
            /\ run[r].error \/ rejected[r] \cap Visible(skills', TRUE) = {}
  PROVE  Sole(r)'
<1>1. /\ pc'[r] \in {"audit", "write"}
      /\ (pc'[r] = "write" => ~ai[r]) /\ (pc'[r] = "audit" => ai[r])
  BY DEF FirstStep
<1>2. RowsCounted(r)'
  BY <1>1 DEF RowsCounted
<1>3. AllAssessed(r)'
  BY <1>1 DEF Sole, AllAssessed
<1>4. EndsOnce(r)' /\ outcome[r].result = "none"
  BY <1>1 DEF Sole, EndsOnce
<1>5. RejectedGone(r)'
  BY <1>1, <1>4 DEF RejectedGone
<1>6. JobsOnce(r)'
  BY <1>1 DEF Sole, JobsOnce, Waiting
<1>7. FreshKnown(r)'
  BY DEF Sole, FreshKnown, JobsOnce, Waiting
<1> QED
  BY <1>2, <1>3, <1>4, <1>5, <1>6, <1>7 DEF Sole

(* Marking the row at hand takes it from the unassessed rows.              *)
LEMMA MarkedIsAssessed ==
  ASSUME skills \in Table, NEW id \in SkillIDs, id \in Unassessed(skills),
         skills' = UpdateSkillAssessment(skills, id)
  PROVE  /\ Unassessed(skills') = Unassessed(skills) \ {id}
         /\ \A other \in Visible(skills', TRUE) :
              other \in Visible(skills, TRUE) \/ other = id
<1>1. skills' = [skills EXCEPT ![id] = NewRow(skills[id].snapshot, TRUE)]
  BY DEF UpdateSkillAssessment
<1>2. /\ skills'[id].checked
      /\ \A other \in SkillIDs \ {id} : skills'[other] = skills[other]
  BY <1>1 DEF Table, NewRow
<1> QED
  BY <1>2 DEF Unassessed, Visible, Stored

LEMMA DeletedIsGone ==
  ASSUME skills \in Table, NEW id \in SkillIDs, skills' = DeleteSkill(skills, id)
  PROVE  /\ Unassessed(skills') = Unassessed(skills) \ {id}
         /\ \A other \in Visible(skills', TRUE) : other \in Visible(skills, TRUE)
<1>1. /\ skills'[id] = Absent
      /\ \A other \in SkillIDs \ {id} : skills'[other] = skills[other]
  BY DEF Table, DeleteSkill
<1> QED
  BY <1>1 DEF Unassessed, Visible, Stored

(* A verdict that does not pass, and one that does.                        *)
LEMMA RejectedByVerdict ==
  ASSUME TypeOK, NEW r \in Replicas, NEW id, NEW document, NEW v \in Verdicts,
         Assessed(r, id, document, v)
  PROVE  IF Passing(v) THEN rejected'[r] = rejected[r] \ {id}
                       ELSE rejected'[r] = rejected[r] \cup {id}
<1>1. v.score \in Int /\ v.quality \in Int
  <2>1. v.score \in Scores /\ v.quality \in Scores
    BY DEF Verdicts
  <2>2. \A x \in Scores : x \in Int
    BY ScoresAssumption, SMT
  <2> QED
    BY <2>1, <2>2
<1>2. Passing(v) <=> v.status = "pass" /\ v.score >= 5 /\ v.quality >= 5
  BY <1>1 DEF Passing
<1> QED
  BY <1>2 DEF Assessed, TypeOK

LEMMA ReconcileSole ==
  ASSUME TypeOK, GateInv, NEW r \in Replicas, Sole(r), ReconcileStep(r)
  PROVE  Sole(r)'
<1> USE DEF history
<1>1. CASE CountUnassessed(r)
  <2> DEFINE total == UnassessedSkillCount(skills)
  <2>1. total = Cardinality(Unassessed(skills)) /\ total \in Nat
        /\ (total = 0 <=> Unassessed(skills) = {})
    BY UnassessedFinite DEF UnassessedSkillCount
  <2>2. /\ pc'[r] = IF total > 0 THEN "load" ELSE "snapshot"
        /\ run' = [run EXCEPT ![r].remaining = total]
        /\ pc[r] = "count" /\ UNCHANGED <<skills, ai, outcome, rejected>>
    BY <1>1 DEF CountUnassessed, Continue, Goto, TypeOK
  <2> HIDE DEF total
  <2>3. /\ run'[r].remaining = total
        /\ run'[r].pending = run[r].pending /\ run'[r].error = run[r].error
        /\ run'[r].batch = run[r].batch /\ run'[r].jobs = run[r].jobs
        /\ run'[r].seen = run[r].seen
    BY <2>2 DEF TypeOK, RunState
  <2>4. run[r].pending = {}
    BY <2>2, NoPending
  <2>5. RowsCounted(r)'
    BY <2>1, <2>2, <2>3, <2>4 DEF RowsCounted
  <2>6. AllAssessed(r)'
    BY <2>1, <2>2 DEF AllAssessed
  <2>7. EndsOnce(r)' /\ FreshKnown(r)'
    BY <2>2, <2>3 DEF Sole, EndsOnce, FreshKnown
  <2>8. RejectedGone(r)'
    BY <2>2, <2>3 DEF Sole, EndsOnce, RejectedGone, Doomed
  <2>9. JobsOnce(r)'
    BY <2>2, <2>3 DEF Sole, JobsOnce, Waiting
  <2> QED
    BY <2>5, <2>6, <2>7, <2>8, <2>9 DEF Sole
<1>2. CASE LoadUnassessed(r)
  <2> DEFINE rows == UnassessedSkills(skills, BatchSize)
  <2>1. \A p \in rows : p.id \in Unassessed(skills)
    <3>1. \A p \in rows : \E id \in Unassessed(skills) :
            p = [id |-> id, contents |-> Contents(skills[id])]
      BY DEF UnassessedSkills
    <3> HIDE DEF rows
    <3> QED
      BY <3>1
  <2>2. /\ pc[r] = "load" /\ pc'[r] = "assess"
        /\ run' = [run EXCEPT ![r].pending = rows]
        /\ UNCHANGED <<skills, ai, outcome, rejected>>
    BY <1>2 DEF LoadUnassessed, Goto, TypeOK
  <2> HIDE DEF rows
  <2>3. /\ run'[r].remaining = run[r].remaining
        /\ run'[r].pending = rows /\ run'[r].error = run[r].error
        /\ run'[r].batch = run[r].batch /\ run'[r].jobs = run[r].jobs
        /\ run'[r].seen = run[r].seen
    BY <2>2 DEF TypeOK, RunState
  <2>4. RowsCounted(r)' /\ AllAssessed(r)'
    BY <2>1, <2>2, <2>3 DEF Sole, RowsCounted, AllAssessed
  <2>5. EndsOnce(r)' /\ FreshKnown(r)'
    BY <2>2, <2>3 DEF Sole, EndsOnce, FreshKnown
  <2>6. RejectedGone(r)'
    BY <2>2, <2>3 DEF Sole, EndsOnce, RejectedGone, Doomed
  <2>7. JobsOnce(r)'
    BY <2>2, <2>3 DEF Sole, JobsOnce, Waiting
  <2> QED
    BY <2>4, <2>5, <2>6, <2>7 DEF Sole
<1>3. CASE LoadFindsNothing(r)
  <2>1. /\ run[r].remaining > 0 /\ run[r].remaining = Cardinality(Unassessed(skills))
        /\ Unassessed(skills) = {}
    BY <1>3, SomeRowIsLoaded DEF LoadFindsNothing, Sole, RowsCounted
  <2> QED
    BY <2>1, UnassessedFinite
<1>4. ASSUME NEW p \in AtHand(r), RemoveMissing(r, p) \/ RemoveRejected(r, p)
      PROVE  Sole(r)'
  <2>1. /\ pc[r] \in {"assess", "record"} /\ skills' = DeleteSkill(skills, p.id)
        /\ Processed(r, p) /\ UNCHANGED <<ai, outcome, rejected>>
    BY <1>4 DEF RemoveMissing, RemoveRejected
  <2> QED
    BY <2>1, AtHandType, DeletedIsGone, RowDone DEF TypeOK
<1>5. ASSUME NEW p \in AtHand(r), RecordAssessment(r, p) PROVE Sole(r)'
  <2>1. /\ pc[r] = "record" /\ run[r].passed /\ p.id \in Unassessed(skills)
        /\ skills' = UpdateSkillAssessment(skills, p.id)
        /\ Processed(r, p) /\ UNCHANGED <<ai, outcome, rejected>>
    BY <1>5 DEF RecordAssessment
  <2>2. p.id \notin rejected[r]
    BY <2>1 DEF Sole, RejectedGone
  <2> QED
    BY <2>1, <2>2, AtHandType, MarkedIsAssessed, RowDone DEF TypeOK
<1>6. ASSUME NEW p \in AtHand(r), AssessmentConflicts(r, p) PROVE FALSE
  BY <1>6 DEF AssessmentConflicts, Sole, RowsCounted, AtHand
<1>7. ASSUME NEW p \in AtHand(r), AssessStored(r, p) PROVE Sole(r)'
  <2>1. PICK v \in Verdicts : /\ Assessed(r, p.id, p.contents, v)
                              /\ run' = [run EXCEPT ![r].passed = Passing(v)]
    BY <1>7 DEF AssessStored
  <2>2. /\ pc[r] = "assess" /\ pc'[r] = "record"
        /\ UNCHANGED <<skills, ai, outcome>>
    BY <1>7 DEF AssessStored, Goto, TypeOK
  <2>3. /\ run'[r].remaining = run[r].remaining /\ run'[r].passed = Passing(v)
        /\ run'[r].pending = run[r].pending /\ run'[r].error = run[r].error
        /\ run'[r].batch = run[r].batch /\ run'[r].jobs = run[r].jobs
        /\ run'[r].seen = run[r].seen
    BY <2>1 DEF TypeOK, RunState
  <2>4. RowsCounted(r)' /\ AllAssessed(r)'
    BY <2>2, <2>3 DEF Sole, RowsCounted, AllAssessed
  <2>5. EndsOnce(r)' /\ FreshKnown(r)'
    BY <2>2, <2>3 DEF Sole, EndsOnce, FreshKnown
  <2>6. RejectedGone(r)'
    <3>1. p.id \notin Visible(skills, TRUE)
      BY <2>2 DEF Sole, RowsCounted, AtHand, Unassessed, Visible
    <3>2. rejected[r] \cap Visible(skills, TRUE) = {}
      BY <2>2 DEF Sole, EndsOnce, RejectedGone, Doomed
    <3>3. rejected'[r] \subseteq rejected[r] \cup {p.id}
      BY <2>1, RejectedByVerdict
    <3>4. \A q \in AtHand(r) : q.id = p.id
      <4>1. ASSUME NEW q \in AtHand(r) PROVE q.id = p.id
        <5>1. q.id \in Nat /\ p.id \in Nat
          BY AtHandType, SkillIDsAssumption
        <5>2. q.id <= p.id /\ p.id <= q.id
          BY DEF AtHand
        <5> QED
          BY <5>1, <5>2
      <4> QED
        BY <4>1
    <3>5. Passing(v) => p.id \notin rejected'[r]
      BY <2>1, RejectedByVerdict
    <3>6. AtHand(r)' = AtHand(r)
      BY <2>3 DEF AtHand
    <3> QED
      BY <2>2, <2>3, <3>1, <3>2, <3>3, <3>4, <3>5, <3>6 DEF RejectedGone
  <2>7. JobsOnce(r)'
    BY <2>2, <2>3 DEF Sole, JobsOnce, Waiting
  <2> QED
    BY <2>4, <2>5, <2>6, <2>7 DEF Sole
<1> QED
  BY <1>1, <1>2, <1>3, <1>4, <1>5, <1>6, <1>7 DEF ReconcileStep

LEMMA DiscoverySole ==
  ASSUME TypeOK, GateInv, NEW r \in Replicas, Sole(r), DiscoveryStep(r)
  PROVE  Sole(r)'
<1> USE DEF history
<1>1. CASE LoadFresh(r)
  <2>1. /\ pc[r] = "snapshot" /\ pc'[r] = "hashes"
        /\ run' = [run EXCEPT ![r].freshIDs = FreshSkillIDs(skills)]
        /\ UNCHANGED <<skills, ai, outcome, rejected>>
    BY <1>1 DEF LoadFresh, Goto, TypeOK
  <2>2. /\ run'[r].freshIDs = FreshSkillIDs(skills)
        /\ run'[r].error = run[r].error
        /\ run'[r].batch = run[r].batch /\ run'[r].jobs = run[r].jobs
        /\ run'[r].seen = run[r].seen
    BY <2>1 DEF TypeOK, RunState
  <2>3. RowsCounted(r)' /\ AllAssessed(r)'
    BY <2>1 DEF Sole, RowsCounted, AllAssessed
  <2>4. EndsOnce(r)' /\ FreshKnown(r)'
    BY <2>1, <2>2 DEF Sole, EndsOnce, FreshKnown
  <2>5. RejectedGone(r)'
    BY <2>1, <2>2 DEF Sole, EndsOnce, RejectedGone, Doomed
  <2>6. JobsOnce(r)'
    BY <2>1, <2>2 DEF Sole, JobsOnce, Waiting
  <2> QED
    BY <2>3, <2>4, <2>5, <2>6 DEF Sole
<1>2. CASE LoadHashes(r)
  <2>1. /\ pc[r] = "hashes" /\ pc'[r] = "discover"
        /\ run' = [run EXCEPT ![r].storedHashes = SkillContentHashes(skills)]
        /\ UNCHANGED <<skills, ai, outcome, rejected>>
    BY <1>2 DEF LoadHashes, Goto, TypeOK
  <2>2. /\ run'[r].freshIDs = run[r].freshIDs
        /\ run'[r].error = run[r].error
        /\ run'[r].batch = run[r].batch /\ run'[r].jobs = run[r].jobs
        /\ run'[r].seen = run[r].seen
    BY <2>1 DEF TypeOK, RunState
  <2>3. RowsCounted(r)' /\ AllAssessed(r)'
    BY <2>1 DEF Sole, RowsCounted, AllAssessed
  <2>4. EndsOnce(r)' /\ FreshKnown(r)'
    BY <2>1, <2>2 DEF Sole, EndsOnce, FreshKnown, Waiting
  <2>5. RejectedGone(r)'
    BY <2>1, <2>2 DEF Sole, EndsOnce, RejectedGone, Doomed
  <2>6. JobsOnce(r)'
    BY <2>1, <2>2 DEF Sole, JobsOnce, Waiting
  <2> QED
    BY <2>3, <2>4, <2>5, <2>6 DEF Sole
<1>3. ASSUME NEW c \in Candidates, Yield(r, c) PROVE Sole(r)'
  <2> DEFINE batch == run[r].batch \cup {c}
             seen == run[r].seen \cup {c.id}
  <2>1. /\ pc[r] = "discover" /\ c.id \notin run[r].seen
        /\ UNCHANGED <<skills, ai, rejected>>
    BY <1>3 DEF Yield
  <2>2. run[r].jobs = {}
    BY <2>1 DEF Sole, JobsOnce
  <2>3. /\ \A x, y \in batch : x.id = y.id => x = y
        /\ \A x \in batch : x.id \in seen
    BY <2>1 DEF Sole, JobsOnce, Waiting
  <2>4. \A id \in FreshSkillIDs(skills) \ run[r].freshIDs :
          id \in run[r].seen /\ \A x \in batch : x.id # id
    BY <2>1 DEF Sole, FreshKnown, Waiting
  <2>5. CASE Cardinality(batch) = BatchSize
    <3>1. Flush(r, batch, seen, FALSE)
      BY <1>3, <2>5 DEF Yield
    <3>2. run[r].seen \subseteq seen
      OBVIOUS
    <3> HIDE DEF batch, seen
    <3> QED
      BY <2>1, <2>3, <2>4, <3>1, <3>2, FlushSole
  <2>6. CASE Cardinality(batch) # BatchSize
    <3>1. /\ run' = [run EXCEPT ![r].batch = batch, ![r].seen = seen]
          /\ pc' = pc /\ outcome' = outcome
      BY <1>3, <2>6 DEF Yield
    <3> HIDE DEF batch, seen
    <3>2. /\ run'[r].batch = batch /\ run'[r].jobs = {} /\ run'[r].seen = seen
          /\ run'[r].freshIDs = run[r].freshIDs
          /\ run'[r].error = run[r].error
      BY <2>2, <3>1 DEF TypeOK, RunState
    <3>3. RowsCounted(r)' /\ AllAssessed(r)'
      BY <2>1, <3>1 DEF Sole, RowsCounted, AllAssessed
    <3>4. EndsOnce(r)'
      BY <2>1, <3>1, <3>2 DEF Sole, EndsOnce
    <3>5. RejectedGone(r)'
      BY <2>1, <3>1, <3>2 DEF Sole, EndsOnce, RejectedGone, Doomed
    <3>6. JobsOnce(r)'
      BY <2>1, <2>3, <3>1, <3>2 DEF JobsOnce, Waiting
    <3>7. FreshKnown(r)'
      BY <2>1, <2>4, <3>1, <3>2 DEF FreshKnown, Waiting, seen
    <3> QED
      BY <3>3, <3>4, <3>5, <3>6, <3>7 DEF Sole
  <2> QED
    BY <2>5, <2>6
<1>4. CASE SourceEnds(r)
  <2>1. /\ pc[r] = "discover" /\ Flush(r, run[r].batch, run[r].seen, TRUE)
        /\ UNCHANGED <<skills, ai, rejected>>
    BY <1>4 DEF SourceEnds
  <2>2. /\ \A x, y \in run[r].batch : x.id = y.id => x = y
        /\ \A x \in run[r].batch : x.id \in run[r].seen
    BY DEF Sole, JobsOnce, Waiting
  <2>3. \A id \in FreshSkillIDs(skills) \ run[r].freshIDs :
          id \in run[r].seen /\ \A x \in run[r].batch : x.id # id
    BY <2>1 DEF Sole, FreshKnown, Waiting
  <2> QED
    BY <2>1, <2>2, <2>3, FlushSole
<1>5. ASSUME NEW c \in run[r].jobs, AuditCandidate(r, c) PROVE Sole(r)'
  <2>1. PICK v \in Verdicts :
          /\ Assessed(r, c.id, c.snapshot.primary, v)
          /\ run' = [run EXCEPT ![r].job = c, ![r].passed = Passing(v)]
    BY <1>5 DEF AuditCandidate
  <2>2. /\ pc[r] = "audit" /\ pc'[r] = "write"
        /\ UNCHANGED <<skills, ai, outcome>>
    BY <1>5 DEF AuditCandidate, Goto, TypeOK
  <2>3. /\ run'[r].job = c /\ run'[r].passed = Passing(v)
        /\ run'[r].freshIDs = run[r].freshIDs /\ run'[r].error = run[r].error
        /\ run'[r].batch = run[r].batch /\ run'[r].jobs = run[r].jobs
        /\ run'[r].seen = run[r].seen
    BY <2>1 DEF TypeOK, RunState
  <2>4. RowsCounted(r)' /\ AllAssessed(r)'
    BY <2>2 DEF Sole, RowsCounted, AllAssessed
  <2>5. EndsOnce(r)' /\ FreshKnown(r)'
    BY <2>2, <2>3 DEF Sole, EndsOnce, FreshKnown, Waiting
  <2>6. RejectedGone(r)'
    <3>1. ~run[r].error => rejected[r] \cap Visible(skills, TRUE) = {}
      BY <2>2 DEF Sole, RejectedGone, Doomed
    <3>2. outcome[r].result = "none"
      BY <2>2 DEF Sole, EndsOnce
    <3>3. IF Passing(v) THEN rejected'[r] = rejected[r] \ {c.id}
                        ELSE rejected'[r] = rejected[r] \cup {c.id}
      BY <2>1, RejectedByVerdict
    <3>4. ai[r]
      BY <2>2 DEF Sole, JobsOnce
    <3> QED
      BY <2>2, <2>3, <3>1, <3>2, <3>3, <3>4 DEF RejectedGone, Doomed
  <2>7. JobsOnce(r)'
    BY <2>2, <2>3 DEF Sole, JobsOnce, Waiting
  <2> QED
    BY <2>4, <2>5, <2>6, <2>7 DEF Sole
<1>6. ASSUME NEW c \in run[r].jobs, WriteCandidate(r, c) PROVE Sole(r)'
  <2>1. /\ pc[r] = "write" /\ (ai[r] => c = run[r].job)
        /\ skills' = CandidateWritten(r, c) /\ UNCHANGED <<ai, outcome, rejected>>
        /\ pc'[r] = FirstStep(r)
    BY <1>6 DEF WriteCandidate, NextJob, Goto, TypeOK
  <2>2. /\ run'[r].jobs = run[r].jobs \ {c} /\ run'[r].batch = run[r].batch
        /\ run'[r].seen = run[r].seen /\ run'[r].freshIDs = run[r].freshIDs
        /\ run'[r].error = run[r].error
    BY <1>6 DEF WriteCandidate, NextJob, TypeOK, RunState
  <2>3. /\ FreshSkillIDs(skills') \subseteq FreshSkillIDs(skills) \cup {c.id}
        /\ ai[r] => Unassessed(skills') \subseteq Unassessed(skills)
    BY <2>1, WrittenRows
  <2>4. run[r].error \/ rejected[r] \cap Visible(skills', TRUE) = {}
    <3>1. ~run[r].error => rejected[r] \cap Visible(skills, TRUE) \subseteq Doomed(r)
      BY <2>1 DEF Sole, RejectedGone
    <3>2. ai[r] /\ run[r].passed => c.id \notin rejected[r]
      BY <2>1 DEF Sole, RejectedGone
    <3>3. ai[r] /\ ~run[r].passed => c.id \notin Visible(skills', TRUE)
      BY <2>1, WrittenRows
    <3>4. \A id \in Visible(skills', TRUE) :
            \/ id \in Visible(skills, TRUE)
            \/ id = c.id /\ ai[r] /\ run[r].passed
      BY <2>1, WrittenRows
    <3> QED
      BY <2>1, <3>1, <3>2, <3>3, <3>4 DEF Doomed
  <2> QED
    BY <2>1, <2>2, <2>3, <2>4, JobDone
<1>7. CASE FinishBatch(r)
  <2>1. pc[r] \in {"audit", "write"} /\ UNCHANGED <<skills, ai, rejected>>
    BY <1>7 DEF FinishBatch
  <2>2. CASE run[r].error /\ EndRun(r, run[r].cause, run[r].skill)
    <3>1. run[r].cause \in {"none", "dependency", "timeout", "bad_response"}
      BY DEF TypeOK, RunState
    <3> QED
      BY <2>2, <3>1, RunEnded
  <2>3. CASE ~run[r].error /\ run[r].jobs = {} /\ EndRun(r, "ok", Absent)
    <3>1. rejected[r] \cap Visible(skills, TRUE) = {}
      BY <2>1, <2>3 DEF Sole, RejectedGone, Doomed, JobsOnce
    <3> QED
      BY <2>1, <2>3, <3>1, RunEnded
  <2>4. CASE /\ ~run[r].error /\ run[r].jobs = {}
             /\ Goto(r, "discover") /\ UNCHANGED <<run, outcome>>
    <3>1. pc'[r] = "discover" /\ run' = run /\ outcome' = outcome
      BY <2>4 DEF Goto, TypeOK
    <3>2. RowsCounted(r)' /\ AllAssessed(r)'
      BY <2>1, <3>1 DEF Sole, RowsCounted, AllAssessed
    <3>3. EndsOnce(r)' /\ FreshKnown(r)'
      BY <2>1, <2>4, <3>1 DEF Sole, EndsOnce, FreshKnown, Waiting
    <3>4. RejectedGone(r)'
      BY <2>1, <2>4, <3>1 DEF Sole, EndsOnce, RejectedGone, Doomed, JobsOnce
    <3>5. JobsOnce(r)'
      BY <2>1, <2>4, <3>1 DEF Sole, JobsOnce, Waiting
    <3> QED
      BY <3>2, <3>3, <3>4, <3>5 DEF Sole
  <2> QED
    BY <1>7, <2>2, <2>3, <2>4 DEF FinishBatch
<1> QED
  BY <1>1, <1>2, <1>3, <1>4, <1>5, <1>6, <1>7 DEF DiscoveryStep

LEMMA FaultSole ==
  ASSUME TypeOK, NEW r \in Replicas, Sole(r), FaultStep(r)
  PROVE  Sole(r)'
<1> USE DEF history
<1>1. CASE Crash(r)
  <2>1. pc'[r] = "down" /\ run'[r] = NoRun /\ outcome'[r].result = "none"
    BY <1>1 DEF Crash, TypeOK, Outcomes
  <2>2. /\ run'[r].batch = {} /\ run'[r].jobs = {} /\ run'[r].seen = {}
        /\ run'[r].error = FALSE
    BY <2>1 DEF NoRun
  <2>3. RowsCounted(r)' /\ AllAssessed(r)' /\ EndsOnce(r)' /\ FreshKnown(r)'
    BY <2>1, <2>2 DEF RowsCounted, AllAssessed, EndsOnce, FreshKnown
  <2>4. RejectedGone(r)' /\ JobsOnce(r)'
    BY <2>1, <2>2 DEF RejectedGone, JobsOnce, Waiting
  <2> QED
    BY <2>3, <2>4 DEF Sole
<1>2. CASE ReadFails(r)
  BY <1>2, RunEnded DEF ReadFails
<1>3. ASSUME NEW p \in AtHand(r), AssessStoredFails(r, p) PROVE Sole(r)'
  <2>1. PICK cause \in {"timeout", "bad_response"} : EndRun(r, cause, p.id)
    BY <1>3 DEF AssessStoredFails
  <2> QED
    BY <2>1, RunEnded
<1>4. ASSUME NEW p \in AtHand(r), ReconcileWriteFails(r, p) PROVE Sole(r)'
  BY <1>4, RunEnded DEF ReconcileWriteFails
<1>5. ASSUME NEW c \in run[r].jobs, NEW cause, FailJob(r, c, cause)
      PROVE  /\ run'[r].jobs = run[r].jobs \ {c} /\ run'[r].batch = run[r].batch
             /\ run'[r].seen = run[r].seen /\ run'[r].freshIDs = run[r].freshIDs
             /\ run'[r].error
             /\ pc'[r] = FirstStep(r)
  BY <1>5 DEF FailJob, Goto, TypeOK, RunState
<1>6. ASSUME NEW c \in run[r].jobs, AuditCandidateFails(r, c) PROVE Sole(r)'
  <2>1. PICK cause : FailJob(r, c, cause)
    BY <1>6 DEF AuditCandidateFails
  <2>2. pc[r] = "audit" /\ UNCHANGED <<skills, ai, outcome, rejected>>
    BY <1>6 DEF AuditCandidateFails
  <2>3. /\ FreshSkillIDs(skills') \subseteq FreshSkillIDs(skills) \cup {c.id}
        /\ ai[r] => Unassessed(skills') \subseteq Unassessed(skills)
    BY <2>2
  <2> QED
    BY <1>5, <2>1, <2>2, <2>3, JobDone
<1>7. ASSUME NEW c \in run[r].jobs, WriteCandidateFails(r, c) PROVE Sole(r)'
  <2>1. /\ pc[r] = "write" /\ UNCHANGED <<ai, outcome, rejected>>
        /\ skills' = skills \/ skills' = CandidateWritten(r, c)
        /\ FailJob(r, c, "dependency")
    BY <1>7 DEF WriteCandidateFails
  <2>2. /\ FreshSkillIDs(skills') \subseteq FreshSkillIDs(skills) \cup {c.id}
        /\ ai[r] => Unassessed(skills') \subseteq Unassessed(skills)
    BY <2>1, WrittenRows
  <2> QED
    BY <1>5, <2>1, <2>2, JobDone
<1> QED
  BY <1>1, <1>2, <1>3, <1>4, <1>6, <1>7 DEF FaultStep

(* The steps between runs, and the clock.                                  *)
LEMMA LifeCycleSole ==
  ASSUME TypeOK, NEW r \in Replicas, Sole(r),
         \/ Boot(r) \/ StartRun(r) \/ (\E id \in SkillIDs : Age(id)) \/ UNCHANGED vars
  PROVE  Sole(r)'
<1> USE DEF history
<1>1. CASE Boot(r)
  <2>1. /\ pc[r] = "down" /\ pc'[r] = "idle" /\ UNCHANGED <<run, outcome, rejected>>
    BY <1>1 DEF Boot, Up, TypeOK
  <2>2. RowsCounted(r)' /\ AllAssessed(r)' /\ EndsOnce(r)' /\ FreshKnown(r)'
    BY <2>1 DEF Sole, RowsCounted, AllAssessed, EndsOnce, FreshKnown
  <2>3. RejectedGone(r)'
    BY <2>1 DEF Sole, EndsOnce, RejectedGone
  <2>4. JobsOnce(r)'
    BY <2>1 DEF Sole, JobsOnce, Waiting
  <2> QED
    BY <2>2, <2>3, <2>4 DEF Sole
<1>2. CASE StartRun(r)
  <2>1. /\ pc[r] = "idle" /\ pc'[r] \in {"count", "snapshot"}
        /\ pc'[r] = "snapshot" => ~ai[r]
        /\ outcome'[r].result = "none" /\ rejected'[r] = {}
        /\ UNCHANGED <<skills, ai, run>>
    BY <1>2 DEF StartRun, NewHistory, Goto, TypeOK, Outcomes
  <2>2. RowsCounted(r)' /\ AllAssessed(r)' /\ EndsOnce(r)' /\ FreshKnown(r)'
    BY <2>1 DEF Sole, RowsCounted, AllAssessed, EndsOnce, FreshKnown
  <2>3. RejectedGone(r)'
    BY <2>1 DEF RejectedGone
  <2>4. JobsOnce(r)'
    BY <2>1 DEF Sole, JobsOnce, Waiting
  <2> QED
    BY <2>2, <2>3, <2>4 DEF Sole
<1>3. ASSUME UNCHANGED <<ai, pc, run, outcome, rejected>>,
             Unassessed(skills') = Unassessed(skills),
             Visible(skills', TRUE) = Visible(skills, TRUE),
             FreshSkillIDs(skills') \subseteq FreshSkillIDs(skills)
      PROVE  Sole(r)'
  <2>1. RowsCounted(r)' /\ AllAssessed(r)' /\ EndsOnce(r)'
    BY <1>3 DEF Sole, RowsCounted, AllAssessed, EndsOnce
  <2>2. RejectedGone(r)'
    BY <1>3 DEF Sole, RejectedGone, Doomed, AtHand
  <2>3. JobsOnce(r)' /\ FreshKnown(r)'
    BY <1>3 DEF Sole, JobsOnce, FreshKnown, Waiting
  <2> QED
    BY <2>1, <2>2, <2>3 DEF Sole
<1>4. ASSUME NEW id \in SkillIDs, Age(id) PROVE Sole(r)'
  <2>1. skills[id] \in Row /\ skills[id] # Absent
    BY <1>4 DEF Age, FreshSkillIDs, Stored, TypeOK, Table
  <2>2. /\ skills'[id] \in Row /\ skills'[id].checked = skills[id].checked
        /\ skills'[id].fresh = FALSE
        /\ \A other \in SkillIDs \ {id} : skills'[other] = skills[other]
    BY <1>4, <2>1 DEF Age, TypeOK, Table, Row
  <2>3. skills'[id] # Absent
    BY <2>2, AbsentAssumption, Zenon
  <2>4. /\ Unassessed(skills') = Unassessed(skills)
        /\ Visible(skills', TRUE) = Visible(skills, TRUE)
        /\ FreshSkillIDs(skills') \subseteq FreshSkillIDs(skills)
    BY <2>1, <2>2, <2>3 DEF Unassessed, Visible, FreshSkillIDs, Stored
  <2> QED
    BY <1>3, <1>4, <2>4 DEF Age
<1>5. CASE UNCHANGED vars
  BY <1>3, <1>5 DEF vars
<1> QED
  BY <1>1, <1>2, <1>4, <1>5

LEMMA SoleStep ==
  ASSUME OneReplica, TypeOK, GateInv, SoleInv, [Next]_vars
  PROVE  SoleInv'
<1> SUFFICES ASSUME NEW r \in Replicas PROVE Sole(r)'
  BY DEF SoleInv
<1>1. \A q \in Replicas : q = r
  BY DEF OneReplica
<1>2. Sole(r)
  BY DEF SoleInv
<1>3. \/ Boot(r) \/ StartRun(r) \/ RunStep(r) \/ FaultStep(r)
      \/ (\E id \in SkillIDs : Age(id)) \/ UNCHANGED vars
  BY <1>1 DEF Next
<1> QED
  BY <1>2, <1>3, ReconcileSole, DiscoverySole, FaultSole, LifeCycleSole DEF RunStep

LEMMA SoleInit == Init => SoleInv
<1> SUFFICES ASSUME Init, NEW r \in Replicas PROVE Sole(r)
  BY DEF SoleInv
<1>1. pc[r] = "down" /\ run[r] = NoRun /\ outcome[r].result = "none"
  BY DEF Init
<1>2. /\ run[r].batch = {} /\ run[r].jobs = {} /\ run[r].seen = {}
      /\ run[r].error = FALSE
  BY <1>1 DEF NoRun
<1>3. RowsCounted(r) /\ AllAssessed(r) /\ EndsOnce(r) /\ FreshKnown(r)
  BY <1>1, <1>2 DEF RowsCounted, AllAssessed, EndsOnce, FreshKnown
<1>4. RejectedGone(r) /\ JobsOnce(r)
  BY <1>1, <1>2 DEF RejectedGone, JobsOnce, Waiting
<1> QED
  BY <1>3, <1>4 DEF Sole

(* The inductive invariant of a process that is alone on its database.     *)
THEOREM SoleInvariant ==
  ASSUME OneReplica
  PROVE  Spec => [](TypeOK /\ GateInv /\ SoleInv)
<1>1. SettingsShared
  BY DEF OneReplica, SettingsShared
<1>2. TypeOK /\ GateInv /\ SoleInv /\ [Next]_vars => (TypeOK /\ GateInv /\ SoleInv)'
  BY <1>1, TypeStep, GateStep, SoleStep
<1> QED
  BY <1>2, GateInit, SoleInit, PTL DEF Spec

(* Reconcile, indexer.go:259: when a process with an auditor goes on to    *)
(* discovery, no row is left that nobody has assessed, and none appears.   *)
THEOREM ReconcileIsComplete ==
  ASSUME OneReplica
  PROVE  Spec => []DiscoveryFindsNoUnassessed
<1>1. SoleInv => DiscoveryFindsNoUnassessed
  BY DEF SoleInv, Sole, AllAssessed, DiscoveryFindsNoUnassessed
<1> QED
  BY <1>1, SoleInvariant, PTL

(* The batch of rows is never empty while rows are counted, and the row    *)
(* that was assessed is still there to be marked: no run of a process that *)
(* is alone ends in a conflict.                                            *)
THEOREM HealthyRuns ==
  ASSUME OneReplica
  PROVE  Spec => []HealthyRunsSucceed
<1>1. SoleInv => HealthyRunsSucceed
  BY DEF SoleInv, Sole, EndsOnce, HealthyRunsSucceed
<1> QED
  BY <1>1, SoleInvariant, PTL

(* A run that ends well has withdrawn every skill whose latest assessment  *)
(* in that run did not pass.                                               *)
THEOREM RejectedAreWithdrawn ==
  ASSUME OneReplica
  PROVE  Spec => []RejectedIsWithdrawn
<1>1. ASSUME SoleInv, NEW r \in Replicas, outcome[r].result = "ok"
      PROVE  rejected[r] \cap Visible(skills, TRUE) = {}
  BY <1>1 DEF SoleInv, Sole, EndsOnce, RejectedGone, Doomed
<1>2. SoleInv => RejectedIsWithdrawn
  BY <1>1 DEF RejectedIsWithdrawn
<1> QED
  BY <1>2, SoleInvariant, PTL

(* README.md:8, for any table and any order of candidates: discovery does  *)
(* not write a row that is fresh at that instant, its own writes included. *)
THEOREM FreshRowsAreKept ==
  ASSUME OneReplica
  PROVE  Spec => FreshRowsUntouched
<1> DEFINE Kept == \A r \in Replicas : pc[r] \in Discovering /\ run'[r] # run[r] =>
                     \A id \in FreshSkillIDs(skills) :
                       skills'[id] \in {skills[id], [skills[id] EXCEPT !.fresh = FALSE]}
<1>1. ASSUME TypeOK, SoleInv, [Next]_vars PROVE Kept
  <2> SUFFICES ASSUME NEW r \in Replicas, pc[r] \in Discovering, run'[r] # run[r],
                      NEW id \in FreshSkillIDs(skills)
               PROVE  skills'[id] = skills[id]
    OBVIOUS
  <2>1. Sole(r) /\ \A q \in Replicas : q = r
    BY <1>1 DEF SoleInv, OneReplica
  <2>2. ASSUME NEW c \in run[r].jobs, pc[r] = "write",
               skills' \in {skills, CandidateWritten(r, c)}
        PROVE  skills'[id] = skills[id]
    <3>1. id # c.id
      BY <2>1, <2>2 DEF Sole, JobsOnce, FreshKnown, Waiting
    <3>2. id \in SkillIDs
      BY DEF FreshSkillIDs, Stored
    <3> QED
      BY <1>1, <2>2, <3>1, <3>2, WrittenRows
  <2>3. ~Boot(r) /\ ~ReconcileStep(r)
    BY DEF Boot, Up, ReconcileStep, CountUnassessed, LoadUnassessed, LoadFindsNothing,
       RemoveMissing, AssessStored, RemoveRejected, RecordAssessment, AssessmentConflicts
  <2>4. ASSUME StartRun(r) \/ Crash(r) \/ ReadFails(r) PROVE skills' = skills
    BY <2>4 DEF StartRun, Crash, ReadFails
  <2>5. ASSUME DiscoveryStep(r) PROVE skills'[id] = skills[id]
    BY <2>2, <2>5 DEF DiscoveryStep, LoadFresh, LoadHashes, Yield, SourceEnds,
       AuditCandidate, WriteCandidate, FinishBatch
  <2>6. ASSUME FaultStep(r) PROVE skills'[id] = skills[id]
    BY <2>2, <2>4, <2>6 DEF FaultStep, AssessStoredFails, ReconcileWriteFails,
       AuditCandidateFails, WriteCandidateFails
  <2>7. ASSUME (\E x \in SkillIDs : Age(x)) \/ UNCHANGED vars PROVE FALSE
    BY <2>7 DEF Age, vars
  <2> QED
    BY <1>1, <2>1, <2>3, <2>4, <2>5, <2>6, <2>7 DEF Next, RunStep
<1>2. TypeOK /\ SoleInv /\ [Next]_vars => [Kept]_vars
  BY <1>1
<1> QED
  BY <1>2, SoleInvariant, PTL DEF Spec, FreshRowsUntouched
=============================================================================

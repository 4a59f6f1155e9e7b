------------------------------ MODULE Indexer ------------------------------
(***************************************************************************)
(* The indexing runs of internal/indexer, driven by internal/scheduler,    *)
(* over the shared table of internal/store.  A run first assesses every    *)
(* stored row nobody has assessed (Reconcile) and then consumes the stream *)
(* of discovered candidates in batches.  Each replica is one process with  *)
(* at most one run; every statement on the table and every answer of the   *)
(* assessment service is a step, so replicas interleave between any two.   *)
(*                                                                         *)
(* Batches are processed one candidate at a time, as cmd/server configures *)
(* them (WithConcurrency(1)); the worker pool is module IndexBatch.        *)
(***************************************************************************)
EXTENDS SkillStore, Integers

CONSTANTS
  Replicas,      \* processes sharing the database
  Candidates,    \* what discovery may yield
  Unstorable,    \* snapshots the database refuses (ErrInvalidSkillContents)
  BatchSize,     \* indexBatchSize
  Scores,        \* scores an assessment may give
  Modes,         \* which AI settings a process may be started with
  RollingConfig, \* may replicas with different AI settings overlap?
  MaxFaults      \* bound: crashes, failed statements, requests and fetches

CandidateType ==
  [id : SkillIDs, snapshot : Snapshots, stars : Nat, fresh : BOOLEAN]

ASSUME CandidatesAssumption ==
  /\ Candidates \subseteq CandidateType
  /\ \A c \in Candidates : c.snapshot.primary # NoSkillFile
ASSUME BatchSizeAssumption == BatchSize \in Nat \ {0}
ASSUME ModesAssumption == Modes \subseteq BOOLEAN /\ RollingConfig \in BOOLEAN
ASSUME ScoresAssumption == Scores \subseteq 0..10
ASSUME MaxFaultsAssumption == MaxFaults \in Nat

VARIABLES
  skills,    \* the table
  ai,        \* ai[r]: replica r has an auditor
  pc,        \* pc[r]: what replica r does next
  run,       \* run[r]: the local state of its current run
  outcome,   \* outcome[r]: how its last run ended, and for which skill
  faults,    \* faults so far
  approved,  \* history: documents some assessment passed
  rejected   \* rejected[r]: history, skills its run assessed and did not pass

vars == <<skills, ai, pc, run, outcome, faults, approved, rejected>>
history == <<approved, rejected>>

Verdicts == [status : {"pass", "warn", "fail"}, score : Scores, quality : Scores]

(* Mutant: the quality score is not looked at.                             *)
PassingIgnoringQuality(v) == ~(v.status # "pass" \/ v.score < 5)

(* The condition for keeping a skill, in Reconcile and in indexCandidate.  *)
Passing(v) == ~(v.status # "pass" \/ v.score < 5 \/ v.quality < 5)

Pending == [id : SkillIDs, contents : Documents]

RunState ==
  [remaining    : Int,                           \* total - processed
   pending      : SUBSET Pending,                \* rest of the batch of rows
   freshIDs     : SUBSET SkillIDs,
   storedHashes : [SkillIDs -> Snapshots \cup {Absent}],
   seen         : SUBSET SkillIDs,               \* ids the source yielded
   batch        : SUBSET Candidates,             \* not yet flushed
   jobs         : SUBSET Candidates,             \* rest of the flushed batch
   job          : Candidates \cup {Absent},      \* audited, not yet written
   drained      : BOOLEAN,                       \* the source has ended
   passed       : BOOLEAN,                       \* verdict not yet acted upon
   error        : BOOLEAN,                       \* a job of the batch failed
   cause        : {"none", "dependency", "timeout", "bad_response"},
   skill        : SkillIDs \cup {Absent}]        \* the job that failed

NoRun ==
  [remaining |-> 0, pending |-> {}, freshIDs |-> {},
   storedHashes |-> [id \in SkillIDs |-> Absent], seen |-> {},
   batch |-> {}, jobs |-> {}, job |-> Absent, drained |-> FALSE,
   passed |-> FALSE, error |-> FALSE, cause |-> "none", skill |-> Absent]

Outcomes ==
  [result : {"none", "ok", "dependency", "timeout", "bad_response", "conflict"},
   skill  : SkillIDs \cup {Absent}]

Reconciling == {"count", "load", "assess", "record"}
Discovering == {"snapshot", "hashes", "discover", "audit", "write"}

TypeOK ==
  /\ skills \in Table
  /\ ai \in [Replicas -> BOOLEAN]
  /\ pc \in [Replicas -> {"down", "idle"} \cup Reconciling \cup Discovering]
  /\ run \in [Replicas -> RunState]
  /\ outcome \in [Replicas -> Outcomes]
  /\ faults \in 0..MaxFaults
  /\ approved \subseteq Documents
  /\ rejected \in [Replicas -> SUBSET SkillIDs]

(* A database of any earlier version: nothing in it was ever assessed.     *)
Init ==
  /\ skills \in {t \in Table : Unassessed(t) = Stored(t)}
  /\ ai = [r \in Replicas |-> FALSE]
  /\ pc = [r \in Replicas |-> "down"]
  /\ run = [r \in Replicas |-> NoRun]
  /\ outcome = [r \in Replicas |-> [result |-> "none", skill |-> Absent]]
  /\ faults = 0
  /\ approved = {}
  /\ rejected = [r \in Replicas |-> {}]

-----------------------------------------------------------------------------
(* Processes, the clock and faults.                                        *)

Up(r) == pc[r] # "down"

(* The migration runs before anything else; AI settings are read once.     *)
Boot(r) ==
  /\ ~Up(r)
  /\ \E mode \in Modes :
       /\ RollingConfig \/ \A other \in Replicas : Up(other) => ai[other] = mode
       /\ ai' = [ai EXCEPT ![r] = mode]
  /\ skills' = Migrate(skills)
  /\ pc' = [pc EXCEPT ![r] = "idle"]
  /\ UNCHANGED <<run, outcome, faults, history>>

Fault == faults < MaxFaults /\ faults' = faults + 1

NewHistory(r) == rejected' = [rejected EXCEPT ![r] = {}] /\ UNCHANGED approved

(* A crash, and a termination signal: a cancelled run writes nothing more. *)
Crash(r) ==
  /\ Up(r)
  /\ Fault
  /\ NewHistory(r)
  /\ pc' = [pc EXCEPT ![r] = "down"]
  /\ run' = [run EXCEPT ![r] = NoRun]
  /\ outcome' = [outcome EXCEPT ![r] = [result |-> "none", skill |-> Absent]]
  /\ ai' = [ai EXCEPT ![r] = FALSE]
  /\ UNCHANGED skills

(* updated_at of a row passes the cutoff, as seen by the next query.       *)
Age(id) ==
  /\ id \in FreshSkillIDs(skills)
  /\ skills' = [skills EXCEPT ![id].fresh = FALSE]
  /\ UNCHANGED <<ai, pc, run, outcome, faults, history>>

Goto(r, label) == pc' = [pc EXCEPT ![r] = label]

EndRun(r, result, skill) ==
  /\ Goto(r, "idle")
  /\ run' = [run EXCEPT ![r] = NoRun]
  /\ outcome' = [outcome EXCEPT ![r] = [result |-> result, skill |-> skill]]

(* Mutant: a run goes straight to discovery.                               *)
StartRunWithoutReconcile(r) ==
  /\ pc[r] = "idle"
  /\ Goto(r, "snapshot")
  /\ outcome' = [outcome EXCEPT ![r] = [result |-> "none", skill |-> Absent]]
  /\ NewHistory(r)
  /\ UNCHANGED <<skills, ai, run, faults>>

(* The scheduler's ticker, or INDEX_ON_START.  Reconcile is skipped when   *)
(* there is no auditor.                                                    *)
StartRun(r) ==
  /\ pc[r] = "idle"
  /\ Goto(r, IF ai[r] THEN "count" ELSE "snapshot")
  /\ outcome' = [outcome EXCEPT ![r] = [result |-> "none", skill |-> Absent]]
  /\ NewHistory(r)
  /\ UNCHANGED <<skills, ai, run, faults>>

(* Any statement that only reads, and discovery itself, may fail.          *)
ReadFails(r) ==
  /\ pc[r] \in {"count", "load", "snapshot", "hashes", "discover"}
  /\ Fault
  /\ EndRun(r, "dependency", Absent)
  /\ UNCHANGED <<skills, ai, history>>

-----------------------------------------------------------------------------
(* Reconcile.                                                              *)

(* Mutant: the last row is not loaded.                                     *)
ContinueOffByOne(r, remaining, pending) ==
  Goto(r, IF pending # {} THEN "assess"
          ELSE IF remaining > 1 THEN "load" ELSE "snapshot")

Continue(r, remaining, pending) ==
  Goto(r, IF pending # {} THEN "assess"
          ELSE IF remaining > 0 THEN "load" ELSE "snapshot")

CountUnassessed(r) ==
  /\ pc[r] = "count"
  /\ LET total == UnassessedSkillCount(skills)
     IN  /\ run' = [run EXCEPT ![r].remaining = total]
         /\ Continue(r, total, {})
  /\ UNCHANGED <<skills, ai, outcome, faults, history>>

LoadUnassessed(r) ==
  /\ pc[r] = "load"
  /\ UnassessedSkills(skills, BatchSize) # {}
  /\ run' = [run EXCEPT ![r].pending = UnassessedSkills(skills, BatchSize)]
  /\ Goto(r, "assess")
  /\ UNCHANGED <<skills, ai, outcome, faults, history>>

(* Mutant: an empty batch is retried.                                      *)
LoadFindsNothingAndRetries(r) ==
  /\ pc[r] = "load"
  /\ UnassessedSkills(skills, BatchSize) = {}
  /\ UNCHANGED vars

(* "unchecked skill count reported %d but batch was empty"                 *)
LoadFindsNothing(r) ==
  /\ pc[r] = "load"
  /\ UnassessedSkills(skills, BatchSize) = {}
  /\ EndRun(r, "conflict", Absent)
  /\ UNCHANGED <<skills, ai, faults, history>>

(* The row at hand: the batch is read in the order of ids.                 *)
AtHand(r) == {p \in run[r].pending : \A q \in run[r].pending : p.id <= q.id}

(* Mutant: the row is not counted.                                         *)
ProcessedNotCounted(r, p) ==
  LET pending == run[r].pending \ {p}
  IN  /\ run' = [run EXCEPT ![r].pending = pending, ![r].passed = FALSE]
      /\ Continue(r, run[r].remaining, pending)

(* Mutant: the loop does not advance.                                      *)
ProcessedStaysAtRow(r, p) ==
  /\ run' = [run EXCEPT ![r].passed = FALSE]
  /\ Continue(r, run[r].remaining, run[r].pending)

(* One row of the batch is done: processed++ and on to the next one.       *)
Processed(r, p) ==
  LET pending == run[r].pending \ {p}
      remaining == run[r].remaining - 1
  IN  /\ run' = [run EXCEPT ![r].pending = pending,
                            ![r].remaining = remaining,
                            ![r].passed = FALSE]
      /\ Continue(r, remaining, pending)

RemoveMissing(r, p) ==
  /\ pc[r] = "assess"
  /\ p.contents = EmptyDocument
  /\ skills' = DeleteSkill(skills, p.id)
  /\ Processed(r, p)
  /\ UNCHANGED <<ai, outcome, faults, history>>

(* What an answer of the assessment service adds to the history.           *)
Assessed(r, id, document, v) ==
  IF v.status = "pass" /\ v.score >= 5 /\ v.quality >= 5
  THEN /\ approved' = approved \cup {document}
       /\ rejected' = [rejected EXCEPT ![r] = @ \ {id}]
  ELSE /\ rejected' = [rejected EXCEPT ![r] = @ \cup {id}]
       /\ UNCHANGED approved

AssessStored(r, p) ==
  /\ pc[r] = "assess"
  /\ p.contents # EmptyDocument
  /\ \E v \in Verdicts :
       /\ Assessed(r, p.id, p.contents, v)
       /\ run' = [run EXCEPT ![r].passed = Passing(v)]
  /\ Goto(r, "record")
  /\ UNCHANGED <<skills, ai, outcome, faults>>

(* The request times out or its answer is unusable: the run is over.       *)
AssessStoredFails(r, p) ==
  /\ pc[r] = "assess"
  /\ p.contents # EmptyDocument
  /\ Fault
  /\ \E cause \in {"timeout", "bad_response"} : EndRun(r, cause, p.id)
  /\ UNCHANGED <<skills, ai, history>>

RemoveRejected(r, p) ==
  /\ pc[r] = "record"
  /\ ~run[r].passed
  /\ skills' = DeleteSkill(skills, p.id)
  /\ Processed(r, p)
  /\ UNCHANGED <<ai, outcome, faults, history>>

RecordAssessment(r, p) ==
  /\ pc[r] = "record"
  /\ run[r].passed
  /\ p.id \in Unassessed(skills)
  /\ skills' = UpdateSkillAssessment(skills, p.id)
  /\ Processed(r, p)
  /\ UNCHANGED <<ai, outcome, faults, history>>

(* No row matched: ErrNotFound ends the run.                               *)
AssessmentConflicts(r, p) ==
  /\ pc[r] = "record"
  /\ run[r].passed
  /\ p.id \notin Unassessed(skills)
  /\ EndRun(r, "conflict", p.id)
  /\ UNCHANGED <<skills, ai, faults, history>>

(* A failed statement may have been applied before its answer was lost.    *)
ReconcileWriteFails(r, p) ==
  /\ \/ pc[r] = "record"
     \/ pc[r] = "assess" /\ p.contents = EmptyDocument
  /\ Fault
  /\ skills' \in {skills, IF run[r].passed THEN UpdateSkillAssessment(skills, p.id)
                                            ELSE DeleteSkill(skills, p.id)}
  /\ EndRun(r, "dependency", p.id)
  /\ UNCHANGED <<ai, history>>

-----------------------------------------------------------------------------
(* Discovery.                                                              *)

LoadFresh(r) ==
  /\ pc[r] = "snapshot"
  /\ run' = [run EXCEPT ![r].freshIDs = FreshSkillIDs(skills)]
  /\ Goto(r, "hashes")
  /\ UNCHANGED <<skills, ai, outcome, faults, history>>

LoadHashes(r) ==
  /\ pc[r] = "hashes"
  /\ run' = [run EXCEPT ![r].storedHashes = SkillContentHashes(skills)]
  /\ Goto(r, "discover")
  /\ UNCHANGED <<skills, ai, outcome, faults, history>>

(* Mutant: only the freshness discovery reported counts.                   *)
EligibleThoughFresh(r, c) ==
  /\ ~c.fresh
  /\ c.stars > 10
  /\ run[r].storedHashes[c.id] # c.snapshot

(* The candidates of a batch that are assessed or stored at all; decided   *)
(* from what the run read at its start, never from the table.              *)
Eligible(r, c) ==
  /\ ~c.fresh
  /\ c.id \notin run[r].freshIDs
  /\ c.stars > 10
  /\ run[r].storedHashes[c.id] # c.snapshot

FirstStep(r) == IF ai[r] THEN "audit" ELSE "write"

(* flush: filter the batch, then start its jobs or go on.  The order of    *)
(* the candidates inside a batch is left open.                             *)
Flush(r, batch, seen, drained) ==
  LET jobs == {c \in batch : Eligible(r, c)}
  IN  IF jobs = {} /\ drained
      THEN EndRun(r, "ok", Absent)
      ELSE /\ run' = [run EXCEPT ![r].batch = {}, ![r].jobs = jobs,
                                 ![r].seen = seen, ![r].drained = drained]
           /\ Goto(r, IF jobs = {} THEN "discover" ELSE FirstStep(r))
           /\ UNCHANGED outcome

(* The source yields each id at most once per run.                         *)
Yield(r, c) ==
  /\ pc[r] = "discover"
  /\ c.id \notin run[r].seen
  /\ LET batch == run[r].batch \cup {c}
         seen == run[r].seen \cup {c.id}
     IN  IF Cardinality(batch) = BatchSize
         THEN Flush(r, batch, seen, FALSE)
         ELSE /\ run' = [run EXCEPT ![r].batch = batch, ![r].seen = seen]
              /\ UNCHANGED <<pc, outcome>>
  /\ UNCHANGED <<skills, ai, faults, history>>

SourceEnds(r) ==
  /\ pc[r] = "discover"
  /\ Flush(r, run[r].batch, run[r].seen, TRUE)
  /\ UNCHANGED <<skills, ai, faults, history>>

(* Job c is done; the worker takes the next one.                           *)
NextJob(r, c) ==
  /\ run' = [run EXCEPT ![r].jobs = @ \ {c}, ![r].job = Absent, ![r].passed = FALSE]
  /\ Goto(r, FirstStep(r))

(* Mutant: the error carries the wrong field of the candidate.             *)
FailJobNamingStars(r, c, cause) ==
  /\ run' = [run EXCEPT
               ![r].jobs = @ \ {c}, ![r].job = Absent, ![r].passed = FALSE,
               ![r].error = TRUE,
               ![r].cause = IF run[r].error THEN @ ELSE cause,
               ![r].skill = IF run[r].error THEN @ ELSE c.stars]
  /\ Goto(r, FirstStep(r))

(* The first error of a batch is the one the run ends with.  The worker    *)
(* may take further jobs until the consumer has cancelled it.              *)
FailJob(r, c, cause) ==
  /\ run' = [run EXCEPT
               ![r].jobs = @ \ {c}, ![r].job = Absent, ![r].passed = FALSE,
               ![r].error = TRUE,
               ![r].cause = IF run[r].error THEN @ ELSE cause,
               ![r].skill = IF run[r].error THEN @ ELSE c.id]
  /\ Goto(r, FirstStep(r))

AuditCandidate(r, c) ==
  /\ pc[r] = "audit"
  /\ \E v \in Verdicts :
       /\ Assessed(r, c.id, c.snapshot.primary, v)
       /\ run' = [run EXCEPT ![r].job = c, ![r].passed = Passing(v)]
  /\ Goto(r, "write")
  /\ UNCHANGED <<skills, ai, outcome, faults>>

AuditCandidateFails(r, c) ==
  /\ pc[r] = "audit"
  /\ Fault
  /\ \E cause \in {"timeout", "bad_response"} : FailJob(r, c, cause)
  /\ UNCHANGED <<skills, ai, outcome, history>>

(* Mutant: a weak candidate is skipped, the stored skill stays.            *)
CandidateWrittenUnlessWeak(r, c) ==
  IF (ai[r] /\ ~run[r].passed) \/ c.snapshot \in Unstorable THEN skills
  ELSE UpsertSkill(skills, c.id, NewRow(c.snapshot, ai[r]))

(* Mutant: the default result counts as an assessment.                     *)
CandidateWrittenAsChecked(r, c) ==
  IF ai[r] /\ ~run[r].passed THEN DeleteSkill(skills, c.id)
  ELSE IF c.snapshot \in Unstorable THEN skills
  ELSE UpsertSkill(skills, c.id, NewRow(c.snapshot, TRUE))

(* Without an auditor the default result passes and the row is unchecked.  *)
CandidateWritten(r, c) ==
  IF ai[r] /\ ~run[r].passed THEN DeleteSkill(skills, c.id)
  ELSE IF c.snapshot \in Unstorable THEN skills
  ELSE UpsertSkill(skills, c.id, NewRow(c.snapshot, ai[r]))

WriteCandidate(r, c) ==
  /\ pc[r] = "write"
  /\ ai[r] => c = run[r].job
  /\ skills' = CandidateWritten(r, c)
  /\ NextJob(r, c)
  /\ UNCHANGED <<ai, outcome, faults, history>>

WriteCandidateFails(r, c) ==
  /\ pc[r] = "write"
  /\ ai[r] => c = run[r].job
  /\ Fault
  /\ skills' \in {skills, CandidateWritten(r, c)}
  /\ FailJob(r, c, "dependency")
  /\ UNCHANGED <<ai, outcome, history>>

FinishBatch(r) ==
  /\ pc[r] \in {"audit", "write"}
  /\ \/ run[r].error /\ EndRun(r, run[r].cause, run[r].skill)
     \/ /\ run[r].jobs = {} /\ ~run[r].error
        /\ IF run[r].drained
           THEN EndRun(r, "ok", Absent)
           ELSE Goto(r, "discover") /\ UNCHANGED <<run, outcome>>
  /\ UNCHANGED <<skills, ai, faults, history>>

-----------------------------------------------------------------------------
ReconcileStep(r) ==
  \/ CountUnassessed(r) \/ LoadUnassessed(r) \/ LoadFindsNothing(r)
  \/ \E p \in AtHand(r) :
       \/ RemoveMissing(r, p) \/ AssessStored(r, p) \/ RemoveRejected(r, p)
       \/ RecordAssessment(r, p) \/ AssessmentConflicts(r, p)

DiscoveryStep(r) ==
  \/ LoadFresh(r) \/ LoadHashes(r)
  \/ \E c \in Candidates : Yield(r, c)
  \/ SourceEnds(r)
  \/ \E c \in run[r].jobs : AuditCandidate(r, c) \/ WriteCandidate(r, c)
  \/ FinishBatch(r)

FaultStep(r) ==
  \/ Crash(r) \/ ReadFails(r)
  \/ \E p \in AtHand(r) : AssessStoredFails(r, p) \/ ReconcileWriteFails(r, p)
  \/ \E c \in run[r].jobs : AuditCandidateFails(r, c) \/ WriteCandidateFails(r, c)

RunStep(r) == ReconcileStep(r) \/ DiscoveryStep(r)

Next ==
  \/ \E r \in Replicas : Boot(r) \/ StartRun(r) \/ RunStep(r) \/ FaultStep(r)
  \/ \E id \in SkillIDs : Age(id)

Spec == Init /\ [][Next]_vars

(* Processes are restarted, the ticker fires, and a run that is not at a   *)
(* fault takes its next step: every request and statement has a timeout.   *)
Fairness ==
  \A r \in Replicas :
    WF_vars(Boot(r)) /\ WF_vars(StartRun(r)) /\ WF_vars(RunStep(r))

FairSpec == Spec /\ Fairness

-----------------------------------------------------------------------------
(* Properties.                                                             *)

(* README.md:3, the publication gate: with LLM enforcement every skill     *)
(* must receive an explicit passing assessment before publication.  A row  *)
(* marked checked carries a document that some assessment really passed,   *)
(* whatever was written to the row between the assessment and the mark.    *)
PublishedWasApproved ==
  \A id \in Visible(skills, TRUE) : skills[id].snapshot.primary \in approved

(* Reconcile leaves nothing behind: a process with an auditor that has     *)
(* reached discovery finds no unassessed row, so skipping unchanged or     *)
(* fresh candidates cannot hide a skill nobody assessed.                   *)
DiscoveryFindsNoUnassessed ==
  \A r \in Replicas : ai[r] /\ pc[r] \in Discovering => Unassessed(skills) = {}

(* README.md:8: skills updated less than seven days ago are not written.   *)
(* No step of a run's discovery replaces or removes a row that is fresh.   *)
FreshRowsUntouched ==
  [][\A r \in Replicas : pc[r] \in Discovering /\ run'[r] # run[r] =>
       \A id \in FreshSkillIDs(skills) :
         skills'[id] \in {skills[id], [skills[id] EXCEPT !.fresh = FALSE]}]_vars

(* The error for an empty batch, and ErrNotFound for an assessed row, say  *)
(* that the table changed under the run: a run with no failing dependency  *)
(* does not end in one.                                                    *)
HealthyRunsSucceed == \A r \in Replicas : outcome[r].result # "conflict"

(* A skill whose latest assessment did not pass is no longer published     *)
(* once the run that assessed it has ended without an error, even if the   *)
(* assessment was of contents newer than the stored ones.                  *)
RejectedIsWithdrawn ==
  \A r \in Replicas :
    outcome[r].result = "ok" => rejected[r] \cap Visible(skills, TRUE) = {}

(* README.md:12 says the catalog fails closed: an existing skill whose     *)
(* assessment completes with an error is removed.                          *)
FailsClosed ==
  \A r \in Replicas :
    outcome[r].result = "bad_response" => skills[outcome[r].skill] = Absent

(* Every row collected while AI was disabled is decided once processes run *)
(* with an auditor: it is marked, replaced or removed, or AI is off again. *)
UnassessedIsDecided ==
  \A id \in SkillIDs :
    (id \in Unassessed(skills)) ~>
      (id \notin Unassessed(skills) \/ \E r \in Replicas : Up(r) /\ ~ai[r])

(* A run ends: the loop of Reconcile and the batches of discovery finish,  *)
(* also when rows appear and disappear under them.                         *)
RunsEnd == \A r \in Replicas : pc[r] # "idle" ~> pc[r] = "idle"

(* What the catalog promises, whatever the mechanism: module Publication.  *)
Catalog == INSTANCE Publication WITH
  Nothing   <- Absent,
  published <- [id \in SkillIDs |->
                  IF id \in Visible(skills, TRUE)
                  THEN skills[id].snapshot.primary ELSE Absent]

ImplementsPublication == Catalog!Spec
=============================================================================

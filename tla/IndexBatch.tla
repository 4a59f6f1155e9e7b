----------------------------- MODULE IndexBatch -----------------------------
(***************************************************************************)
(* indexBatch of internal/indexer for one batch of eligible candidates: a  *)
(* closed channel of jobs, a pool of workers, the assessment gate with its *)
(* cooldown, a bounded channel of results, and the consumer that collects  *)
(* them and cancels the pool on the first error.  What a job decides about *)
(* a skill is module Indexer; here only how the goroutines interleave.     *)
(***************************************************************************)
EXTENDS Integers, Sequences, FiniteSets

CONSTANTS
  JobCount,      \* eligible candidates of the batch
  Workers,       \* min(concurrency, eligible) workers
  Modes,         \* with or without an auditor
  LongCooldown,  \* is a cooldown longer than the handling of a result?
  NoWorker       \* the gate is free

ASSUME JobCountAssumption == JobCount \in Nat \ {0}
ASSUME WorkersAssumption ==
  IsFiniteSet(Workers) /\ Cardinality(Workers) \in 1..JobCount
ASSUME ModesAssumption == Modes \subseteq BOOLEAN /\ LongCooldown \in BOOLEAN
ASSUME NoWorkerAssumption == NoWorker \notin Workers

VARIABLES
  ai,         \* i.auditor # nil
  jobs,       \* the closed channel of jobs
  pc,         \* pc[w]: where worker w is
  job,        \* job[w]: the job it works on, 0 for none
  result,     \* result[w]: what it will send
  results,    \* the channel of results, with room for one per worker
  gate,       \* holder of assessmentGate
  cooling,    \* nextAssessmentStart lies in the future
  consumer,   \* "receive", "handle" or "returned"
  received,   \* the result the consumer is handling
  runErr,     \* the first error received
  cancelled,  \* runCtx.Err() # nil
  stopping,   \* ctx.Err() # nil: the process is shutting down
  stats,      \* number of stored, weak and failed jobs
  decided,    \* history: jobs with a result that is not an error
  realErrors, \* history: errors that are not a consequence of cancellation
  aiFailed,   \* history: an assessment failed
  rested      \* history: a cooldown passed since the last request started

vars == <<ai, jobs, pc, job, result, results, gate, cooling, consumer, received, runErr,
          cancelled, stopping, stats, decided, realErrors, aiFailed, rested>>
pool == <<jobs, pc, job, result, results, gate, cooling>>
history == <<decided, realErrors, aiFailed, rested>>
consuming == <<consumer, received, runErr, stats>>

Errors == {"assessment", "store", "context"}
Statuses == {"stored", "weak", "failed"}
Result == [status : Statuses \cup {"none"}, err : Errors \cup {"none"}]
NoResult == [status |-> "none", err |-> "none"]
Ok(status) == [status |-> status, err |-> "none"]
Err(err) == [status |-> IF err = "assessment" THEN "failed" ELSE "none", err |-> err]

TypeOK ==
  /\ jobs \in Seq(1..JobCount)
  /\ pc \in [Workers -> {"take", "lock", "wait", "audit", "delete", "upsert", "send", "done"}]
  /\ job \in [Workers -> 0..JobCount]
  /\ result \in [Workers -> Result]
  /\ results \in Seq(Result) /\ Len(results) <= Cardinality(Workers)
  /\ gate \in Workers \cup {NoWorker}
  /\ consumer \in {"receive", "handle", "returned"}
  /\ received \in Result
  /\ runErr \in Errors \cup {"none"}
  /\ {ai, cooling, cancelled, stopping, aiFailed, rested} \subseteq BOOLEAN
  /\ stats \in [Statuses -> 0..JobCount]
  /\ decided \subseteq 1..JobCount
  /\ realErrors \subseteq Errors

Init ==
  /\ ai \in Modes
  /\ jobs = [i \in 1..JobCount |-> i]
  /\ pc = [w \in Workers |-> "take"]
  /\ job = [w \in Workers |-> 0]
  /\ result = [w \in Workers |-> NoResult]
  /\ results = <<>>
  /\ gate = NoWorker
  /\ cooling \in {FALSE, ai}
  /\ consumer = "receive"
  /\ received = NoResult
  /\ runErr = "none"
  /\ cancelled = FALSE
  /\ stopping = FALSE
  /\ stats = [s \in Statuses |-> 0]
  /\ decided = {}
  /\ realErrors = {}
  /\ aiFailed = FALSE
  /\ rested = ~cooling

-----------------------------------------------------------------------------
(* The workers.                                                            *)

Goto(w, label) == pc' = [pc EXCEPT ![w] = label]

(* The result is ready; it becomes visible when the channel has room.      *)
Finish(w, r) ==
  /\ Goto(w, "send")
  /\ result' = [result EXCEPT ![w] = r]

(* The worker ends on the closed channel, or when the pool is cancelled.   *)
Take(w) ==
  /\ pc[w] = "take"
  /\ IF jobs = <<>>
     THEN Goto(w, "done") /\ UNCHANGED <<jobs, job>>
     ELSE /\ jobs' = Tail(jobs)
          /\ IF cancelled
             THEN Goto(w, "done") /\ UNCHANGED job
             ELSE /\ Goto(w, IF ai THEN "lock" ELSE "upsert")
                  /\ job' = [job EXCEPT ![w] = Head(jobs)]
  /\ UNCHANGED <<result, results, gate, cooling, consuming, cancelled, stopping, ai, history>>

(* auditWithCooldown: the gate is held while waiting and while assessing.  *)
Lock(w) ==
  /\ pc[w] = "lock"
  /\ gate = NoWorker
  /\ gate' = w
  /\ Goto(w, "wait")
  /\ UNCHANGED <<jobs, job, result, results, cooling, consuming, cancelled, stopping, ai, history>>

(* The select between ctx.Done and the timer, cancelled side.              *)
GiveUpWaiting(w) ==
  /\ pc[w] = "wait"
  /\ cooling /\ cancelled
  /\ gate' = NoWorker
  /\ Finish(w, Err("context"))
  /\ UNCHANGED <<jobs, job, results, cooling, consuming, cancelled, stopping, ai, history>>

StartAssessment(w) ==
  /\ pc[w] = "wait"
  /\ ~cooling
  /\ Goto(w, "audit")
  /\ rested' = FALSE
  /\ UNCHANGED <<jobs, job, result, results, gate, cooling, consuming, cancelled,
                 stopping, ai, decided, realErrors, aiFailed>>

(* Mutant: the gate is not unlocked.                                       *)
EndAssessmentKeepsGate(w) ==
  /\ pc[w] = "audit"
  /\ cooling' = TRUE
  /\ UNCHANGED <<jobs, job, results, gate, consuming, cancelled, stopping, ai>>

(* Mutant: nextAssessmentStart is not moved.                               *)
EndAssessmentWithoutCooldown(w) ==
  /\ pc[w] = "audit"
  /\ gate' = NoWorker
  /\ UNCHANGED <<jobs, job, results, cooling, consuming, cancelled, stopping, ai>>

(* The next cooldown starts when the request ends, whatever its result.    *)
EndAssessment(w) ==
  /\ pc[w] = "audit"
  /\ gate' = NoWorker
  /\ cooling' = TRUE
  /\ UNCHANGED <<jobs, job, results, consuming, cancelled, stopping, ai>>

Assessed(w) ==
  /\ EndAssessment(w)
  /\ \E next \in {"delete", "upsert"} : Goto(w, next)
  /\ UNCHANGED <<result, history>>

AssessmentFails(w) ==
  /\ EndAssessment(w)
  /\ IF cancelled
     THEN Finish(w, Err("context")) /\ UNCHANGED history
     ELSE /\ Finish(w, Err("assessment"))
          /\ aiFailed' = TRUE
          /\ realErrors' = realErrors \cup {"assessment"}
          /\ UNCHANGED <<decided, rested>>

Write(w) ==
  /\ \/ pc[w] = "delete" /\ Finish(w, Ok("weak"))
     \/ pc[w] = "upsert" /\ \E s \in {"stored", "failed"} : Finish(w, Ok(s))
  /\ decided' = decided \cup {job[w]}
  /\ UNCHANGED <<jobs, job, results, gate, cooling, consuming, cancelled, stopping, ai,
                 realErrors, aiFailed, rested>>

(* Store errors are wrapped as they are, also that of a cancelled context. *)
WriteFails(w) ==
  /\ pc[w] \in {"delete", "upsert"}
  /\ \/ /\ cancelled
        /\ Finish(w, Err("context"))
        /\ UNCHANGED realErrors
     \/ /\ Finish(w, Err("store"))
        /\ realErrors' = realErrors \cup {"store"}
  /\ UNCHANGED <<jobs, job, results, gate, cooling, consuming, cancelled, stopping, ai,
                 decided, aiFailed, rested>>

(* Mutant: a channel that takes a result for every job.                    *)
SendUnbounded(w) ==
  /\ pc[w] = "send"
  /\ results' = Append(results, result[w])
  /\ result' = [result EXCEPT ![w] = NoResult]
  /\ job' = [job EXCEPT ![w] = 0]
  /\ Goto(w, "take")
  /\ UNCHANGED <<jobs, gate, cooling, consuming, cancelled, stopping, ai, history>>

Send(w) ==
  /\ pc[w] = "send"
  /\ Len(results) < Cardinality(Workers)
  /\ results' = Append(results, result[w])
  /\ result' = [result EXCEPT ![w] = NoResult]
  /\ job' = [job EXCEPT ![w] = 0]
  /\ Goto(w, "take")
  /\ UNCHANGED <<jobs, gate, cooling, consuming, cancelled, stopping, ai, history>>

-----------------------------------------------------------------------------
(* The consumer, the clock and shutdown.                                   *)

Receive ==
  /\ consumer = "receive"
  /\ results # <<>>
  /\ received' = Head(results)
  /\ results' = Tail(results)
  /\ consumer' = "handle"
  /\ UNCHANGED <<jobs, pc, job, result, gate, cooling, runErr, cancelled, stopping, ai,
                 stats, history>>

Count(status) ==
  IF status = "none" THEN stats ELSE [stats EXCEPT ![status] = @ + 1]

(* Mutant: every error replaces the one before.                            *)
HandleKeepingLastError ==
  /\ consumer = "handle"
  /\ stats' = Count(received.status)
  /\ IF received.err # "none"
     THEN runErr' = received.err /\ cancelled' = TRUE
     ELSE UNCHANGED <<runErr, cancelled>>
  /\ consumer' = "receive"
  /\ received' = NoResult
  /\ UNCHANGED <<pool, stopping, ai, history>>

(* Mutant: the first error does not cancel the pool.                       *)
HandleWithoutCancel ==
  /\ consumer = "handle"
  /\ stats' = Count(received.status)
  /\ runErr' = IF runErr = "none" THEN received.err ELSE runErr
  /\ consumer' = "receive"
  /\ received' = NoResult
  /\ UNCHANGED <<pool, cancelled, stopping, ai, history>>

Handle ==
  /\ consumer = "handle"
  /\ stats' = Count(received.status)
  /\ IF received.err # "none" /\ runErr = "none"
     THEN runErr' = received.err /\ cancelled' = TRUE
     ELSE UNCHANGED <<runErr, cancelled>>
  /\ consumer' = "receive"
  /\ received' = NoResult
  /\ UNCHANGED <<pool, stopping, ai, history>>

(* Mutant: the channel is closed by the first worker that ends.            *)
ReturnAfterFirstWorker ==
  /\ consumer = "receive"
  /\ results = <<>>
  /\ \E w \in Workers : pc[w] = "done"
  /\ consumer' = "returned"
  /\ runErr' = IF runErr = "none" /\ stopping THEN "context" ELSE runErr
  /\ cancelled' = TRUE
  /\ UNCHANGED <<pool, received, stopping, stats, ai, history>>

(* The channel of results is closed once every worker has ended.           *)
Return ==
  /\ consumer = "receive"
  /\ results = <<>>
  /\ \A w \in Workers : pc[w] = "done"
  /\ consumer' = "returned"
  /\ runErr' = IF runErr = "none" /\ stopping THEN "context" ELSE runErr
  /\ cancelled' = TRUE
  /\ UNCHANGED <<pool, received, stopping, stats, ai, history>>

(* With LongCooldown, no timer fires while a result is still on its way.   *)
CooldownEnds ==
  /\ cooling
  /\ LongCooldown => results = <<>> /\ consumer # "handle"
                       /\ (\A w \in Workers : pc[w] # "send")
  /\ cooling' = FALSE
  /\ rested' = TRUE
  /\ UNCHANGED <<jobs, pc, job, result, results, gate, consuming, cancelled, stopping, ai,
                 decided, realErrors, aiFailed>>

Shutdown ==
  /\ ~stopping /\ consumer # "returned"
  /\ stopping' = TRUE
  /\ cancelled' = TRUE
  /\ UNCHANGED <<pool, consuming, ai, history>>

(* The batch is over and the pool is gone.                                 *)
Returned ==
  /\ consumer = "returned"
  /\ UNCHANGED vars

WorkerStep(w) ==
  \/ Take(w) \/ Lock(w) \/ GiveUpWaiting(w) \/ StartAssessment(w)
  \/ Assessed(w) \/ AssessmentFails(w) \/ Write(w) \/ WriteFails(w) \/ Send(w)

ConsumerStep == Receive \/ Handle \/ Return

Next ==
  \/ \E w \in Workers : WorkerStep(w)
  \/ ConsumerStep \/ CooldownEnds \/ Shutdown \/ Returned

Spec == Init /\ [][Next]_vars

(* Goroutines run, requests and statements end, timers fire.  The mutex is *)
(* not assumed to be fair.                                                 *)
Fairness ==
  /\ \A w \in Workers : WF_vars(WorkerStep(w))
  /\ WF_vars(ConsumerStep)
  /\ WF_vars(CooldownEnds)

FairSpec == Spec /\ Fairness

-----------------------------------------------------------------------------
(* README.md:73: assessments are serialized, and each is followed by a     *)
(* cooldown.  No request starts while another is under way, or before a    *)
(* cooldown has passed since the previous one, whichever worker made it.   *)
SerializedAndSpaced ==
  [][\A w \in Workers : pc[w] # "audit" /\ pc'[w] = "audit" =>
       rested /\ (\A other \in Workers : pc[other] # "audit")]_vars

(* A batch that ends without an error has decided every job, and its       *)
(* statistics count each of them once: no job is lost in a channel.        *)
NothingLost ==
  consumer = "returned" /\ runErr = "none" =>
    /\ decided = 1..JobCount
    /\ stats["stored"] + stats["weak"] + stats["failed"] = JobCount

(* The error returned is the cause, not an echo of the cancellation it set *)
(* off: a context error is returned only when the process is stopping, and *)
(* no failure of a dependency goes unreported.                             *)
CauseIsReported ==
  consumer = "returned" =>
    /\ (runErr = "context" => stopping)
    /\ (realErrors # {} => runErr # "none")

(* README.md:73: after an assessment error the run stops.  No further      *)
(* request is made once one has failed, except with a context that is      *)
(* already cancelled, provided a cooldown outlasts the handling of a result.*)
AttemptedOnce ==
  [][\A w \in Workers : pc[w] # "audit" /\ pc'[w] = "audit" =>
       (aiFailed => cancelled)]_vars

(* The batch returns, whatever fails and whenever the process is stopped.  *)
BatchReturns == <>(consumer = "returned")
=============================================================================

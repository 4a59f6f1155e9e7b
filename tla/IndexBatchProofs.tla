-------------------------- MODULE IndexBatchProofs --------------------------
(***************************************************************************)
(* Proofs about IndexBatch, for any number of jobs and workers: the types, *)
(* that no job is lost, that the error returned is the cause, and what the *)
(* gate promises of the requests to the auditor.                           *)
(***************************************************************************)
EXTENDS IndexBatch, FiniteSetTheorems, SequenceTheorems, TLAPS

-----------------------------------------------------------------------------
(* The inductive invariant, in parts.                                      *)

Working == {"lock", "wait", "audit", "delete", "upsert", "send"}
Active == {w \in Workers : pc[w] \in Working}

(* TypeOK without its bounds on the statistics and the channels, which     *)
(* follow from AllCounted.                                                 *)
BatchTypeOK ==
  /\ jobs \in Seq(1..JobCount)
  /\ pc \in [Workers -> Working \cup {"take", "done"}]
  /\ job \in [Workers -> 0..JobCount]
  /\ \A w \in Workers : pc[w] \in Working => job[w] # 0
  /\ result \in [Workers -> Result]
  /\ results \in Seq(Result)
  /\ Len(results) <= Cardinality(Workers)
  /\ gate \in Workers \cup {NoWorker}
  /\ consumer \in {"receive", "handle", "returned"}
  /\ received \in Result
  /\ runErr \in Errors \cup {"none"}
  /\ ai \in BOOLEAN
  /\ cooling \in BOOLEAN
  /\ cancelled \in BOOLEAN
  /\ stopping \in BOOLEAN
  /\ aiFailed \in BOOLEAN
  /\ rested \in BOOLEAN
  /\ stats \in [Statuses -> Nat]
  /\ decided \subseteq 1..JobCount
  /\ realErrors \subseteq Errors

(* What has been decided and not yet handled: in the hands of a worker, in *)
(* the channel, or in the hands of the consumer.                           *)
OnTheWay ==
  {result[w] : w \in Workers} \cup {results[i] : i \in 1..Len(results)} \cup {received}

SlotsInUse ==
  /\ \A w \in Workers : pc[w] = "send" <=> result[w] # NoResult
  /\ \A i \in 1..Len(results) : results[i] # NoResult
  /\ consumer = "handle" <=> received # NoResult

JobsInOrder ==
  Len(jobs) <= JobCount /\ \A i \in 1..Len(jobs) : jobs[i] = JobCount - Len(jobs) + i

(* A worker that ends leaves no jobs behind, unless the batch has failed.  *)
EndsLast ==
  (\E w \in Workers : pc[w] = "done") => jobs = <<>> \/ runErr # "none" \/ stopping

ReturnsLast ==
  consumer = "returned" =>
    /\ results = <<>>
    /\ \A w \in Workers : pc[w] = "done"
    /\ stopping => runErr # "none"

(* Nothing but an error, a shutdown or the end cancels the pool.           *)
CancelledWithCause ==
  /\ runErr # "none" \/ stopping => cancelled
  /\ cancelled => runErr # "none" \/ stopping \/ consumer = "returned"

ContextHasCause ==
  /\ runErr = "none" /\ ~stopping => \A r \in OnTheWay : r.err # "context"
  /\ runErr = "context" => stopping

ErrorsArrive == realErrors # {} => runErr # "none" \/ \E r \in OnTheWay : r.err # "none"

(* Every job is in one place; those that vanish belong to a cancelled pool.*)
Handled == stats["stored"] + stats["weak"] + stats["failed"]
InHand == IF consumer = "handle" THEN 1 ELSE 0
Places == Len(jobs) + Cardinality(Active) + Len(results) + InHand + Handled

AllCounted ==
  Places <= JobCount /\ (runErr = "none" /\ ~stopping => Places = JobCount)

Undisturbed == runErr = "none" /\ ~stopping /\ \A r \in OnTheWay : r.err = "none"

AllDecided ==
  /\ \A w \in Workers : pc[w] = "send" /\ result[w].err = "none" => job[w] \in decided
  /\ Undisturbed =>
       \A j \in 1..(JobCount - Len(jobs)) :
         j \in decided \/ \E w \in Active : job[w] = j

GateHeld == \A w \in Workers : pc[w] \in {"wait", "audit"} <=> gate = w

RestKnown == ~cooling => rested \/ \E w \in Workers : pc[w] = "audit"

(* The failure is not handled before the cooldown it set off is over.      *)
FailureOutlasted ==
  LongCooldown /\ aiFailed /\ ~cancelled =>
    cooling /\ \E r \in OnTheWay : r.err # "none"

BatchInv ==
  /\ BatchTypeOK
  /\ SlotsInUse
  /\ JobsInOrder
  /\ EndsLast
  /\ ReturnsLast
  /\ CancelledWithCause
  /\ ContextHasCause
  /\ ErrorsArrive
  /\ AllCounted
  /\ AllDecided
  /\ GateHeld
  /\ RestKnown
  /\ FailureOutlasted

-----------------------------------------------------------------------------
(* Types.                                                                  *)

LEMMA InitType == Init => BatchTypeOK
  <1> SUFFICES ASSUME Init PROVE BatchTypeOK
    OBVIOUS
  <1>1. jobs \in Seq(1..JobCount)
    BY JobCountAssumption DEF Init
  <1>2. Len(results) <= Cardinality(Workers) /\ results \in Seq(Result)
    BY WorkersAssumption, JobCountAssumption DEF Init
  <1>3. result \in [Workers -> Result] /\ received \in Result
    BY DEF Init, NoResult, Result, Statuses, Errors
  <1>4. /\ pc \in [Workers -> Working \cup {"take", "done"}]
        /\ job \in [Workers -> 0..JobCount]
        /\ \A w \in Workers : pc[w] \in Working => job[w] # 0
    BY JobCountAssumption DEF Init, Working
  <1>5. /\ gate \in Workers \cup {NoWorker}
        /\ consumer \in {"receive", "handle", "returned"}
        /\ runErr \in Errors \cup {"none"}
        /\ stats \in [Statuses -> Nat]
        /\ decided \subseteq 1..JobCount
        /\ realErrors \subseteq Errors
    BY DEF Init
  <1>6. /\ cancelled \in BOOLEAN
        /\ stopping \in BOOLEAN
        /\ aiFailed \in BOOLEAN
        /\ ai \in BOOLEAN
    BY ModesAssumption DEF Init
  <1>7. cooling \in BOOLEAN
    BY <1>6 DEF Init
  <1>8. rested \in BOOLEAN
    BY <1>7 DEF Init
  <1> QED
    BY <1>1, <1>2, <1>3, <1>4, <1>5, <1>6, <1>7, <1>8 DEF BatchTypeOK

LEMMA ResultTypes ==
  /\ NoResult \in Result
  /\ NoResult.err = "none" /\ NoResult.status = "none"
  /\ \A s \in Statuses : Ok(s) \in Result /\ Ok(s) # NoResult /\ Ok(s).err = "none"
  /\ \A e \in Errors : Err(e) \in Result /\ Err(e) # NoResult /\ Err(e).err = e
  /\ \A r \in Result : r.err = "none" /\ r # NoResult => r.status \in Statuses
  <1>1. NoResult \in Result /\ NoResult.err = "none" /\ NoResult.status = "none"
    BY DEF NoResult, Result
  <1>2. ASSUME NEW s \in Statuses
        PROVE  Ok(s) \in Result /\ Ok(s) # NoResult /\ Ok(s).err = "none"
    BY DEF NoResult, Result, Ok, Statuses
  <1>3. ASSUME NEW e \in Errors
        PROVE  Err(e) \in Result /\ Err(e) # NoResult /\ Err(e).err = e
    BY DEF NoResult, Result, Err, Statuses, Errors
  <1>4. ASSUME NEW r \in Result, r.err = "none", r # NoResult
        PROVE  r.status \in Statuses
    BY <1>4 DEF Result, NoResult
  <1> QED
    BY <1>1, <1>2, <1>3, <1>4

LEMMA FinishType ==
  ASSUME BatchTypeOK, NEW w \in Workers, NEW r \in Result, Finish(w, r),
         pc[w] \in Working
  PROVE  /\ pc' \in [Workers -> Working \cup {"take", "done"}]
         /\ result' \in [Workers -> Result]
         /\ \A v \in Workers : pc'[v] \in Working => job[v] # 0
         /\ pc' = [pc EXCEPT ![w] = "send"]
         /\ result' = [result EXCEPT ![w] = r]
  BY DEF BatchTypeOK, Finish, Goto, Working

LEMMA TakeCases ==
  ASSUME NEW w \in Workers, Take(w)
  PROVE  \/ /\ jobs = <<>> /\ jobs' = jobs
            /\ job' = job
            /\ Goto(w, "done")
         \/ /\ jobs # <<>> /\ jobs' = Tail(jobs)
            /\ cancelled = TRUE
            /\ job' = job
            /\ Goto(w, "done")
         \/ /\ jobs # <<>> /\ jobs' = Tail(jobs)
            /\ job' = [job EXCEPT ![w] = Head(jobs)]
            /\ Goto(w, "lock") \/ Goto(w, "upsert")
  BY DEF Take

LEMMA WorkerStepType ==
  ASSUME BatchTypeOK, NEW w \in Workers, WorkerStep(w)
  PROVE  BatchTypeOK'
  <1> USE DEF BatchTypeOK
  <1>1. CASE Take(w)
    <2>0. jobs # <<>> => Tail(jobs) \in Seq(1..JobCount) /\ Head(jobs) \in 1..JobCount
      BY JobCountAssumption
    <2>1. jobs' \in Seq(1..JobCount)
      BY <1>1, <2>0, TakeCases
    <2>2. pc' \in [Workers -> Working \cup {"take", "done"}]
      BY <1>1, TakeCases DEF Goto, Working
    <2>3. job' \in [Workers -> 0..JobCount]
      <3>1. CASE job' = job
        BY <3>1
      <3>2. CASE jobs # <<>> /\ job' = [job EXCEPT ![w] = Head(jobs)]
        <4>1. Head(jobs) \in 0..JobCount
          BY <2>0, <3>2, JobCountAssumption
        <4> QED BY <3>2, <4>1
      <3> QED BY <1>1, <3>1, <3>2, TakeCases
    <2>4. \A v \in Workers : pc'[v] \in Working => job'[v] # 0
      <3>1. CASE job' = job /\ Goto(w, "done")
        BY <3>1 DEF Goto, Working
      <3>2. CASE /\ jobs # <<>> /\ job' = [job EXCEPT ![w] = Head(jobs)]
                 /\ Goto(w, "lock") \/ Goto(w, "upsert")
        <4>1. Head(jobs) # 0
          BY <2>0, <3>2, JobCountAssumption
        <4> QED BY <3>2, <4>1 DEF Goto, Working
      <3> QED BY <1>1, <3>1, <3>2, TakeCases
    <2> QED
      BY <1>1, <2>1, <2>2, <2>3, <2>4 DEF Take, consuming, history
  <1>2. CASE Lock(w)
    BY <1>2 DEF Lock, Goto, Working, consuming, history
  <1>3. CASE GiveUpWaiting(w)
    BY <1>3, FinishType, ResultTypes DEF GiveUpWaiting, Working, Errors, consuming, history
  <1>4. CASE StartAssessment(w)
    BY <1>4 DEF StartAssessment, Goto, Working, consuming
  <1>5. CASE Assessed(w)
    BY <1>5 DEF Assessed, EndAssessment, Goto, Working, consuming, history
  <1>6. CASE AssessmentFails(w)
    BY <1>6, FinishType, ResultTypes
    DEF AssessmentFails, EndAssessment, Working, Errors, consuming, history
  <1>7. CASE Write(w)
    <2>1. PICK s \in Statuses : Finish(w, Ok(s))
      BY <1>7 DEF Write, Statuses
    <2>2. pc[w] \in Working
      BY <1>7 DEF Write, Working
    <2>3. decided' \subseteq 1..JobCount
      <3>1. job[w] \in 1..JobCount
        BY <2>2, JobCountAssumption
      <3> QED BY <1>7, <3>1 DEF Write
    <2>4. Ok(s) \in Result
      BY ResultTypes
    <2>5. UNCHANGED <<jobs, job, results, gate, cooling, consuming, cancelled, stopping, ai,
                     realErrors, aiFailed, rested>>
      BY <1>7 DEF Write
    <2>6. /\ pc' \in [Workers -> Working \cup {"take", "done"}]
          /\ result' \in [Workers -> Result]
          /\ \A v \in Workers : pc'[v] \in Working => job[v] # 0
      BY <2>1, <2>2, <2>4, FinishType
    <2> QED
      BY <2>3, <2>5, <2>6 DEF consuming
  <1>8. CASE WriteFails(w)
    <2>1. PICK e \in Errors : Finish(w, Err(e))
      BY <1>8 DEF WriteFails, Errors
    <2>2. pc[w] \in Working /\ Err(e) \in Result
      BY <1>8, ResultTypes DEF WriteFails, Working
    <2>3. realErrors' \subseteq Errors
      BY <1>8 DEF WriteFails, Errors
    <2> QED
      BY <1>8, <2>1, <2>2, <2>3, FinishType DEF WriteFails, consuming, history
  <1>9. CASE Send(w)
    <2>1. results' \in Seq(Result) /\ Len(results') <= Cardinality(Workers)
      <3>1. results' = Append(results, result[w]) /\ Len(results) < Cardinality(Workers)
        BY <1>9 DEF Send
      <3>2. Cardinality(Workers) \in Nat
        BY WorkersAssumption, JobCountAssumption
      <3>3. result[w] \in Result
        OBVIOUS
      <3> HIDE DEF BatchTypeOK
      <3>4. results \in Seq(Result)
        BY DEF BatchTypeOK
      <3> QED BY <3>1, <3>2, <3>3, <3>4, AppendProperties
    <2>2. pc' \in [Workers -> Working \cup {"take", "done"}]
      BY <1>9 DEF Send, Goto, Working
    <2>3. job' \in [Workers -> 0..JobCount]
      BY <1>9, JobCountAssumption DEF Send
    <2>4. \A v \in Workers : pc'[v] \in Working => job'[v] # 0
      BY <1>9 DEF Send, Goto, Working
    <2> QED
      BY <1>9, <2>1, <2>2, <2>3, <2>4, ResultTypes DEF Send, consuming, history
  <1> QED
    BY <1>1, <1>2, <1>3, <1>4, <1>5, <1>6, <1>7, <1>8, <1>9 DEF WorkerStep

LEMMA CountType ==
  ASSUME stats \in [Statuses -> Nat], NEW s \in Statuses \cup {"none"}
  PROVE  Count(s) \in [Statuses -> Nat]
  BY DEF Count, Statuses

LEMMA ConsumerStepType ==
  ASSUME BatchTypeOK, ConsumerStep
  PROVE  BatchTypeOK'
  <1> USE DEF BatchTypeOK
  <1>1. CASE Receive
    <2>1. results' \in Seq(Result) /\ Len(results') <= Cardinality(Workers)
      BY <1>1, WorkersAssumption, JobCountAssumption DEF Receive
    <2>2. received' \in Result
      BY <1>1 DEF Receive
    <2> QED
      BY <1>1, <2>1, <2>2 DEF Receive, history
  <1>2. CASE Handle
    <2>1. received.status \in Statuses \cup {"none"} /\ received.err \in Errors \cup {"none"}
      BY DEF Result
    <2>2. stats' \in [Statuses -> Nat]
      BY <1>2, <2>1, CountType DEF Handle
    <2>3. runErr' \in Errors \cup {"none"}
      BY <1>2, <2>1 DEF Handle
    <2>4. cancelled' \in BOOLEAN
      BY <1>2 DEF Handle
    <2> QED
      BY <1>2, <2>2, <2>3, <2>4, ResultTypes DEF Handle, pool, history
  <1>3. CASE Return
    <2>1. runErr' \in Errors \cup {"none"}
      BY <1>3 DEF Return, Errors
    <2> QED
      BY <1>3, <2>1 DEF Return, pool, history
  <1> QED
    BY <1>1, <1>2, <1>3 DEF ConsumerStep

LEMMA NextType == BatchTypeOK /\ [Next]_vars => BatchTypeOK'
  <1> SUFFICES ASSUME BatchTypeOK, [Next]_vars PROVE BatchTypeOK'
    OBVIOUS
  <1>1. CASE CooldownEnds
    BY <1>1 DEF BatchTypeOK, CooldownEnds, consuming
  <1>2. CASE Shutdown
    BY <1>2 DEF BatchTypeOK, Shutdown, pool, consuming, history
  <1>3. CASE Returned \/ UNCHANGED vars
    BY <1>3 DEF BatchTypeOK, Returned, vars
  <1> QED
    BY <1>1, <1>2, <1>3, WorkerStepType, ConsumerStepType DEF Next

-----------------------------------------------------------------------------
(* What the steps do to the results that are on their way.                 *)

LEMMA WorkerKinds ==
  ASSUME NEW w \in Workers, WorkerStep(w)
  PROVE  /\ UNCHANGED <<consumer, received, runErr, stats, cancelled, stopping>>
         /\ pc[w] # "done"
         /\ \/ /\ Take(w) \/ Lock(w) \/ StartAssessment(w) \/ Assessed(w)
               /\ UNCHANGED <<result, results, decided, realErrors, aiFailed>>
            \/ /\ \E s \in Statuses : Finish(w, Ok(s))
               /\ pc[w] \in {"delete", "upsert"}
               /\ decided' = decided \cup {job[w]}
               /\ UNCHANGED <<jobs, job, results, gate, cooling, realErrors, aiFailed, rested>>
            \/ /\ \E e \in Errors : /\ Finish(w, Err(e))
                                    /\ e = "context" => cancelled
                                    /\ realErrors' \in {realErrors, realErrors \cup {e}}
               /\ pc[w] \in {"wait", "audit", "delete", "upsert"}
               /\ UNCHANGED <<jobs, job, results, decided, rested>>
            \/ Send(w) /\ UNCHANGED <<jobs, gate, cooling, decided, realErrors, aiFailed, rested>>
  <1>1. CASE Take(w)
    BY <1>1 DEF Take, consuming, history
  <1>2. CASE Lock(w)
    BY <1>2 DEF Lock, consuming, history
  <1>3. CASE GiveUpWaiting(w)
    BY <1>3 DEF GiveUpWaiting, consuming, history, Errors
  <1>4. CASE StartAssessment(w)
    BY <1>4 DEF StartAssessment, consuming
  <1>5. CASE Assessed(w)
    BY <1>5 DEF Assessed, EndAssessment, consuming, history
  <1>6. CASE AssessmentFails(w)
    BY <1>6 DEF AssessmentFails, EndAssessment, consuming, history, Errors
  <1>7. CASE Write(w)
    <2>1. \E s \in Statuses : Finish(w, Ok(s))
      BY <1>7 DEF Write, Statuses
    <2> QED
      BY <1>7, <2>1 DEF Write, consuming
  <1>8. CASE WriteFails(w)
    BY <1>8 DEF WriteFails, consuming, Errors
  <1>9. CASE Send(w)
    BY <1>9 DEF Send, consuming, history
  <1> QED
    BY <1>1, <1>2, <1>3, <1>4, <1>5, <1>6, <1>7, <1>8, <1>9 DEF WorkerStep

LEMMA QuietKeepsOnTheWay ==
  ASSUME UNCHANGED <<result, results, received>>
  PROVE  OnTheWay' = OnTheWay
  BY DEF OnTheWay

LEMMA FinishOnTheWay ==
  ASSUME BatchTypeOK, SlotsInUse, NEW w \in Workers, NEW r, Finish(w, r),
         pc[w] # "send", UNCHANGED <<results, received>>
  PROVE  /\ OnTheWay' \subseteq OnTheWay \cup {r}
         /\ OnTheWay \subseteq OnTheWay' \cup {NoResult}
         /\ r \in OnTheWay'
  BY DEF BatchTypeOK, SlotsInUse, Finish, OnTheWay

LEMMA SendOnTheWay ==
  ASSUME BatchTypeOK, NEW w \in Workers, Send(w)
  PROVE  /\ OnTheWay' \subseteq OnTheWay \cup {NoResult}
         /\ OnTheWay \subseteq OnTheWay'
  <1>1. /\ Len(results') = Len(results) + 1 /\ Len(results) \in Nat
        /\ results'[Len(results) + 1] = result[w]
        /\ \A i \in 1..Len(results) : results'[i] = results[i]
    <2>1. results \in Seq(Result) /\ result[w] \in Result /\ results' = Append(results, result[w])
      BY DEF BatchTypeOK, Send
    <2> QED BY <2>1, AppendProperties
  <1>2. {results'[i] : i \in 1..Len(results')} = {results[i] : i \in 1..Len(results)} \cup {result[w]}
    BY <1>1
  <1>3. /\ result' = [result EXCEPT ![w] = NoResult] /\ result \in [Workers -> Result]
        /\ received' = received
    BY DEF Send, BatchTypeOK, consuming
  <1> QED
    BY <1>2, <1>3 DEF OnTheWay

LEMMA ReceiveOnTheWay ==
  ASSUME BatchTypeOK, SlotsInUse, Receive
  PROVE  /\ OnTheWay' \subseteq OnTheWay
         /\ OnTheWay \subseteq OnTheWay' \cup {NoResult}
  <1>1. /\ results \in Seq(Result) /\ results # <<>>
        /\ results' = Tail(results) /\ received' = Head(results)
        /\ received = NoResult /\ result' = result
    BY DEF BatchTypeOK, SlotsInUse, Receive
  <1>2. /\ Len(results') = Len(results) - 1 /\ Len(results) \in Nat \ {0}
        /\ received' = results[1]
        /\ \A i \in 1..Len(results') : results'[i] = results[i + 1]
    BY <1>1
  <1>3. {results[i] : i \in 1..Len(results)} = {results'[i] : i \in 1..Len(results')} \cup {received'}
    <2>1. ASSUME NEW i \in 1..Len(results), i # 1
          PROVE  i - 1 \in 1..Len(results') /\ results[i] = results'[i - 1]
      BY <1>2, <2>1
    <2>2. ASSUME NEW i \in 1..Len(results')
          PROVE  i + 1 \in 1..Len(results) /\ results'[i] = results[i + 1]
      BY <1>2
    <2> QED BY <1>2, <2>1, <2>2
  <1> QED
    BY <1>1, <1>3 DEF OnTheWay

LEMMA HandleOnTheWay ==
  ASSUME Handle
  PROVE  /\ OnTheWay' \subseteq OnTheWay \cup {NoResult}
         /\ OnTheWay \subseteq OnTheWay' \cup {received}
  BY DEF Handle, pool, OnTheWay

-----------------------------------------------------------------------------
(* The parts of the invariant, one by one.                                 *)

LEMMA SlotsInUseStep ==
  ASSUME BatchTypeOK, SlotsInUse, Next
  PROVE  SlotsInUse'
  <1> USE DEF BatchTypeOK, SlotsInUse
  <1>1. ASSUME NEW w \in Workers, WorkerStep(w) PROVE SlotsInUse'
    <2>1. CASE Take(w) \/ Lock(w) \/ StartAssessment(w) \/ Assessed(w)
      <3>1. \E l : l # "send" /\ Goto(w, l)
        BY <2>1 DEF Take, Lock, StartAssessment, Assessed
      <3>2. pc[w] # "send" /\ UNCHANGED <<result, results, received, consumer>>
        BY <1>1, <2>1, WorkerKinds DEF Take, Lock, StartAssessment, Assessed, EndAssessment, consuming
      <3> QED BY <3>1, <3>2 DEF Goto
    <2>2. ASSUME NEW r, r # NoResult, Finish(w, r), UNCHANGED <<results, received, consumer>>
          PROVE  SlotsInUse'
      BY <2>2 DEF Finish, Goto
    <2>3. CASE Send(w)
      <3>1. results \in Seq(Result) /\ result[w] \in Result /\ results' = Append(results, result[w])
        BY <2>3 DEF Send
      <3>2. \A i \in 1..Len(results') : results'[i] # NoResult
        <4>1. result[w] # NoResult
          BY <2>3 DEF Send
        <4> HIDE DEF BatchTypeOK
        <4> QED BY <3>1, <4>1, AppendProperties
      <3>3. \A v \in Workers : pc'[v] = "send" <=> result'[v] # NoResult
        BY <2>3 DEF Send, Goto
      <3> QED BY <2>3, <3>2, <3>3 DEF Send, consuming
    <2> QED
      BY <1>1, <2>1, <2>2, <2>3, WorkerKinds, ResultTypes
  <1>2. CASE Receive
    <2>1. received' = results[1] /\ results # <<>> /\ 1 \in 1..Len(results)
      BY <1>2 DEF Receive
    <2>2. \A i \in 1..Len(results') : results'[i] # NoResult
      <3>1. \A i \in 1..Len(results') : results'[i] = results[i + 1] /\ i + 1 \in 1..Len(results)
        BY <1>2 DEF Receive
      <3> QED BY <3>1
    <2> QED BY <1>2, <2>1, <2>2 DEF Receive
  <1>3. CASE Handle
    BY <1>3 DEF Handle, pool
  <1>4. CASE Return \/ Shutdown \/ CooldownEnds \/ Returned
    BY <1>4 DEF Return, Shutdown, CooldownEnds, Returned, pool, consuming, vars
  <1> QED
    BY <1>1, <1>2, <1>3, <1>4 DEF Next, ConsumerStep

LEMMA JobsInOrderStep ==
  ASSUME BatchTypeOK, JobsInOrder, Next
  PROVE  JobsInOrder'
  <1>1. CASE jobs' = jobs
    BY <1>1 DEF JobsInOrder
  <1>2. CASE jobs # <<>> /\ jobs' = Tail(jobs)
    <2>1. /\ Len(jobs') = Len(jobs) - 1 /\ Len(jobs) \in Nat \ {0}
          /\ \A i \in 1..Len(jobs') : jobs'[i] = jobs[i + 1]
      BY <1>2 DEF BatchTypeOK
    <2> QED
      BY <2>1, JobCountAssumption DEF JobsInOrder
  <1>3. ASSUME NEW w \in Workers, WorkerStep(w)
        PROVE  jobs' = jobs \/ (jobs # <<>> /\ jobs' = Tail(jobs))
    <2>1. CASE Take(w)
      BY <2>1, TakeCases
    <2>2. CASE Lock(w) \/ StartAssessment(w) \/ Assessed(w)
      BY <2>2 DEF Lock, StartAssessment, Assessed, EndAssessment
    <2>3. CASE GiveUpWaiting(w) \/ AssessmentFails(w)
      BY <2>3 DEF GiveUpWaiting, AssessmentFails, EndAssessment
    <2>4. CASE Write(w) \/ WriteFails(w) \/ Send(w)
      BY <2>4 DEF Write, WriteFails, Send
    <2> QED
      BY <1>3, <2>1, <2>2, <2>3, <2>4 DEF WorkerStep
  <1> QED
    BY <1>1, <1>2, <1>3
    DEF Next, ConsumerStep, Receive, Handle, Return, Shutdown, CooldownEnds, Returned, pool, vars

LEMMA EndsLastStep ==
  ASSUME BatchTypeOK, EndsLast, ReturnsLast, CancelledWithCause, Next
  PROVE  EndsLast'
  <1>1. ASSUME NEW w \in Workers, WorkerStep(w) PROVE EndsLast'
    <2>1. UNCHANGED <<runErr, stopping, consumer>> /\ consumer # "returned"
      BY <1>1, WorkerKinds DEF ReturnsLast
    <2>2. CASE Take(w)
      <3>1. jobs' = <<>> \/ cancelled \/ Goto(w, "lock") \/ Goto(w, "upsert")
        BY <2>2, TakeCases
      <3>2. jobs = <<>> => jobs' = <<>>
        BY <2>2, TakeCases
      <3>3. CASE Goto(w, "lock") \/ Goto(w, "upsert")
        BY <2>1, <3>2, <3>3 DEF EndsLast, Goto, BatchTypeOK
      <3>4. CASE cancelled
        BY <2>1, <3>4 DEF EndsLast, CancelledWithCause
      <3>5. CASE jobs' = <<>>
        BY <3>5 DEF EndsLast
      <3> QED BY <3>1, <3>3, <3>4, <3>5
    <2>3. ASSUME NEW l, Goto(w, l), l # "done", jobs' = jobs PROVE EndsLast'
      BY <2>1, <2>3 DEF EndsLast, Goto, BatchTypeOK
    <2>4. CASE Lock(w) \/ StartAssessment(w) \/ Assessed(w)
      BY <2>3, <2>4 DEF Lock, StartAssessment, Assessed, EndAssessment
    <2>5. CASE GiveUpWaiting(w) \/ AssessmentFails(w)
      BY <2>3, <2>5 DEF GiveUpWaiting, AssessmentFails, EndAssessment, Finish
    <2>6. CASE Write(w) \/ WriteFails(w) \/ Send(w)
      BY <2>3, <2>6 DEF Write, WriteFails, Send, Finish
    <2> QED
      BY <1>1, <2>2, <2>4, <2>5, <2>6 DEF WorkerStep
  <1>2. CASE Handle \/ Return
    BY <1>2 DEF EndsLast, Handle, Return, pool
  <1>3. CASE Receive \/ Shutdown \/ CooldownEnds \/ Returned
    BY <1>3 DEF EndsLast, Receive, Shutdown, CooldownEnds, Returned, pool, consuming, vars
  <1> QED
    BY <1>1, <1>2, <1>3 DEF Next, ConsumerStep

LEMMA ReturnsLastStep ==
  ASSUME ReturnsLast, Next
  PROVE  ReturnsLast'
  <1>1. ASSUME NEW w \in Workers, WorkerStep(w) PROVE ReturnsLast'
    BY <1>1, WorkerKinds DEF ReturnsLast
  <1>2. CASE Receive \/ Handle \/ Return
    BY <1>2 DEF ReturnsLast, Receive, Handle, Return, pool
  <1>3. CASE Shutdown \/ CooldownEnds \/ Returned
    BY <1>3 DEF ReturnsLast, Shutdown, CooldownEnds, Returned, pool, consuming, vars
  <1> QED
    BY <1>1, <1>2, <1>3 DEF Next, ConsumerStep

LEMMA CancelledWithCauseStep ==
  ASSUME BatchTypeOK, CancelledWithCause, Next
  PROVE  CancelledWithCause'
  <1>1. ASSUME NEW w \in Workers, WorkerStep(w) PROVE CancelledWithCause'
    BY <1>1, WorkerKinds DEF CancelledWithCause
  <1>2. CASE Handle
    BY <1>2 DEF CancelledWithCause, Handle
  <1>3. CASE Receive \/ Return
    BY <1>3 DEF CancelledWithCause, Receive, Return
  <1>4. CASE Shutdown \/ CooldownEnds \/ Returned
    BY <1>4 DEF CancelledWithCause, Shutdown, CooldownEnds, Returned, consuming, vars
  <1> QED
    BY <1>1, <1>2, <1>3, <1>4 DEF Next, ConsumerStep

LEMMA ContextHasCauseStep ==
  ASSUME BatchTypeOK, SlotsInUse, ReturnsLast, CancelledWithCause, ContextHasCause, Next
  PROVE  ContextHasCause'
  <1>1. ASSUME NEW w \in Workers, WorkerStep(w) PROVE ContextHasCause'
    <2>1. UNCHANGED <<runErr, stopping, received>> /\ consumer # "returned"
      BY <1>1, WorkerKinds DEF ReturnsLast
    <2>2. CASE UNCHANGED <<result, results>>
      BY <2>1, <2>2, QuietKeepsOnTheWay DEF ContextHasCause
    <2>3. ASSUME NEW s \in Statuses, Finish(w, Ok(s)), pc[w] # "send", UNCHANGED results
          PROVE  ContextHasCause'
      BY <2>1, <2>3, FinishOnTheWay, ResultTypes DEF ContextHasCause
    <2>4. ASSUME NEW e \in Errors, Finish(w, Err(e)), pc[w] # "send", UNCHANGED results,
                 e = "context" => cancelled
          PROVE  ContextHasCause'
      BY <2>1, <2>4, FinishOnTheWay, ResultTypes DEF ContextHasCause, CancelledWithCause
    <2>5. CASE Send(w)
      BY <2>1, <2>5, SendOnTheWay, ResultTypes DEF ContextHasCause
    <2> QED
      BY <1>1, <2>2, <2>3, <2>4, <2>5, WorkerKinds
  <1>2. CASE Receive
    BY <1>2, ReceiveOnTheWay DEF ContextHasCause, Receive
  <1>3. CASE Handle
    <2>1. received \in OnTheWay
      BY DEF OnTheWay
    <2> QED
      BY <1>3, <2>1, HandleOnTheWay, ResultTypes DEF ContextHasCause, Handle
  <1>4. CASE Return
    BY <1>4, QuietKeepsOnTheWay DEF ContextHasCause, Return, pool
  <1>5. CASE Shutdown \/ CooldownEnds \/ Returned
    BY <1>5, QuietKeepsOnTheWay
    DEF ContextHasCause, Shutdown, CooldownEnds, Returned, pool, consuming, vars
  <1> QED
    BY <1>1, <1>2, <1>3, <1>4, <1>5 DEF Next, ConsumerStep

LEMMA ErrorsArriveStep ==
  ASSUME BatchTypeOK, SlotsInUse, ErrorsArrive, Next
  PROVE  ErrorsArrive'
  <1>1. ASSUME NEW w \in Workers, WorkerStep(w) PROVE ErrorsArrive'
    <2>1. UNCHANGED <<runErr, received>>
      BY <1>1, WorkerKinds
    <2>2. CASE UNCHANGED <<result, results, realErrors>>
      BY <2>1, <2>2, QuietKeepsOnTheWay DEF ErrorsArrive
    <2>3. ASSUME NEW s \in Statuses, Finish(w, Ok(s)), pc[w] # "send",
                 UNCHANGED <<results, realErrors>>
          PROVE  ErrorsArrive'
      BY <2>1, <2>3, FinishOnTheWay, ResultTypes DEF ErrorsArrive
    <2>4. ASSUME NEW e \in Errors, Finish(w, Err(e)), pc[w] # "send", UNCHANGED results
          PROVE  ErrorsArrive'
      BY <2>1, <2>4, FinishOnTheWay, ResultTypes DEF ErrorsArrive, Errors
    <2>5. CASE Send(w) /\ UNCHANGED realErrors
      BY <2>1, <2>5, SendOnTheWay DEF ErrorsArrive
    <2> QED
      BY <1>1, <2>2, <2>3, <2>4, <2>5, WorkerKinds
  <1>2. CASE Receive
    BY <1>2, ReceiveOnTheWay, ResultTypes DEF ErrorsArrive, Receive, history
  <1>3. CASE Handle
    BY <1>3, HandleOnTheWay DEF ErrorsArrive, Handle, history
  <1>4. CASE Return
    BY <1>4, QuietKeepsOnTheWay DEF ErrorsArrive, Return, pool, history
  <1>5. CASE Shutdown \/ CooldownEnds \/ Returned
    BY <1>5, QuietKeepsOnTheWay
    DEF ErrorsArrive, Shutdown, CooldownEnds, Returned, pool, consuming, history, vars
  <1> QED
    BY <1>1, <1>2, <1>3, <1>4, <1>5 DEF Next, ConsumerStep

-----------------------------------------------------------------------------
(* Counting the jobs.                                                      *)

LEMMA ActiveIsFinite == IsFiniteSet(Active) /\ Cardinality(Active) \in Nat
  <1>1. Active \subseteq Workers
    BY DEF Active
  <1> QED
    BY <1>1, WorkersAssumption, FS_Subset, FS_CardinalityType

LEMMA ActiveChanges ==
  ASSUME BatchTypeOK, NEW w \in Workers, NEW l, Goto(w, l)
  PROVE  /\ (l \in Working <=> pc[w] \in Working) => Active' = Active
         /\ l \in Working /\ pc[w] \notin Working =>
              Cardinality(Active') = Cardinality(Active) + 1
         /\ l \notin Working /\ pc[w] \in Working =>
              Cardinality(Active') = Cardinality(Active) - 1
  <1>1. l \in Working => Active' = Active \cup {w}
    BY DEF Active, Goto, BatchTypeOK
  <1>2. l \notin Working => Active' = Active \ {w}
    BY DEF Active, Goto, BatchTypeOK
  <1>3. w \in Active <=> pc[w] \in Working
    BY DEF Active
  <1>4. w \notin Active => Cardinality(Active \cup {w}) = Cardinality(Active) + 1
    BY ActiveIsFinite, FS_AddElement
  <1>5. w \in Active => Cardinality(Active \ {w}) = Cardinality(Active) - 1
    BY ActiveIsFinite, FS_RemoveElement
  <1>6. w \in Active => Active \cup {w} = Active
    OBVIOUS
  <1>7. w \notin Active => Active \ {w} = Active
    OBVIOUS
  <1> QED
    BY <1>1, <1>2, <1>3, <1>4, <1>5, <1>6, <1>7

LEMMA PlacesType ==
  ASSUME BatchTypeOK
  PROVE  Len(jobs) \in Nat /\ Len(results) \in Nat /\ InHand \in 0..1 /\ Handled \in Nat
  BY DEF BatchTypeOK, InHand, Handled, Statuses

(* A worker moves its job, or drops it when the pool is cancelled.         *)
LEMMA WorkerPlaces ==
  ASSUME BatchTypeOK, NEW w \in Workers, WorkerStep(w)
  PROVE  Places' = Places \/ (cancelled /\ Places' = Places - 1)
  <1>1. InHand' = InHand /\ Handled' = Handled
    BY WorkerKinds DEF InHand, Handled
  <1>2. Len(jobs) \in Nat /\ Len(results) \in Nat /\ Cardinality(Active) \in Nat
        /\ InHand \in 0..1 /\ Handled \in Nat
    BY PlacesType, ActiveIsFinite
  <1>3. CASE Take(w)
    <2>1. pc[w] \notin Working /\ results' = results
      BY <1>3 DEF Take, Working
    <2>2. jobs # <<>> => Len(Tail(jobs)) = Len(jobs) - 1
      BY DEF BatchTypeOK
    <2>3. CASE jobs' = jobs /\ Goto(w, "done")
      BY <1>1, <2>1, <2>3, ActiveChanges DEF Places, Working
    <2>4. CASE cancelled = TRUE /\ jobs # <<>> /\ jobs' = Tail(jobs) /\ Goto(w, "done")
      <3>1. Active' = Active
        BY <2>1, <2>4, ActiveChanges DEF Working
      <3> QED
        BY <1>1, <1>2, <2>1, <2>2, <2>4, <3>1 DEF Places
    <2>5. CASE jobs # <<>> /\ jobs' = Tail(jobs) /\ (Goto(w, "lock") \/ Goto(w, "upsert"))
      <3>1. Cardinality(Active') = Cardinality(Active) + 1
        BY <2>1, <2>5, ActiveChanges DEF Working
      <3> QED
        BY <1>1, <1>2, <2>1, <2>2, <2>5, <3>1 DEF Places
    <2> QED
      BY <1>3, <2>3, <2>4, <2>5, TakeCases
  <1>4. ASSUME NEW l \in Working, Goto(w, l), pc[w] \in Working, UNCHANGED <<jobs, results>>
        PROVE  Places' = Places
    BY <1>1, <1>4, ActiveChanges DEF Places
  <1>5. CASE Lock(w) \/ StartAssessment(w) \/ Assessed(w)
    <2>1. pc[w] \in Working /\ UNCHANGED <<jobs, results>>
      BY <1>5 DEF Lock, StartAssessment, Assessed, EndAssessment, Working
    <2>2. \E l \in Working : Goto(w, l)
      BY <1>5 DEF Lock, StartAssessment, Assessed, Working
    <2> QED BY <1>4, <2>1, <2>2
  <1>6. CASE GiveUpWaiting(w) \/ AssessmentFails(w) \/ Write(w) \/ WriteFails(w)
    <2>1. pc[w] \in Working /\ UNCHANGED <<jobs, results>>
      BY <1>6 DEF GiveUpWaiting, AssessmentFails, EndAssessment, Write, WriteFails, Working
    <2>2. Goto(w, "send") /\ "send" \in Working
      BY <1>6 DEF GiveUpWaiting, AssessmentFails, EndAssessment, Write, WriteFails, Working,
                  Finish
    <2> QED BY <1>4, <2>1, <2>2
  <1>7. CASE Send(w)
    <2>1. pc[w] \in Working /\ Goto(w, "take") /\ "take" \notin Working /\ jobs' = jobs
      BY <1>7 DEF Send, Working
    <2>2. Cardinality(Active') = Cardinality(Active) - 1
      BY <2>1, ActiveChanges
    <2>3. Len(results') = Len(results) + 1
      <3>1. results \in Seq(Result) /\ result[w] \in Result /\ results' = Append(results, result[w])
        BY <1>7 DEF Send, BatchTypeOK
      <3> QED BY <3>1, AppendProperties
    <2> QED
      BY <1>1, <1>2, <2>1, <2>2, <2>3 DEF Places
  <1> QED
    BY <1>3, <1>5, <1>6, <1>7 DEF WorkerStep

LEMMA AllCountedStep ==
  ASSUME BatchTypeOK, SlotsInUse, ReturnsLast, CancelledWithCause, AllCounted, Next
  PROVE  AllCounted'
  <1>1. Len(jobs) \in Nat /\ Len(results) \in Nat /\ Cardinality(Active) \in Nat
        /\ InHand \in 0..1 /\ Handled \in Nat
    BY PlacesType, ActiveIsFinite
  <1>2. Places \in Nat
    BY <1>1 DEF Places
  <1>3. ASSUME NEW w \in Workers, WorkerStep(w) PROVE AllCounted'
    <2>1. UNCHANGED <<runErr, stopping, consumer>> /\ consumer # "returned"
      BY <1>3, WorkerKinds DEF ReturnsLast
    <2>2. cancelled => ~(runErr = "none" /\ ~stopping)
      BY <2>1 DEF CancelledWithCause
    <2>3. Places' = Places \/ (cancelled /\ Places' = Places - 1)
      BY <1>3, WorkerPlaces
    <2> QED
      BY <1>2, <2>1, <2>2, <2>3, JobCountAssumption DEF AllCounted
  <1>4. CASE Receive
    <2>1. InHand = 0 /\ InHand' = 1 /\ Handled' = Handled /\ Active' = Active /\ jobs' = jobs
      BY <1>4 DEF Receive, InHand, Handled, Active
    <2>2. Len(results') = Len(results) - 1
      BY <1>4 DEF Receive, BatchTypeOK
    <2>3. Places' = Places
      BY <1>1, <2>1, <2>2 DEF Places
    <2> QED
      BY <1>4, <2>3 DEF AllCounted, Receive
  <1>5. CASE Handle
    <2>1. /\ InHand = 1 /\ InHand' = 0 /\ Active' = Active
          /\ UNCHANGED <<jobs, results, stopping>>
      BY <1>5 DEF Handle, InHand, Active, pool
    <2>2. /\ received.status \in Statuses \cup {"none"}
          /\ received.err = "none" => received.status \in Statuses
      BY <1>5, ResultTypes DEF BatchTypeOK, SlotsInUse, Handle, Result
    <2>3. IF received.status = "none" THEN Handled' = Handled ELSE Handled' = Handled + 1
      BY <1>5, <2>2 DEF Handle, Count, Handled, BatchTypeOK, Statuses
    <2>4. Places' = Places \/ (received.err # "none" /\ Places' = Places - 1)
      BY <1>1, <2>1, <2>2, <2>3 DEF Places, Statuses
    <2>5. runErr' = "none" => runErr = "none" /\ received.err = "none"
      BY <1>5 DEF Handle
    <2> QED
      BY <1>2, <2>1, <2>4, <2>5, JobCountAssumption DEF AllCounted
  <1>6. ASSUME UNCHANGED <<jobs, pc, results, stats>>, InHand' = InHand,
               runErr' = "none" /\ ~stopping' => runErr = "none" /\ ~stopping
        PROVE  AllCounted'
    <2>1. Places' = Places
      BY <1>6 DEF Places, Active, Handled
    <2> QED
      BY <1>6, <2>1 DEF AllCounted
  <1>7. CASE Return \/ Shutdown \/ CooldownEnds \/ Returned
    BY <1>6, <1>7
    DEF Return, Shutdown, CooldownEnds, Returned, InHand, pool, consuming, vars
  <1> QED
    BY <1>3, <1>4, <1>5, <1>7 DEF Next, ConsumerStep

LEMMA UndisturbedBefore ==
  ASSUME BatchTypeOK, SlotsInUse, Next, Undisturbed'
  PROVE  Undisturbed
  <1>1. ASSUME NEW w \in Workers, WorkerStep(w) PROVE OnTheWay \subseteq OnTheWay' \cup {NoResult}
    <2>1. UNCHANGED received
      BY <1>1, WorkerKinds
    <2>2. CASE UNCHANGED <<result, results>>
      BY <2>1, <2>2, QuietKeepsOnTheWay
    <2>3. ASSUME NEW r, Finish(w, r), pc[w] # "send", UNCHANGED results
          PROVE  OnTheWay \subseteq OnTheWay' \cup {NoResult}
      BY <1>1, <2>1, <2>3, FinishOnTheWay
    <2>4. CASE Send(w)
      BY <1>1, <2>4, SendOnTheWay
    <2> QED
      BY <1>1, <2>2, <2>3, <2>4, WorkerKinds
  <1>2. CASE Receive
    BY <1>2, ReceiveOnTheWay, ResultTypes DEF Undisturbed, Receive
  <1>3. CASE Handle
    <2>1. runErr = "none" /\ received.err = "none" /\ ~stopping
      BY <1>3 DEF Undisturbed, Handle
    <2> QED
      BY <1>3, <2>1, HandleOnTheWay DEF Undisturbed
  <1>4. CASE Return \/ Shutdown \/ CooldownEnds \/ Returned
    <2>1. UNCHANGED <<result, results, received>>
      BY <1>4 DEF Return, Shutdown, CooldownEnds, Returned, pool, consuming, vars
    <2>2. runErr = "none" /\ ~stopping
      BY <1>4 DEF Undisturbed, Return, Shutdown, CooldownEnds, Returned, consuming, vars
    <2> QED
      BY <2>1, <2>2, QuietKeepsOnTheWay DEF Undisturbed
  <1>5. ASSUME NEW w \in Workers, WorkerStep(w) PROVE Undisturbed
    BY <1>1, <1>5, WorkerKinds, ResultTypes DEF Undisturbed
  <1> QED
    BY <1>2, <1>3, <1>4, <1>5 DEF Next, ConsumerStep

(* Jobs stay decided or with the worker that has them.                     *)
LEMMA KeptDecided ==
  ASSUME AllDecided, Len(jobs') = Len(jobs), decided \subseteq decided',
         \A w \in Active : (w \in Active' /\ job'[w] = job[w]) \/ job[w] \in decided',
         Undisturbed' => Undisturbed
  PROVE  Undisturbed' => \A j \in 1..(JobCount - Len(jobs')) :
                           j \in decided' \/ \E w \in Active' : job'[w] = j
  BY DEF AllDecided

LEMMA AllDecidedWorker ==
  ASSUME BatchTypeOK, SlotsInUse, JobsInOrder, ReturnsLast, CancelledWithCause, AllDecided,
         Next, NEW w \in Workers, WorkerStep(w)
  PROVE  AllDecided'
  <1>1. Undisturbed' => Undisturbed
    BY UndisturbedBefore
  <1>2. Undisturbed => ~cancelled
    BY WorkerKinds DEF Undisturbed, CancelledWithCause, ReturnsLast
  <1>3. ASSUME NEW l \in Working, Goto(w, l), pc[w] \in Working
        PROVE  Active' = Active
    BY <1>3, ActiveChanges
  <1>4. CASE Take(w)
    <2>1. /\ pc[w] = "take" /\ w \notin Active
          /\ UNCHANGED <<decided, result>>
      BY <1>4 DEF Take, Active, Working, history
    <2>2. \A v \in Workers : pc'[v] = "send" /\ result'[v].err = "none" => job'[v] \in decided'
      <3>1. \A v \in Workers : pc'[v] = "send" => pc[v] = "send" /\ v # w /\ job'[v] = job[v]
        BY <1>4, TakeCases DEF BatchTypeOK, Goto
      <3> QED BY <2>1, <3>1 DEF AllDecided
    <2>3. CASE jobs' = jobs /\ job' = job /\ Goto(w, "done")
      <3>1. Active' = Active
        BY <2>1, <2>3, ActiveChanges DEF Working
      <3> QED
        BY <1>1, <2>1, <2>2, <2>3, <3>1, KeptDecided DEF AllDecided
    <2>4. CASE cancelled = TRUE
      BY <1>1, <1>2, <2>2, <2>4 DEF AllDecided
    <2>5. CASE /\ jobs # <<>> /\ jobs' = Tail(jobs)
               /\ job' = [job EXCEPT ![w] = Head(jobs)]
               /\ Goto(w, "lock") \/ Goto(w, "upsert")
      <3>1. /\ Len(jobs') = Len(jobs) - 1 /\ Len(jobs) \in Nat \ {0}
            /\ Head(jobs) = JobCount - Len(jobs) + 1
        BY <2>5 DEF BatchTypeOK, JobsInOrder
      <3>2. w \in Active' /\ job'[w] = JobCount - Len(jobs')
        BY <2>5, <3>1, JobCountAssumption DEF BatchTypeOK, Active, Goto, Working
      <3>3. \A v \in Active : v \in Active' /\ job'[v] = job[v]
        BY <2>1, <2>5 DEF BatchTypeOK, Active, Goto, Working
      <3>4. \A j \in 1..(JobCount - Len(jobs')) :
              j = JobCount - Len(jobs') \/ j \in 1..(JobCount - Len(jobs))
        BY <3>1, JobCountAssumption
      <3> QED
        BY <1>1, <2>1, <2>2, <3>2, <3>3, <3>4 DEF AllDecided
    <2> QED
      BY <1>4, <2>3, <2>4, <2>5, TakeCases
  <1>5. CASE Lock(w) \/ StartAssessment(w) \/ Assessed(w)
    <2>1. PICK l \in Working : Goto(w, l) /\ l # "send"
      BY <1>5 DEF Lock, StartAssessment, Assessed, Working
    <2>2. pc[w] \in Working /\ UNCHANGED <<jobs, job, result, decided>>
      BY <1>5 DEF Lock, StartAssessment, Assessed, EndAssessment, Working, history
    <2>3. \A v \in Workers : pc'[v] = "send" => pc[v] = "send"
      BY <2>1 DEF BatchTypeOK, Goto
    <2> QED
      BY <1>1, <1>3, <2>1, <2>2, <2>3, KeptDecided DEF AllDecided
  <1>6. ASSUME NEW r, Finish(w, r), pc[w] \in Working, UNCHANGED <<jobs, job>>,
               \/ decided' = decided \cup {job[w]}
               \/ decided' = decided /\ r.err # "none"
        PROVE  AllDecided'
    <2>1. Active' = Active
      BY <1>3, <1>6 DEF Finish, Working
    <2>2. \A v \in Workers : pc'[v] = "send" /\ result'[v].err = "none" => job'[v] \in decided'
      BY <1>6 DEF Finish, Goto, BatchTypeOK, AllDecided
    <2> QED
      BY <1>1, <1>6, <2>1, <2>2, KeptDecided DEF AllDecided
  <1>7. CASE Send(w)
    <2>1. \A v \in Workers : pc'[v] = "send" => v # w /\ pc[v] = "send"
      BY <1>7 DEF Send, Goto, BatchTypeOK
    <2>2. UNCHANGED <<jobs, decided>> /\ result[w] \in OnTheWay /\ pc[w] = "send"
      BY <1>7 DEF Send, OnTheWay, history
    <2>3. \A v \in Workers \ {w} : job'[v] = job[v] /\ result'[v] = result[v]
                                   /\ (v \in Active => v \in Active')
      BY <1>7 DEF Send, Goto, BatchTypeOK, Active
    <2>4. Undisturbed => job[w] \in decided
      BY <2>2 DEF Undisturbed, AllDecided
    <2>5. \A v \in Workers : pc'[v] = "send" /\ result'[v].err = "none" => job'[v] \in decided'
      BY <2>1, <2>2, <2>3 DEF AllDecided
    <2>6. CASE Undisturbed'
      <3>1. \A v \in Active : (v \in Active' /\ job'[v] = job[v]) \/ job[v] \in decided'
        BY <1>1, <2>2, <2>3, <2>4, <2>6 DEF Active
      <3> QED
        BY <1>1, <2>2, <2>5, <3>1, KeptDecided DEF AllDecided
    <2> QED
      BY <2>5, <2>6 DEF AllDecided
  <1>8. CASE GiveUpWaiting(w) \/ AssessmentFails(w) \/ Write(w) \/ WriteFails(w)
    <2>1. pc[w] \in Working /\ UNCHANGED <<jobs, job>>
      BY <1>8 DEF GiveUpWaiting, AssessmentFails, EndAssessment, Write, WriteFails, Working
    <2>2. CASE Write(w)
      <3>1. \E s \in Statuses : Finish(w, Ok(s))
        BY <2>2 DEF Write, Statuses
      <3> QED BY <1>6, <2>1, <2>2, <3>1 DEF Write
    <2>3. CASE GiveUpWaiting(w) \/ AssessmentFails(w) \/ WriteFails(w)
      <3>1. \E e \in Errors : Finish(w, Err(e))
        BY <2>3 DEF GiveUpWaiting, AssessmentFails, WriteFails, Errors
      <3>2. decided' = decided
        BY <2>3 DEF GiveUpWaiting, AssessmentFails, WriteFails, history
      <3>3. \A e \in Errors : Err(e).err # "none"
        BY ResultTypes DEF Errors
      <3> QED BY <1>6, <2>1, <3>1, <3>2, <3>3
    <2> QED BY <1>8, <2>2, <2>3
  <1> QED
    BY <1>4, <1>5, <1>7, <1>8 DEF WorkerStep

LEMMA AllDecidedStep ==
  ASSUME BatchTypeOK, SlotsInUse, JobsInOrder, ReturnsLast, CancelledWithCause, AllDecided, Next
  PROVE  AllDecided'
  <1>1. Undisturbed' => Undisturbed
    BY UndisturbedBefore
  <1>2. ASSUME UNCHANGED <<jobs, pc, job, result, decided>> PROVE AllDecided'
    BY <1>1, <1>2 DEF AllDecided, Active
  <1>3. CASE Receive \/ Handle \/ Return \/ Shutdown \/ CooldownEnds \/ Returned
    BY <1>2, <1>3
    DEF Receive, Handle, Return, Shutdown, CooldownEnds, Returned, pool, history, vars
  <1> QED
    BY <1>3, AllDecidedWorker DEF Next, ConsumerStep

-----------------------------------------------------------------------------
(* The gate and the cooldown.                                              *)

LEMMA GateHeldStep ==
  ASSUME BatchTypeOK, GateHeld, Next
  PROVE  GateHeld'
  <1> USE DEF BatchTypeOK, GateHeld
  <1>1. ASSUME NEW w \in Workers, WorkerStep(w) PROVE GateHeld'
    <2>1. CASE Take(w)
      <3>1. gate' = gate /\ pc[w] = "take"
        BY <2>1 DEF Take
      <3> QED BY <2>1, <3>1, TakeCases DEF Goto
    <2>2. CASE Lock(w)
      BY <1>1, <2>2, NoWorkerAssumption DEF Lock, Goto
    <2>3. CASE GiveUpWaiting(w) \/ Assessed(w) \/ AssessmentFails(w)
      <3>1. /\ gate = w /\ gate' = NoWorker
            /\ \E l : Goto(w, l) /\ l \notin {"wait", "audit"}
        <4> HIDE DEF BatchTypeOK
        <4>1. pc[w] \in {"wait", "audit"} /\ gate' = NoWorker
          BY <2>3 DEF GiveUpWaiting, Assessed, AssessmentFails, EndAssessment
        <4>2. \E l : Goto(w, l) /\ l \notin {"wait", "audit"}
          BY <2>3 DEF GiveUpWaiting, Assessed, AssessmentFails, Finish
        <4> QED BY <1>1, <4>1, <4>2
      <3>2. \A v \in Workers : pc'[v] \notin {"wait", "audit"}
        BY <1>1, <3>1 DEF Goto
      <3> QED BY <3>1, <3>2, NoWorkerAssumption
    <2>4. CASE StartAssessment(w)
      BY <1>1, <2>4 DEF StartAssessment, Goto
    <2>5. CASE Write(w) \/ WriteFails(w) \/ Send(w)
      <3>1. gate' = gate /\ pc[w] \notin {"wait", "audit"}
        BY <2>5 DEF Write, WriteFails, Send
      <3>2. \E l : Goto(w, l) /\ l \notin {"wait", "audit"}
        <4> HIDE DEF BatchTypeOK, GateHeld
        <4> QED BY <2>5 DEF Write, WriteFails, Send, Finish
      <3> QED BY <1>1, <3>1, <3>2 DEF Goto
    <2> QED
      BY <1>1, <2>1, <2>2, <2>3, <2>4, <2>5 DEF WorkerStep
  <1>2. CASE Receive \/ Handle \/ Return \/ Shutdown \/ CooldownEnds \/ Returned
    BY <1>2 DEF Receive, Handle, Return, Shutdown, CooldownEnds, Returned, pool, vars
  <1> QED
    BY <1>1, <1>2 DEF Next, ConsumerStep

LEMMA RestKnownStep ==
  ASSUME BatchTypeOK, RestKnown, Next
  PROVE  RestKnown'
  <1>1. ASSUME NEW w \in Workers, WorkerStep(w) PROVE RestKnown'
    <2>1. CASE StartAssessment(w)
      BY <1>1, <2>1 DEF StartAssessment, Goto, BatchTypeOK, RestKnown
    <2>2. CASE Assessed(w) \/ AssessmentFails(w)
      BY <2>2 DEF Assessed, AssessmentFails, EndAssessment, RestKnown
    <2>3. ASSUME pc[w] # "audit", NEW l, Goto(w, l), UNCHANGED <<cooling, rested>>
          PROVE  RestKnown'
      BY <1>1, <2>3 DEF Goto, BatchTypeOK, RestKnown
    <2>4. CASE Take(w) \/ Lock(w)
      BY <2>3, <2>4 DEF Take, Lock, history
    <2>5. CASE GiveUpWaiting(w) \/ Write(w) \/ WriteFails(w) \/ Send(w)
      BY <2>3, <2>5 DEF GiveUpWaiting, Write, WriteFails, Send, Finish, history
    <2> QED
      BY <1>1, <2>1, <2>2, <2>4, <2>5 DEF WorkerStep
  <1>2. CASE Receive \/ Handle \/ Return \/ Shutdown \/ CooldownEnds \/ Returned
    BY <1>2
    DEF RestKnown, Receive, Handle, Return, Shutdown, CooldownEnds, Returned, pool, history, vars
  <1> QED
    BY <1>1, <1>2 DEF Next, ConsumerStep

LEMMA FailureOutlastedStep ==
  ASSUME BatchTypeOK, SlotsInUse, CancelledWithCause, FailureOutlasted, Next
  PROVE  FailureOutlasted'
  <1>1. ASSUME NEW w \in Workers, WorkerStep(w) PROVE FailureOutlasted'
    <2>1. UNCHANGED <<cancelled, received>>
      BY <1>1, WorkerKinds
    <2>2. cooling => cooling'
      BY <1>1
      DEF WorkerStep, Take, Lock, GiveUpWaiting, StartAssessment, Assessed, AssessmentFails,
          EndAssessment, Write, WriteFails, Send
    <2>3. CASE AssessmentFails(w)
      <3>1. cooling' = TRUE /\ pc[w] # "send" /\ results' = results
        BY <2>3 DEF AssessmentFails, EndAssessment
      <3>2. \E e \in Errors : Finish(w, Err(e))
        BY <2>3 DEF AssessmentFails, Errors
      <3>3. \E r \in OnTheWay' : r.err # "none"
        BY <1>1, <2>1, <3>1, <3>2, FinishOnTheWay, ResultTypes DEF Errors
      <3> QED BY <3>1, <3>3 DEF FailureOutlasted
    <2>4. ASSUME aiFailed' = aiFailed, OnTheWay \subseteq OnTheWay' \cup {NoResult}
          PROVE  FailureOutlasted'
      BY <2>1, <2>2, <2>4, ResultTypes DEF FailureOutlasted
    <2>5. CASE UNCHANGED <<result, results>>
      BY <1>1, <2>1, <2>3, <2>4, <2>5, QuietKeepsOnTheWay
      DEF WorkerStep, Take, Lock, GiveUpWaiting, StartAssessment, Assessed, Write, WriteFails,
          Send, history
    <2>6. CASE GiveUpWaiting(w) \/ Write(w) \/ WriteFails(w)
      <3>1. UNCHANGED <<results, aiFailed>> /\ pc[w] # "send" /\ \E r : Finish(w, r)
        BY <2>6 DEF GiveUpWaiting, Write, WriteFails, history
      <3> QED BY <1>1, <2>1, <2>4, <3>1, FinishOnTheWay
    <2>7. CASE Send(w)
      BY <1>1, <2>4, <2>7, SendOnTheWay DEF Send, history
    <2>8. CASE Take(w) \/ Lock(w) \/ StartAssessment(w) \/ Assessed(w)
      BY <2>5, <2>8
      DEF Take, Lock, StartAssessment, Assessed, EndAssessment, history
    <2> QED
      BY <1>1, <2>3, <2>6, <2>7, <2>8 DEF WorkerStep
  <1>2. CASE Receive
    BY <1>2, ReceiveOnTheWay, ResultTypes DEF FailureOutlasted, Receive, history
  <1>3. CASE Handle
    <2>1. cancelled => cancelled'
      BY <1>3 DEF Handle
    <2>2. received.err # "none" => cancelled'
      BY <1>3 DEF Handle, CancelledWithCause
    <2> QED
      BY <1>3, <2>1, <2>2, HandleOnTheWay DEF FailureOutlasted, Handle, pool, history
  <1>4. CASE Return \/ Shutdown
    BY <1>4 DEF FailureOutlasted, Return, Shutdown
  <1>5. CASE CooldownEnds
    <2>1. CASE LongCooldown
      <3>1. \A r \in OnTheWay : r = NoResult
        BY <1>5, <2>1 DEF CooldownEnds, SlotsInUse, OnTheWay
      <3>2. UNCHANGED <<aiFailed, cancelled>>
        BY <1>5 DEF CooldownEnds
      <3> QED BY <3>1, <3>2, ResultTypes DEF FailureOutlasted
    <2> QED BY <2>1 DEF FailureOutlasted
  <1>6. CASE Returned
    BY <1>6, QuietKeepsOnTheWay DEF FailureOutlasted, Returned, vars
  <1> QED
    BY <1>1, <1>2, <1>3, <1>4, <1>5, <1>6 DEF Next, ConsumerStep

-----------------------------------------------------------------------------
(* The theorems.                                                           *)

LEMMA InitInv == Init => BatchInv
  <1> SUFFICES ASSUME Init PROVE BatchInv
    OBVIOUS
  <1>1. BatchTypeOK
    BY InitType
  <1>2. Len(results) = 0 /\ Len(jobs) = JobCount /\ (\A i \in 1..JobCount : jobs[i] = i)
    BY JobCountAssumption DEF Init
  <1>3. \A r \in OnTheWay : r = NoResult
    BY <1>2 DEF Init, OnTheWay
  <1>4. SlotsInUse /\ JobsInOrder /\ EndsLast /\ ReturnsLast /\ CancelledWithCause
    BY <1>2, JobCountAssumption
    DEF Init, SlotsInUse, JobsInOrder, EndsLast, ReturnsLast, CancelledWithCause
  <1>5. ContextHasCause /\ ErrorsArrive /\ FailureOutlasted
    BY <1>3, ResultTypes DEF Init, ContextHasCause, ErrorsArrive, FailureOutlasted
  <1>6. AllCounted
    <2>1. Active = {}
      BY DEF Init, Active, Working
    <2>2. Cardinality(Active) = 0 /\ Handled = 0 /\ InHand = 0
      BY <2>1, FS_EmptySet DEF Init, Handled, InHand, Statuses
    <2> QED
      BY <1>2, <2>2, JobCountAssumption DEF AllCounted, Places
  <1>7. AllDecided
    BY <1>2, JobCountAssumption DEF Init, AllDecided
  <1>8. GateHeld
    BY NoWorkerAssumption DEF Init, GateHeld
  <1>9. RestKnown
    BY DEF Init, RestKnown
  <1> QED
    BY <1>1, <1>4, <1>5, <1>6, <1>7, <1>8, <1>9 DEF BatchInv

LEMMA StepInv == BatchInv /\ [Next]_vars => BatchInv'
  <1> SUFFICES ASSUME BatchInv, [Next]_vars PROVE BatchInv'
    OBVIOUS
  <1>1. CASE Next
    <2>1. BatchTypeOK' /\ SlotsInUse' /\ JobsInOrder' /\ ReturnsLast' /\ CancelledWithCause'
      BY <1>1, NextType, SlotsInUseStep, JobsInOrderStep, ReturnsLastStep,
         CancelledWithCauseStep DEF BatchInv
    <2>2. ContextHasCause' /\ ErrorsArrive' /\ AllCounted' /\ AllDecided'
      BY <1>1, ContextHasCauseStep, ErrorsArriveStep, AllCountedStep, AllDecidedStep DEF BatchInv
    <2>3. EndsLast' /\ GateHeld' /\ RestKnown' /\ FailureOutlasted'
      BY <1>1, EndsLastStep, GateHeldStep, RestKnownStep, FailureOutlastedStep DEF BatchInv
    <2> QED
      BY <2>1, <2>2, <2>3 DEF BatchInv
  <1>2. CASE UNCHANGED vars
    <2>1. BatchTypeOK'
      BY <1>2, NextType DEF BatchInv
    <2>2. SlotsInUse' /\ JobsInOrder' /\ EndsLast' /\ ReturnsLast' /\ CancelledWithCause'
      BY <1>2
      DEF vars, BatchInv, SlotsInUse, JobsInOrder, EndsLast, ReturnsLast, CancelledWithCause
    <2>3. OnTheWay' = OnTheWay /\ Active' = Active /\ Places' = Places
      BY <1>2 DEF vars, OnTheWay, Active, Places, InHand, Handled
    <2>4. ContextHasCause' /\ ErrorsArrive' /\ AllCounted' /\ FailureOutlasted'
      BY <1>2, <2>3
      DEF vars, BatchInv, ContextHasCause, ErrorsArrive, AllCounted, FailureOutlasted
    <2>5. AllDecided' /\ GateHeld' /\ RestKnown'
      BY <1>2, <2>3 DEF vars, BatchInv, AllDecided, Undisturbed, GateHeld, RestKnown
    <2> QED
      BY <2>1, <2>2, <2>4, <2>5 DEF BatchInv
  <1> QED
    BY <1>1, <1>2

(* The inductive invariant of the pool of indexer.go:175, from which the   *)
(* theorems below are drawn.                                               *)
THEOREM BatchInvariant == Spec => []BatchInv
  BY InitInv, StepInv, PTL DEF Spec

(* The statistics never exceed the jobs: the sum they are part of does not.*)
LEMMA StatsBounded ==
  ASSUME BatchTypeOK, AllCounted
  PROVE  stats \in [Statuses -> 0..JobCount]
  <1>1. Len(jobs) \in Nat /\ Len(results) \in Nat /\ Cardinality(Active) \in Nat
        /\ InHand \in 0..1 /\ Handled \in Nat
    BY PlacesType, ActiveIsFinite
  <1>2. Handled <= JobCount
    BY <1>1, JobCountAssumption DEF AllCounted, Places
  <1>3. \A s \in Statuses : stats[s] \in 0..JobCount
    BY <1>2, JobCountAssumption DEF BatchTypeOK, Statuses, Handled
  <1> QED
    BY <1>3 DEF BatchTypeOK

(* Every variable of the pool of indexer.go:175 stays within its type: no  *)
(* channel holds more than its capacity and no job is counted twice.       *)
THEOREM TypeCorrect == Spec => []TypeOK
  <1>1. BatchInv => TypeOK
    <2> SUFFICES ASSUME BatchInv PROVE TypeOK
      OBVIOUS
    <2>1. stats \in [Statuses -> 0..JobCount]
      BY StatsBounded DEF BatchInv
    <2>2. {ai, cooling, cancelled, stopping, aiFailed, rested} \subseteq BOOLEAN
      BY Zenon DEF BatchInv, BatchTypeOK
    <2>3. pc \in [Workers -> {"take", "lock", "wait", "audit", "delete", "upsert", "send", "done"}]
      BY DEF BatchInv, BatchTypeOK, Working
    <2> QED
      BY <2>1, <2>2, <2>3 DEF BatchInv, BatchTypeOK, TypeOK
  <1> QED
    BY <1>1, BatchInvariant, PTL

(* indexer.go:175: a batch that ends without an error has decided every    *)
(* job and counted each of them once.                                      *)
THEOREM NoJobIsLost == Spec => []NothingLost
  <1>1. BatchInv => NothingLost
    <2> SUFFICES ASSUME BatchInv, consumer = "returned", runErr = "none"
                 PROVE  /\ decided = 1..JobCount
                        /\ stats["stored"] + stats["weak"] + stats["failed"] = JobCount
      BY DEF NothingLost
    <2>1. /\ results = <<>> /\ received = NoResult /\ ~stopping
          /\ \A w \in Workers : pc[w] = "done"
      BY DEF BatchInv, ReturnsLast, SlotsInUse
    <2>2. Workers # {}
      BY WorkersAssumption, FS_EmptySet
    <2>3. jobs = <<>>
      BY <2>1, <2>2 DEF BatchInv, EndsLast
    <2>4. Active = {}
      BY <2>1 DEF Active, Working
    <2>5. \A r \in OnTheWay : r.err = "none"
      BY <2>1, ResultTypes DEF BatchInv, SlotsInUse, OnTheWay
    <2>6. decided = 1..JobCount
      <3>1. Len(jobs) = 0 /\ decided \subseteq 1..JobCount
        BY <2>3 DEF BatchInv, BatchTypeOK
      <3>2. Undisturbed
        BY <2>1, <2>5 DEF Undisturbed
      <3>3. \A j \in 1..JobCount : j \in decided
        BY <2>4, <3>1, <3>2, JobCountAssumption DEF BatchInv, AllDecided
      <3> QED BY <3>1, <3>3
    <2>7. Handled = JobCount
      <3>1. Len(jobs) = 0 /\ Len(results) = 0 /\ Cardinality(Active) = 0 /\ InHand = 0
        BY <2>1, <2>3, <2>4, FS_EmptySet DEF InHand
      <3>2. Places = JobCount /\ Handled \in Nat
        BY <2>1, PlacesType DEF BatchInv, AllCounted
      <3> QED BY <3>1, <3>2 DEF Places
    <2> QED
      BY <2>6, <2>7 DEF Handled
  <1> QED
    BY <1>1, BatchInvariant, PTL

(* indexer.go:250: what the batch returns is the cause, not an echo of the *)
(* cancellation, and no failure of a dependency goes unreported.           *)
THEOREM CauseReported == Spec => []CauseIsReported
  <1>1. BatchInv => CauseIsReported
    <2> SUFFICES ASSUME BatchInv, consumer = "returned"
                 PROVE  (runErr = "context" => stopping) /\ (realErrors # {} => runErr # "none")
      BY DEF CauseIsReported
    <2>1. \A r \in OnTheWay : r.err = "none"
      <3>1. results = <<>> /\ received = NoResult /\ \A w \in Workers : pc[w] = "done"
        BY DEF BatchInv, ReturnsLast, SlotsInUse
      <3> QED BY <3>1, ResultTypes DEF BatchInv, SlotsInUse, OnTheWay
    <2> QED
      BY <2>1 DEF BatchInv, ContextHasCause, ErrorsArrive
  <1> QED
    BY <1>1, BatchInvariant, PTL

(* Only this step makes a request to the auditor.                          *)
LEMMA OnlyStartAssesses ==
  ASSUME BatchTypeOK, [Next]_vars, NEW w \in Workers, pc[w] # "audit", pc'[w] = "audit"
  PROVE  StartAssessment(w)
  <1>1. PICK v \in Workers : WorkerStep(v)
    BY DEF Next, ConsumerStep, Receive, Handle, Return, Shutdown, CooldownEnds, Returned,
           pool, vars
  <1>2. ASSUME NEW l, Goto(v, l), l # "audit" PROVE FALSE
    BY <1>2 DEF Goto, BatchTypeOK
  <1>3. CASE Take(v) \/ Lock(v) \/ Assessed(v)
    BY <1>2, <1>3, TakeCases DEF Lock, Assessed
  <1>4. CASE GiveUpWaiting(v) \/ AssessmentFails(v) \/ Write(v) \/ WriteFails(v) \/ Send(v)
    BY <1>2, <1>4 DEF GiveUpWaiting, AssessmentFails, Write, WriteFails, Send, Finish
  <1>5. CASE StartAssessment(v)
    BY <1>5 DEF StartAssessment, Goto, BatchTypeOK
  <1> QED
    BY <1>1, <1>3, <1>4, <1>5 DEF WorkerStep

(* README.md:73, for any number of workers: a request to the auditor never *)
(* overlaps another, and a cooldown has passed since the one before.       *)
THEOREM RequestsAreSpaced == Spec => SerializedAndSpaced
  <1>1. ASSUME BatchInv, [Next]_vars, NEW w \in Workers, pc[w] # "audit", pc'[w] = "audit"
        PROVE  rested /\ (\A other \in Workers : pc[other] # "audit")
    <2>1. pc[w] = "wait" /\ ~cooling
      BY <1>1, OnlyStartAssesses DEF BatchInv, StartAssessment
    <2>2. \A other \in Workers : pc[other] # "audit"
      BY <1>1, <2>1 DEF BatchInv, GateHeld
    <2> QED
      BY <1>1, <2>1, <2>2 DEF BatchInv, RestKnown
  <1> DEFINE Spaced ==
        \A w \in Workers : pc[w] # "audit" /\ pc'[w] = "audit" =>
          rested /\ (\A other \in Workers : pc[other] # "audit")
  <1>2. BatchInv /\ [Next]_vars => [Spaced]_vars
    BY <1>1
  <1> QED
    BY <1>2, BatchInvariant, PTL DEF Spec, SerializedAndSpaced

(* README.md:73: once a request has failed no further one is made, except  *)
(* with a cancelled context, where a cooldown outlasts the handling of a   *)
(* result.                                                                 *)
THEOREM NoAttemptAfterFailure ==
  ASSUME LongCooldown
  PROVE  Spec => AttemptedOnce
  <1>1. ASSUME BatchInv, [Next]_vars, NEW w \in Workers, pc[w] # "audit", pc'[w] = "audit"
        PROVE  aiFailed => cancelled
    <2>1. ~cooling
      BY <1>1, OnlyStartAssesses DEF BatchInv, StartAssessment
    <2> QED
      BY <1>1, <2>1 DEF BatchInv, FailureOutlasted
  <1> DEFINE Once ==
        \A w \in Workers : pc[w] # "audit" /\ pc'[w] = "audit" => (aiFailed => cancelled)
  <1>2. BatchInv /\ [Next]_vars => [Once]_vars
    BY <1>1
  <1> QED
    BY <1>2, BatchInvariant, PTL DEF Spec, AttemptedOnce
=============================================================================

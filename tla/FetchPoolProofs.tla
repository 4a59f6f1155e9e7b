--------------------------- MODULE FetchPoolProofs ---------------------------
(***************************************************************************)
(* Proofs about FetchPool, for any number of search results and workers:   *)
(* the types, that every result is handed on or counted, and that the      *)
(* error of the page is the one that stopped it.                           *)
(***************************************************************************)
EXTENDS FetchPool, FiniteSetTheorems, SequenceTheorems, TLAPS

-----------------------------------------------------------------------------
(* The inductive invariant, in parts.                                      *)

Labels == {"take", "fetch", "send", "cancel", "done"}

(* TypeOK, with the bound on the batch in BatchNotFull.                    *)
PageTypeOK ==
  /\ jobs \in Seq(Items)
  /\ pc \in [Workers -> Labels]
  /\ result \in [Workers -> Result]
  /\ results \in Seq(Result)
  /\ Len(results) <= Cardinality(Workers)
  /\ cancelled \in BOOLEAN
  /\ stopping \in BOOLEAN
  /\ limited \in BOOLEAN
  /\ consumer \in {"receive", "index", "returned"}
  /\ fetchErr \in Errors \cup {"none"}
  /\ batch \in Nat
  /\ yielded \subseteq Items
  /\ refused \subseteq Items

(* yield indexes a batch as soon as it is full.                            *)
BatchNotFull ==
  IF consumer = "index" THEN batch = BatchSize ELSE batch < BatchSize

Queue == 1..Len(results)
Taken == 1..(ItemCount - Len(jobs))
Busy(w) == pc[w] \in {"fetch", "send"}
Settled == yielded \cup refused

(* A result is an error exactly when it has failed.                        *)
ResultsMarked ==
  /\ \A w \in Workers : pc[w] = "send" => (result[w].err # "none" <=> result[w].status = "failed")
  /\ \A i \in Queue : results[i].err # "none" <=> results[i].status = "failed"
  /\ \A w \in Workers : pc[w] # "send" => result[w].err = "none"

JobsInOrder ==
  Len(jobs) <= ItemCount /\ \A i \in 1..Len(jobs) : jobs[i] = ItemCount - Len(jobs) + i

(* An item is with one worker, in the channel once, or settled.            *)
InOnePlace ==
  /\ \A w \in Workers : Busy(w) => result[w].item \in Taken
  /\ \A i \in Queue : results[i].item \in Taken
  /\ Settled \subseteq Taken
  /\ \A v, w \in Workers : v # w /\ Busy(v) /\ Busy(w) => result[v].item # result[w].item
  /\ \A i, k \in Queue : i # k => results[i].item # results[k].item
  /\ \A w \in Workers, i \in Queue : Busy(w) => result[w].item # results[i].item
  /\ \A w \in Workers : Busy(w) => result[w].item \notin Settled
  /\ \A i \in Queue : results[i].item \notin Settled
  /\ yielded \cap refused = {}

(* Something stopped the page, and was not set off by that itself.         *)
Stopped ==
  \/ stopping \/ fetchErr # "none"
  \/ \E i \in Queue : results[i].err = "rate_limit"

EchoesHaveCause ==
  /\ \A w \in Workers : result[w].err \in {"context", "other"} => Stopped
  /\ \A w \in Workers : pc[w] = "cancel" => Stopped
  /\ \A i \in Queue : results[i].err \in {"context", "other"} =>
       \/ stopping \/ fetchErr # "none"
       \/ \E k \in Queue : k < i /\ results[k].err = "rate_limit"
  /\ \A w \in Workers : result[w].err # "indexing"
  /\ \A i \in Queue : results[i].err # "indexing"
  /\ cancelled => Stopped \/ consumer = "returned"
  /\ stopping => cancelled
  /\ fetchErr \in {"context", "other"} => stopping

LimitArrives ==
  limited => \/ fetchErr # "none"
             \/ \E w \in Workers : result[w].err # "none"
             \/ \E i \in Queue : results[i].err # "none"

(* Until something stops the page no item is dropped.                      *)
NothingDropped ==
  ~Stopped =>
    \A n \in Taken : \/ n \in Settled
                     \/ \E w \in Workers : Busy(w) /\ result[w].item = n
                     \/ \E i \in Queue : results[i].item = n

EndsLast ==
  (\E w \in Workers : pc[w] = "done") => jobs = <<>> \/ Stopped

ReturnsLast ==
  consumer = "returned" =>
    /\ results = <<>>
    /\ \A w \in Workers : pc[w] = "done"
    /\ stopping => fetchErr # "none"

PageInv ==
  /\ PageTypeOK
  /\ BatchNotFull
  /\ ResultsMarked
  /\ JobsInOrder
  /\ InOnePlace
  /\ EchoesHaveCause
  /\ LimitArrives
  /\ NothingDropped
  /\ EndsLast
  /\ ReturnsLast

-----------------------------------------------------------------------------
(* What the steps do.                                                      *)

Open == {"found", "content_failed", "stars_skipped", "failed"}

(* A fetch ends: the outcomes differ in status and error only.             *)
Outcome(w, status, err) ==
  /\ Finish(w, status, err)
  /\ err # "none" <=> status = "failed"
  /\ err \in {"context", "other"} => cancelled
  /\ limited' = limited \/ (limited' = TRUE /\ err # "none")

LEMMA OutcomeOfFetch ==
  ASSUME NEW w \in Workers,
         Found(w) \/ TooFewStars(w) \/ Unavailable(w) \/ RateLimited(w) \/ Aborted(w)
  PROVE  \E status \in Open, err \in {"none", "rate_limit", "context", "other"} :
           Outcome(w, status, err)
  <1>1. CASE Found(w)
    BY <1>1 DEF Found, Outcome, Open
  <1>2. CASE TooFewStars(w)
    BY <1>2 DEF TooFewStars, Outcome, Open
  <1>3. CASE Unavailable(w)
    BY <1>3 DEF Unavailable, Outcome, Open
  <1>4. CASE RateLimited(w)
    BY <1>4 DEF RateLimited, Outcome, Open
  <1>5. CASE Aborted(w)
    BY <1>5 DEF Aborted, Outcome, Open
  <1> QED
    BY <1>1, <1>2, <1>3, <1>4, <1>5

LEMMA OutcomeFacts ==
  ASSUME PageTypeOK, NEW w \in Workers, NEW status \in Open,
         NEW err \in {"none", "rate_limit", "context", "other"}, Outcome(w, status, err)
  PROVE  /\ pc[w] = "fetch"
         /\ pc' = [pc EXCEPT ![w] = "send"]
         /\ result' \in [Workers -> Result]
         /\ \A v \in Workers : v # w => result'[v] = result[v]
         /\ result'[w].item = result[w].item
         /\ result'[w].status = status /\ result'[w].err = err
         /\ UNCHANGED <<jobs, results, cancelled, stopping, consumer, fetchErr, batch, yielded,
                        refused>>
  <1>1. /\ pc[w] = "fetch" /\ pc' = [pc EXCEPT ![w] = "send"]
        /\ result' = [result EXCEPT ![w].status = status, ![w].err = err]
        /\ UNCHANGED <<jobs, results, cancelled, stopping, consumer, fetchErr, batch, yielded,
                       refused>>
    BY DEF Outcome, Finish, Goto, consuming
  <1>2. result \in [Workers -> Result]
    BY DEF PageTypeOK
  <1> DEFINE r == [result[w] EXCEPT !.status = status, !.err = err]
  <1>3. result[w] \in Result
    BY <1>2
  <1>4. r.item = result[w].item /\ r.status = status /\ r.err = err /\ r \in Result
    BY <1>3 DEF Result, Open, Errors
  <1>5. result' = [result EXCEPT ![w] = r]
    BY <1>1, <1>2, <1>3 DEF Result
  <1> HIDE DEF r
  <1> QED
    BY <1>1, <1>2, <1>4, <1>5

LEMMA NoResultFacts ==
  NoResult \in Result /\ NoResult.err = "none" /\ NoResult.status = "open"
  BY DEF NoResult, Result

LEMMA TakeCases ==
  ASSUME PageTypeOK, JobsInOrder, NEW w \in Workers, Take(w)
  PROVE  /\ pc[w] = "take"
         /\ \/ jobs = <<>> /\ UNCHANGED <<jobs, result>> /\ pc' = [pc EXCEPT ![w] = "done"]
            \/ /\ jobs # <<>> /\ jobs' = Tail(jobs) /\ cancelled = TRUE
               /\ result' = result /\ pc' = [pc EXCEPT ![w] = "done"]
            \/ /\ jobs # <<>> /\ jobs' = Tail(jobs)
               /\ pc' = [pc EXCEPT ![w] = "fetch"]
               /\ result' \in [Workers -> Result]
               /\ \A v \in Workers : v # w => result'[v] = result[v]
               /\ result'[w].item = ItemCount - Len(jobs) + 1
               /\ result'[w].status = result[w].status /\ result'[w].err = result[w].err
         /\ UNCHANGED <<results, cancelled, stopping, consumer, fetchErr, batch, yielded,
                        refused, limited>>
  <1>1. /\ pc[w] = "take"
        /\ UNCHANGED <<results, cancelled, stopping, consumer, fetchErr, batch, yielded,
                       refused, limited>>
    BY DEF Take, consuming
  <1>2. \/ jobs = <<>> /\ UNCHANGED <<jobs, result>> /\ pc' = [pc EXCEPT ![w] = "done"]
        \/ /\ jobs # <<>> /\ jobs' = Tail(jobs) /\ cancelled = TRUE
           /\ result' = result /\ pc' = [pc EXCEPT ![w] = "done"]
        \/ /\ jobs # <<>> /\ jobs' = Tail(jobs) /\ pc' = [pc EXCEPT ![w] = "fetch"]
           /\ result' = [result EXCEPT ![w].item = Head(jobs)]
    BY DEF Take, Goto
  <1>3. ASSUME jobs # <<>>, result' = [result EXCEPT ![w].item = Head(jobs)]
        PROVE  /\ result' \in [Workers -> Result]
               /\ \A v \in Workers : v # w => result'[v] = result[v]
               /\ result'[w].item = ItemCount - Len(jobs) + 1
               /\ result'[w].status = result[w].status /\ result'[w].err = result[w].err
    <2>1. Head(jobs) \in Items /\ Head(jobs) = ItemCount - Len(jobs) + 1
      <3>1. jobs \in Seq(Items) /\ Len(jobs) \in Nat \ {0} /\ Head(jobs) = jobs[1]
        BY <1>3 DEF PageTypeOK
      <3>2. 1 \in 1..Len(jobs)
        BY <3>1
      <3> QED BY <3>1, <3>2, ItemCountAssumption DEF JobsInOrder
    <2>2. result \in [Workers -> Result] /\ result[w] \in Result
      BY DEF PageTypeOK
    <2> DEFINE r == [result[w] EXCEPT !.item = Head(jobs)]
    <2>3. r.item = Head(jobs) /\ r.status = result[w].status /\ r.err = result[w].err /\ r \in Result
      BY <2>1, <2>2 DEF Result
    <2>4. result' = [result EXCEPT ![w] = r]
      BY <1>3, <2>2 DEF Result
    <2> HIDE DEF r
    <2> QED
      BY <2>1, <2>2, <2>3, <2>4
  <1> QED
    BY <1>1, <1>2, <1>3

LEMMA SendFacts ==
  ASSUME PageTypeOK, NEW w \in Workers, Send(w)
  PROVE  /\ pc[w] = "send"
         /\ Len(results) \in Nat /\ Len(results') = Len(results) + 1
         /\ Len(results') <= Cardinality(Workers)
         /\ results' \in Seq(Result)
         /\ results'[Len(results) + 1] = result[w]
         /\ \A i \in Queue : results'[i] = results[i]
         /\ result' = [result EXCEPT ![w] = NoResult]
         /\ pc' = [pc EXCEPT ![w] = IF result[w].err = "none" THEN "take" ELSE "cancel"]
         /\ UNCHANGED <<jobs, cancelled, stopping, consumer, fetchErr, batch, yielded, refused,
                        limited>>
  <1>1. /\ results \in Seq(Result) /\ result[w] \in Result
        /\ results' = Append(results, result[w])
        /\ Len(results) < Cardinality(Workers)
    BY DEF PageTypeOK, Send
  <1>2. Cardinality(Workers) \in Nat
    BY WorkersAssumption, ItemCountAssumption
  <1>3. Len(results') <= Cardinality(Workers)
    BY <1>1, <1>2, AppendProperties
  <1> QED
    BY <1>1, <1>3, AppendProperties DEF Send, Goto, Queue, consuming

LEMMA ReceiveFacts ==
  ASSUME PageTypeOK, Receive
  PROVE  /\ consumer = "receive"
         /\ results' \in Seq(Result)
         /\ Len(results) \in Nat \ {0} /\ Len(results') = Len(results) - 1
         /\ Head(results) = results[1] /\ 1 \in Queue /\ Head(results) \in Result
         /\ \A i \in Queue' : i + 1 \in Queue /\ results'[i] = results[i + 1]
         /\ \A i \in Queue : i # 1 => i - 1 \in Queue' /\ results'[i - 1] = results[i]
  <1>1. /\ results \in Seq(Result) /\ results # <<>> /\ results' = Tail(results)
        /\ consumer = "receive"
    BY DEF PageTypeOK, Receive
  <1>2. /\ Len(results) \in Nat \ {0} /\ Len(results') = Len(results) - 1
        /\ results' \in Seq(Result)
        /\ Head(results) = results[1] /\ Head(results) \in Result
        /\ \A i \in 1..Len(results') : results'[i] = results[i + 1]
    BY <1>1
  <1> QED
    BY <1>1, <1>2 DEF Queue

(* The steps that touch neither items nor results.                         *)
LEMMA QuietFacts ==
  ASSUME BatchIndexed \/ IndexingFails \/ Return \/ Shutdown \/ Returned
  PROVE  UNCHANGED <<jobs, pc, result, results, yielded, refused, limited>>
  BY DEF BatchIndexed, IndexingFails, Return, Shutdown, Returned, consuming, vars

-----------------------------------------------------------------------------
(* Types.                                                                  *)

LEMMA InitType == Init => PageTypeOK
  <1> SUFFICES ASSUME Init PROVE PageTypeOK
    OBVIOUS
  <1>1. jobs \in Seq(Items)
    BY ItemCountAssumption DEF Init, Items
  <1>2. results \in Seq(Result) /\ Len(results) <= Cardinality(Workers)
    BY WorkersAssumption, ItemCountAssumption DEF Init
  <1>3. result \in [Workers -> Result] /\ pc \in [Workers -> Labels]
    BY NoResultFacts DEF Init, Labels
  <1>4. batch \in Nat
    BY BatchSizeAssumption DEF Init
  <1> QED
    BY <1>1, <1>2, <1>3, <1>4 DEF Init, PageTypeOK

LEMMA WorkerType ==
  ASSUME PageTypeOK, JobsInOrder, NEW w \in Workers, WorkerStep(w)
  PROVE  PageTypeOK'
  <1>1. CASE Take(w)
    <2>1. jobs' \in Seq(Items)
      <3>1. jobs' = jobs \/ (jobs # <<>> /\ jobs' = Tail(jobs))
        BY <1>1, TakeCases
      <3>2. jobs \in Seq(Items)
        BY DEF PageTypeOK
      <3> QED BY <3>1, <3>2
    <2>2. pc' \in [Workers -> Labels]
      BY <1>1, TakeCases DEF PageTypeOK, Labels
    <2>3. result' \in [Workers -> Result]
      BY <1>1, TakeCases DEF PageTypeOK
    <2> QED
      BY <1>1, <2>1, <2>2, <2>3, TakeCases DEF PageTypeOK
  <1>2. ASSUME NEW status \in Open, NEW err \in {"none", "rate_limit", "context", "other"},
               Outcome(w, status, err)
        PROVE  PageTypeOK'
    <2>1. pc' \in [Workers -> Labels] /\ result' \in [Workers -> Result]
      BY <1>2, OutcomeFacts DEF PageTypeOK, Labels
    <2>2. limited' \in BOOLEAN
      BY <1>2 DEF Outcome, PageTypeOK
    <2> QED
      BY <1>2, <2>1, <2>2, OutcomeFacts DEF PageTypeOK
  <1>3. CASE Send(w)
    <2>1. pc' \in [Workers -> Labels] /\ result' \in [Workers -> Result]
      BY <1>3, SendFacts, NoResultFacts DEF PageTypeOK, Labels
    <2> QED
      BY <1>3, <2>1, SendFacts DEF PageTypeOK
  <1>4. CASE Cancel(w)
    <2>1. pc' \in [Workers -> Labels]
      BY <1>4 DEF Cancel, Goto, PageTypeOK, Labels
    <2> QED
      BY <1>4, <2>1 DEF Cancel, PageTypeOK, consuming
  <1> QED
    BY <1>1, <1>2, <1>3, <1>4, OutcomeOfFetch DEF WorkerStep

LEMMA TakenItems ==
  ASSUME PageTypeOK
  PROVE  Taken \subseteq Items
  BY ItemCountAssumption DEF PageTypeOK, Taken, Items

LEMMA ConsumerType ==
  ASSUME PageTypeOK, InOnePlace, ConsumerStep
  PROVE  PageTypeOK'
  <1>1. ASSUME Receive
        PROVE  /\ results' \in Seq(Result) /\ Len(results') <= Cardinality(Workers)
               /\ Head(results).err \in Errors \cup {"none"}
               /\ Head(results).item \in Items
    <2>1. Cardinality(Workers) \in Nat
      BY WorkersAssumption, ItemCountAssumption
    <2>2. Len(results') <= Cardinality(Workers)
      BY <1>1, <2>1, ReceiveFacts DEF PageTypeOK
    <2>3. Head(results).item \in Items
      BY <1>1, ReceiveFacts, TakenItems DEF InOnePlace
    <2> QED
      BY <1>1, <2>2, <2>3, ReceiveFacts DEF Result
  <1>2. CASE Refuse
    BY <1>1, <1>2 DEF Refuse, PageTypeOK
  <1>3. CASE ReceiveError
    <2>1. fetchErr' \in Errors \cup {"none"}
      BY <1>1, <1>3 DEF ReceiveError, PageTypeOK
    <2> QED
      BY <1>1, <1>3, <2>1 DEF ReceiveError, PageTypeOK
  <1>4. CASE Drop
    BY <1>1, <1>4 DEF Drop, PageTypeOK, consuming
  <1>5. CASE Yield
    <2>1. consumer' \in {"receive", "index", "returned"}
      BY <1>5 DEF Yield
    <2> QED
      BY <1>1, <1>5, <2>1 DEF Yield, PageTypeOK
  <1>6. CASE BatchIndexed
    BY <1>6 DEF BatchIndexed, PageTypeOK
  <1>7. CASE IndexingFails
    BY <1>7 DEF IndexingFails, PageTypeOK, Errors
  <1>8. CASE Return
    <2>1. fetchErr' \in Errors \cup {"none"}
      BY <1>8 DEF Return, PageTypeOK, Errors
    <2> QED
      BY <1>8, <2>1 DEF Return, PageTypeOK
  <1> QED
    BY <1>2, <1>3, <1>4, <1>5, <1>6, <1>7, <1>8 DEF ConsumerStep

LEMMA TypeStep ==
  ASSUME PageTypeOK, JobsInOrder, InOnePlace, Next
  PROVE  PageTypeOK'
  <1>1. CASE Shutdown
    BY <1>1 DEF Shutdown, PageTypeOK, consuming
  <1>2. CASE Returned
    BY <1>2 DEF Returned, PageTypeOK, vars
  <1> QED
    BY <1>1, <1>2, WorkerType, ConsumerType DEF Next

-----------------------------------------------------------------------------
(* The parts of the invariant, one by one.                                 *)

(* What every worker step leaves to the consumer.                          *)
LEMMA WorkerLeaves ==
  ASSUME NEW w \in Workers, WorkerStep(w)
  PROVE  /\ UNCHANGED <<stopping, consumer, fetchErr, batch, yielded, refused>>
         /\ pc[w] # "done"
  BY DEF WorkerStep, Take, Found, TooFewStars, Unavailable, RateLimited, Aborted, Finish,
         Send, Cancel, consuming

LEMMA BatchNotFullStep ==
  ASSUME PageTypeOK, BatchNotFull, Next
  PROVE  BatchNotFull'
  <1>1. ASSUME NEW w \in Workers, WorkerStep(w) PROVE BatchNotFull'
    BY <1>1, WorkerLeaves DEF BatchNotFull
  <1>2. CASE Refuse \/ ReceiveError \/ Drop \/ Return \/ Shutdown \/ Returned
    BY <1>2 DEF Refuse, ReceiveError, Drop, Receive, Return, Shutdown, Returned,
                BatchNotFull, consuming, vars
  <1>3. CASE Yield
    BY <1>3, BatchSizeAssumption DEF Yield, Receive, BatchNotFull, PageTypeOK
  <1>4. CASE BatchIndexed \/ IndexingFails
    BY <1>4, BatchSizeAssumption DEF BatchIndexed, IndexingFails, BatchNotFull
  <1> QED
    BY <1>1, <1>2, <1>3, <1>4 DEF Next, ConsumerStep

LEMMA JobsInOrderStep ==
  ASSUME PageTypeOK, JobsInOrder, Next
  PROVE  JobsInOrder'
  <1>1. CASE jobs' = jobs
    BY <1>1 DEF JobsInOrder
  <1>2. CASE jobs # <<>> /\ jobs' = Tail(jobs)
    <2>1. /\ Len(jobs') = Len(jobs) - 1 /\ Len(jobs) \in Nat \ {0}
          /\ \A i \in 1..Len(jobs') : jobs'[i] = jobs[i + 1]
      BY <1>2 DEF PageTypeOK
    <2> QED
      BY <2>1, ItemCountAssumption DEF JobsInOrder
  <1>3. ASSUME NEW w \in Workers, WorkerStep(w)
        PROVE  jobs' = jobs \/ (jobs # <<>> /\ jobs' = Tail(jobs))
    BY <1>3, TakeCases
    DEF WorkerStep, Found, TooFewStars, Unavailable, RateLimited, Aborted, Finish, Send, Cancel
  <1>4. CASE Refuse \/ ReceiveError \/ Drop \/ Yield
    BY <1>1, <1>4 DEF Refuse, ReceiveError, Drop, Yield
  <1>5. CASE BatchIndexed \/ IndexingFails \/ Return \/ Shutdown \/ Returned
    BY <1>1, <1>5, QuietFacts
  <1> QED
    BY <1>1, <1>2, <1>3, <1>4, <1>5 DEF Next, ConsumerStep

LEMMA ResultsMarkedStep ==
  ASSUME PageTypeOK, JobsInOrder, ResultsMarked, Next
  PROVE  ResultsMarked'
  <1>1. ASSUME NEW w \in Workers, WorkerStep(w) PROVE ResultsMarked'
    <2> USE DEF Queue
    <2>0. pc \in [Workers -> Labels] /\ result \in [Workers -> Result]
      BY DEF PageTypeOK
    <2>1. CASE Take(w)
      <3>1. \A v \in Workers : /\ result'[v].err = result[v].err
                               /\ result'[v].status = result[v].status
                               /\ pc'[v] = "send" <=> pc[v] = "send"
        BY <1>1, <2>0, <2>1, TakeCases
      <3>2. results' = results
        BY <1>1, <2>1, TakeCases
      <3> QED BY <3>1, <3>2 DEF ResultsMarked
    <2>2. ASSUME NEW status \in Open, NEW err \in {"none", "rate_limit", "context", "other"},
                 Outcome(w, status, err)
          PROVE  ResultsMarked'
      <3>1. \A v \in Workers : v # w => result'[v] = result[v] /\ pc'[v] = pc[v]
        BY <1>1, <2>0, <2>2, OutcomeFacts
      <3>2. err # "none" <=> status = "failed"
        BY <2>2 DEF Outcome
      <3>3. /\ result'[w].err = err /\ result'[w].status = status
            /\ pc'[w] = "send" /\ results' = results
        BY <1>1, <2>0, <2>2, OutcomeFacts
      <3> QED BY <3>1, <3>2, <3>3 DEF ResultsMarked
    <2>3. CASE Send(w)
      <3>1. \A i \in Queue' : results'[i].err # "none" <=> results'[i].status = "failed"
        <4>1. \A i \in Queue' : i \in Queue \/ i = Len(results) + 1
          BY <1>1, <2>3, SendFacts DEF Queue
        <4> QED BY <1>1, <2>3, <4>1, SendFacts DEF ResultsMarked
      <3>2. \A v \in Workers : /\ pc'[v] = "send" => pc[v] = "send" /\ result'[v] = result[v]
                               /\ result'[v] = result[v] \/ result'[v] = NoResult
                               /\ pc'[v] # "send" => pc[v] # "send" \/ v = w
        BY <1>1, <2>3, SendFacts DEF PageTypeOK
      <3>3. result'[w] = NoResult
        BY <1>1, <2>3, SendFacts DEF PageTypeOK
      <3> QED BY <3>1, <3>2, <3>3, NoResultFacts DEF ResultsMarked
    <2>4. CASE Cancel(w)
      BY <1>1, <2>4 DEF Cancel, Goto, ResultsMarked, PageTypeOK, Queue
    <2> QED
      BY <1>1, <2>1, <2>2, <2>3, <2>4, OutcomeOfFetch DEF WorkerStep
  <1>2. CASE Refuse \/ ReceiveError \/ Drop \/ Yield
    <2>1. Receive /\ UNCHANGED <<pc, result>>
      BY <1>2 DEF Refuse, ReceiveError, Drop, Yield
    <2> QED
      BY <2>1, ReceiveFacts DEF ResultsMarked
  <1>3. CASE BatchIndexed \/ IndexingFails \/ Return \/ Shutdown \/ Returned
    BY <1>3, QuietFacts DEF ResultsMarked, Queue
  <1> QED
    BY <1>1, <1>2, <1>3 DEF Next, ConsumerStep

LEMMA TakenGrows ==
  ASSUME PageTypeOK, JobsInOrder, jobs # <<>>, jobs' = Tail(jobs)
  PROVE  /\ Taken' = Taken \cup {ItemCount - Len(jobs) + 1}
         /\ ItemCount - Len(jobs) + 1 \notin Taken
  <1>1. Len(jobs') = Len(jobs) - 1 /\ Len(jobs) \in Nat \ {0} /\ Len(jobs) <= ItemCount
    BY DEF PageTypeOK, JobsInOrder
  <1> QED
    BY <1>1, ItemCountAssumption DEF Taken

(* Receiving shifts the channel and hands over its head.                   *)
LEMMA InOnePlaceReceive ==
  ASSUME PageTypeOK, InOnePlace, Receive, UNCHANGED <<jobs, pc, result>>,
         yielded' \cap refused' = {},
         Settled' = Settled \/ Settled' = Settled \cup {Head(results).item}
  PROVE  InOnePlace'
  <1>1. Taken' = Taken /\ \A w \in Workers : Busy(w)' <=> Busy(w)
    BY DEF Taken, Busy
  <1>2. \A i \in Queue' : i + 1 \in Queue /\ i + 1 # 1 /\ results'[i] = results[i + 1]
    BY ReceiveFacts DEF Queue
  <1>3. 1 \in Queue /\ Head(results) = results[1]
    BY ReceiveFacts
  <1>4. /\ \A w \in Workers : Busy(w)' => result'[w].item \in Taken'
        /\ \A v, w \in Workers : v # w /\ Busy(v)' /\ Busy(w)' => result'[v].item # result'[w].item
    BY <1>1 DEF InOnePlace
  <1>5. /\ \A i \in Queue' : results'[i].item \in Taken'
        /\ \A w \in Workers, i \in Queue' : Busy(w)' => result'[w].item # results'[i].item
    BY <1>1, <1>2 DEF InOnePlace
  <1>6. \A i, k \in Queue' : i # k => results'[i].item # results'[k].item
    <2>1. \A i, k \in Queue' : i # k => i + 1 # k + 1
      BY DEF Queue
    <2> QED
      BY <1>2, <2>1 DEF InOnePlace
  <1>7. /\ Settled' \subseteq Taken'
        /\ \A w \in Workers : Busy(w)' => result'[w].item \notin Settled'
        /\ \A i \in Queue' : results'[i].item \notin Settled'
    BY <1>1, <1>2, <1>3 DEF InOnePlace
  <1> QED
    BY <1>4, <1>5, <1>6, <1>7 DEF InOnePlace

LEMMA InOnePlaceWorker ==
  ASSUME PageTypeOK, JobsInOrder, InOnePlace, NEW w \in Workers, WorkerStep(w)
  PROVE  InOnePlace'
  <1>0. pc \in [Workers -> Labels] /\ result \in [Workers -> Result]
    BY DEF PageTypeOK
  <1>1. UNCHANGED <<yielded, refused>> /\ Settled' = Settled
    BY WorkerLeaves DEF Settled
  <1>2. ASSUME results' = results, Taken \subseteq Taken',
               \A v \in Workers : Busy(v)' => Busy(v) /\ result'[v].item = result[v].item
        PROVE  InOnePlace'
    <2>1. Queue' = Queue
      BY <1>2 DEF Queue
    <2> QED
      BY <1>1, <1>2, <2>1 DEF InOnePlace
  <1>3. CASE Take(w)
    <2>1. \A v \in Workers : v # w => result'[v] = result[v] /\ pc'[v] = pc[v]
      BY <1>0, <1>3, TakeCases
    <2>2. results' = results /\ Queue' = Queue
      BY <1>3, TakeCases DEF Queue
    <2>3. CASE pc' = [pc EXCEPT ![w] = "done"]
      <3>1. Taken \subseteq Taken'
        BY <1>3, TakeCases, TakenGrows DEF Taken
      <3>2. ~Busy(w)'
        BY <1>0, <2>3 DEF Busy
      <3> QED BY <1>2, <2>1, <2>2, <3>1, <3>2 DEF Busy
    <2>4. CASE /\ jobs # <<>> /\ jobs' = Tail(jobs)
               /\ pc' = [pc EXCEPT ![w] = "fetch"]
               /\ result'[w].item = ItemCount - Len(jobs) + 1
      <3>1. Taken' = Taken \cup {result'[w].item} /\ result'[w].item \notin Taken
        BY <2>4, TakenGrows
      <3>2. \A v \in Workers : v # w => (Busy(v)' <=> Busy(v)) /\ result'[v] = result[v]
        BY <2>1 DEF Busy
      <3>3. \A v \in Workers : Busy(v)' => result'[v].item \in Taken'
        BY <3>1, <3>2 DEF InOnePlace
      <3>4. \A u, v \in Workers : u # v /\ Busy(u)' /\ Busy(v)' => result'[u].item # result'[v].item
        BY <3>1, <3>2 DEF InOnePlace
      <3>5. \A v \in Workers : Busy(v)' => /\ \A i \in Queue : result'[v].item # results[i].item
                                           /\ result'[v].item \notin Settled
        BY <3>1, <3>2 DEF InOnePlace
      <3> QED
        BY <1>1, <2>2, <3>1, <3>3, <3>4, <3>5 DEF InOnePlace
    <2> QED
      BY <1>3, <2>3, <2>4, TakeCases
  <1>4. ASSUME NEW status \in Open, NEW err \in {"none", "rate_limit", "context", "other"},
               Outcome(w, status, err)
        PROVE  InOnePlace'
    <2>1. \A v \in Workers : Busy(v)' => Busy(v) /\ result'[v].item = result[v].item
      BY <1>0, <1>4, OutcomeFacts DEF Busy
    <2>2. results' = results /\ Taken' = Taken
      BY <1>4, OutcomeFacts DEF Taken
    <2> QED
      BY <1>2, <2>1, <2>2
  <1>5. CASE Send(w)
    <2>1. \A v \in Workers : v # w => (Busy(v)' <=> Busy(v)) /\ result'[v] = result[v]
      BY <1>0, <1>5, SendFacts DEF Busy
    <2>2. ~Busy(w)' /\ Busy(w)
      BY <1>0, <1>5, SendFacts DEF Busy
    <2>3. \A i \in Queue' : \/ i \in Queue /\ results'[i] = results[i]
                            \/ i = Len(results) + 1 /\ results'[i] = result[w]
      BY <1>5, SendFacts DEF Queue
    <2>4. Taken' = Taken
      BY <1>5, SendFacts DEF Taken
    <2>5. /\ \A v \in Workers : Busy(v)' => Busy(v) /\ v # w /\ result'[v] = result[v]
      BY <2>1, <2>2
    <2>6. \A i \in Queue' : results'[i].item \in Taken' /\ results'[i].item \notin Settled'
      BY <1>1, <2>2, <2>3, <2>4 DEF InOnePlace
    <2>7. \A i, k \in Queue' : i # k => results'[i].item # results'[k].item
      BY <2>2, <2>3 DEF InOnePlace
    <2>8. \A v \in Workers, i \in Queue' : Busy(v)' => result'[v].item # results'[i].item
      BY <2>2, <2>3, <2>5 DEF InOnePlace
    <2>9. /\ \A v \in Workers : Busy(v)' => result'[v].item \in Taken' \ Settled'
          /\ \A u, v \in Workers : u # v /\ Busy(u)' /\ Busy(v)' =>
               result'[u].item # result'[v].item
      BY <1>1, <2>4, <2>5 DEF InOnePlace
    <2> QED
      BY <1>1, <2>4, <2>6, <2>7, <2>8, <2>9 DEF InOnePlace
  <1>6. CASE Cancel(w)
    <2>1. \A v \in Workers : Busy(v)' => Busy(v) /\ result'[v].item = result[v].item
      BY <1>0, <1>6 DEF Cancel, Goto, Busy
    <2>2. results' = results /\ Taken' = Taken
      BY <1>6 DEF Cancel, Taken
    <2> QED
      BY <1>2, <2>1, <2>2
  <1> QED
    BY <1>3, <1>4, <1>5, <1>6, OutcomeOfFetch DEF WorkerStep

LEMMA InOnePlaceStep ==
  ASSUME PageTypeOK, JobsInOrder, InOnePlace, Next
  PROVE  InOnePlace'
  <1>1. Receive => Head(results).item \notin Settled
    BY ReceiveFacts DEF InOnePlace
  <1>2. CASE Refuse
    <2>1. /\ Receive /\ UNCHANGED <<jobs, pc, result, yielded>>
          /\ refused' = refused \cup {Head(results).item}
      BY <1>2 DEF Refuse
    <2>2. yielded' \cap refused' = {} /\ Settled' = Settled \cup {Head(results).item}
      BY <1>1, <2>1 DEF Settled, InOnePlace
    <2> QED BY <2>1, <2>2, InOnePlaceReceive
  <1>3. CASE Yield
    <2>1. /\ Receive /\ UNCHANGED <<jobs, pc, result, refused>>
          /\ yielded' = yielded \cup {Head(results).item}
      BY <1>3 DEF Yield
    <2>2. yielded' \cap refused' = {} /\ Settled' = Settled \cup {Head(results).item}
      BY <1>1, <2>1 DEF Settled, InOnePlace
    <2> QED BY <2>1, <2>2, InOnePlaceReceive
  <1>4. CASE ReceiveError \/ Drop
    <2>1. Receive /\ UNCHANGED <<jobs, pc, result, yielded, refused>>
      BY <1>4 DEF ReceiveError, Drop, consuming
    <2>2. yielded' \cap refused' = {} /\ Settled' = Settled
      BY <2>1 DEF Settled, InOnePlace
    <2> QED BY <2>1, <2>2, InOnePlaceReceive
  <1>5. CASE BatchIndexed \/ IndexingFails \/ Return \/ Shutdown \/ Returned
    BY <1>5, QuietFacts DEF InOnePlace, Taken, Busy, Queue, Settled
  <1> QED
    BY <1>2, <1>3, <1>4, <1>5, InOnePlaceWorker DEF Next, ConsumerStep

(* What has stopped the page stays known to it.                            *)
LEMMA StoppedStays ==
  ASSUME PageTypeOK, JobsInOrder, ResultsMarked, Stopped, Next
  PROVE  Stopped'
  <1>1. ASSUME UNCHANGED <<stopping, fetchErr>>,
               \A i \in Queue : i \in Queue' /\ results'[i] = results[i]
        PROVE  Stopped'
    BY <1>1 DEF Stopped
  <1>2. ASSUME NEW w \in Workers, WorkerStep(w) PROVE Stopped'
    <2>1. UNCHANGED <<stopping, fetchErr>>
      BY <1>2, WorkerLeaves
    <2>2. CASE Send(w)
      <3>1. \A i \in Queue : i \in Queue' /\ results'[i] = results[i]
        BY <1>2, <2>2, SendFacts DEF Queue
      <3> QED BY <1>1, <2>1, <3>1
    <2>3. CASE results' = results
      BY <1>1, <2>1, <2>3 DEF Queue
    <2> QED
      BY <1>2, <2>2, <2>3
      DEF WorkerStep, Take, Found, TooFewStars, Unavailable, RateLimited, Aborted, Finish, Cancel
  <1>3. CASE Refuse \/ ReceiveError \/ Drop \/ Yield
    <2>1. Receive /\ stopping' = stopping
      BY <1>3 DEF Refuse, ReceiveError, Drop, Yield
    <2>2. fetchErr # "none" => fetchErr' # "none"
      BY <1>3 DEF Refuse, ReceiveError, Drop, Yield, consuming
    <2>3. results[1].err = "rate_limit" => fetchErr' # "none"
      <3>1. results[1].err = "rate_limit" => Head(results).status = "failed"
        BY <2>1, ReceiveFacts DEF ResultsMarked
      <3>2. CASE ReceiveError
        BY <2>1, <3>2, ReceiveFacts DEF ReceiveError
      <3> QED BY <1>3, <3>1, <3>2 DEF Refuse, Drop, Yield
    <2>4. \A i \in Queue : i # 1 => i - 1 \in Queue' /\ results'[i - 1] = results[i]
      BY <2>1, ReceiveFacts
    <2> QED
      BY <2>1, <2>2, <2>3, <2>4 DEF Stopped
  <1>4. CASE BatchIndexed \/ IndexingFails \/ Return \/ Shutdown \/ Returned
    <2>1. results' = results
      BY <1>4, QuietFacts
    <2>2. (stopping => stopping') /\ (fetchErr # "none" => fetchErr' # "none")
      BY <1>4 DEF BatchIndexed, IndexingFails, Return, Shutdown, Returned, consuming, vars
    <2> QED
      BY <2>1, <2>2 DEF Stopped, Queue
  <1> QED
    BY <1>2, <1>3, <1>4 DEF Next, ConsumerStep

LEMMA ReturnsLastStep ==
  ASSUME ReturnsLast, Next
  PROVE  ReturnsLast'
  <1>1. ASSUME NEW w \in Workers, WorkerStep(w) PROVE ReturnsLast'
    BY <1>1, WorkerLeaves DEF ReturnsLast
  <1>2. CASE Refuse \/ ReceiveError \/ Drop \/ Yield
    BY <1>2 DEF ReturnsLast, Refuse, ReceiveError, Drop, Yield, Receive, consuming
  <1>3. CASE BatchIndexed \/ IndexingFails
    BY <1>3 DEF ReturnsLast, BatchIndexed, IndexingFails
  <1>4. CASE Return \/ Shutdown \/ Returned
    BY <1>4 DEF ReturnsLast, Return, Shutdown, Returned, consuming, vars
  <1> QED
    BY <1>1, <1>2, <1>3, <1>4 DEF Next, ConsumerStep

LEMMA EndsLastStep ==
  ASSUME PageTypeOK, JobsInOrder, ResultsMarked, EchoesHaveCause, EndsLast, ReturnsLast, Next
  PROVE  EndsLast'
  <1>1. CASE Stopped
    BY <1>1, StoppedStays DEF EndsLast
  <1>2. ASSUME ~Stopped, NEW w \in Workers, WorkerStep(w) PROVE EndsLast'
    <2>1. ~cancelled
      BY <1>2, WorkerLeaves DEF EchoesHaveCause, ReturnsLast
    <2>2. CASE Take(w)
      <3>1. jobs = <<>> => jobs' = <<>>
        BY <1>2, <2>2, TakeCases
      <3>2. jobs' = <<>> \/ pc' = [pc EXCEPT ![w] = "fetch"]
        BY <1>2, <2>1, <2>2, TakeCases
      <3> QED BY <1>2, <3>1, <3>2 DEF EndsLast, PageTypeOK
    <2>3. ASSUME NEW l, l # "done", Goto(w, l), jobs' = jobs PROVE EndsLast'
      BY <1>2, <2>3 DEF EndsLast, Goto, PageTypeOK
    <2>4. CASE Found(w) \/ TooFewStars(w) \/ Unavailable(w) \/ RateLimited(w) \/ Aborted(w)
      BY <2>3, <2>4 DEF Found, TooFewStars, Unavailable, RateLimited, Aborted, Finish
    <2>5. CASE Send(w)
      BY <2>3, <2>5 DEF Send
    <2>6. CASE Cancel(w)
      BY <1>2, <2>6 DEF Cancel, EchoesHaveCause
    <2> QED
      BY <1>2, <2>2, <2>4, <2>5, <2>6 DEF WorkerStep
  <1>3. CASE Refuse \/ ReceiveError \/ Drop \/ Yield
    <2>1. UNCHANGED <<pc, jobs>>
      BY <1>3 DEF Refuse, ReceiveError, Drop, Yield
    <2> QED BY <1>1, <2>1 DEF EndsLast
  <1>4. CASE BatchIndexed \/ IndexingFails \/ Return \/ Shutdown \/ Returned
    BY <1>1, <1>4, QuietFacts DEF EndsLast
  <1> QED
    BY <1>1, <1>2, <1>3, <1>4 DEF Next, ConsumerStep

LEMMA LimitArrivesStep ==
  ASSUME PageTypeOK, JobsInOrder, ResultsMarked, LimitArrives, Next
  PROVE  LimitArrives'
  <1>1. ASSUME NEW w \in Workers, WorkerStep(w) PROVE LimitArrives'
    <2>0. pc \in [Workers -> Labels] /\ result \in [Workers -> Result] /\ fetchErr' = fetchErr
      BY <1>1, WorkerLeaves DEF PageTypeOK
    <2>1. CASE Take(w)
      <3>1. \A v \in Workers : result'[v].err = result[v].err
        BY <1>1, <2>0, <2>1, TakeCases
      <3>2. results' = results /\ limited' = limited
        BY <1>1, <2>1, TakeCases
      <3> QED BY <2>0, <3>1, <3>2 DEF LimitArrives, Queue
    <2>2. ASSUME NEW status \in Open, NEW err \in {"none", "rate_limit", "context", "other"},
                 Outcome(w, status, err)
          PROVE  LimitArrives'
      <3>1. limited' = limited \/ err # "none"
        BY <2>2 DEF Outcome
      <3>2. /\ \A v \in Workers : v # w => result'[v] = result[v]
            /\ result'[w].err = err /\ results' = results /\ pc[w] = "fetch"
        BY <1>1, <2>2, OutcomeFacts
      <3>3. result[w].err = "none"
        BY <1>1, <3>2 DEF ResultsMarked
      <3> QED BY <1>1, <2>0, <3>1, <3>2, <3>3 DEF LimitArrives, Queue
    <2>3. CASE Send(w)
      <3>1. \A i \in Queue : i \in Queue' /\ results'[i] = results[i]
        BY <1>1, <2>3, SendFacts DEF Queue
      <3>2. Len(results) + 1 \in Queue' /\ results'[Len(results) + 1] = result[w]
        BY <1>1, <2>3, SendFacts DEF Queue
      <3>3. \A v \in Workers : v # w => result'[v] = result[v]
        BY <1>1, <2>0, <2>3, SendFacts
      <3>4. limited' = limited
        BY <1>1, <2>3, SendFacts
      <3> QED BY <2>0, <3>1, <3>2, <3>3, <3>4 DEF LimitArrives
    <2>4. CASE Cancel(w)
      BY <2>0, <2>4 DEF Cancel, LimitArrives, Queue
    <2> QED
      BY <1>1, <2>1, <2>2, <2>3, <2>4, OutcomeOfFetch DEF WorkerStep
  <1>2. CASE Refuse \/ ReceiveError \/ Drop \/ Yield
    <2>1. Receive /\ UNCHANGED <<result, limited>>
      BY <1>2 DEF Refuse, ReceiveError, Drop, Yield
    <2>2. fetchErr # "none" => fetchErr' # "none"
      BY <1>2 DEF Refuse, ReceiveError, Drop, Yield, consuming
    <2>3. results[1].err # "none" => fetchErr' # "none"
      <3>1. results[1].err # "none" => Head(results).status = "failed"
        BY <2>1, ReceiveFacts DEF ResultsMarked
      <3>2. CASE ReceiveError
        BY <2>1, <3>2, ReceiveFacts DEF ReceiveError
      <3> QED BY <1>2, <3>1, <3>2 DEF Refuse, Drop, Yield
    <2>4. \A i \in Queue : i # 1 => i - 1 \in Queue' /\ results'[i - 1] = results[i]
      BY <2>1, ReceiveFacts
    <2> QED
      BY <2>1, <2>2, <2>3, <2>4 DEF LimitArrives
  <1>3. CASE BatchIndexed \/ IndexingFails \/ Return \/ Shutdown \/ Returned
    <2>1. fetchErr # "none" => fetchErr' # "none"
      BY <1>3 DEF BatchIndexed, IndexingFails, Return, Shutdown, Returned, consuming, vars
    <2> QED
      BY <1>3, <2>1, QuietFacts DEF LimitArrives, Queue
  <1> QED
    BY <1>1, <1>2, <1>3 DEF Next, ConsumerStep

LEMMA NothingDroppedStep ==
  ASSUME PageTypeOK, JobsInOrder, ResultsMarked, EchoesHaveCause, ReturnsLast, NothingDropped,
         Next
  PROVE  NothingDropped'
  <1>0. pc \in [Workers -> Labels] /\ result \in [Workers -> Result]
    BY DEF PageTypeOK
  <1>1. CASE Stopped
    BY <1>1, StoppedStays DEF NothingDropped
  <1>2. ASSUME ~Stopped, NEW w \in Workers, WorkerStep(w) PROVE NothingDropped'
    <2>1. UNCHANGED <<yielded, refused>> /\ Settled' = Settled /\ ~cancelled
      BY <1>2, WorkerLeaves DEF Settled, EchoesHaveCause, ReturnsLast
    <2>2. ASSUME results' = results, Taken' = Taken,
                 \A v \in Workers : Busy(v) => Busy(v)' /\ result'[v].item = result[v].item
          PROVE  NothingDropped'
      BY <1>2, <2>1, <2>2 DEF NothingDropped, Queue
    <2>3. CASE Take(w)
      <3>1. \A v \in Workers : Busy(v) => v # w
        BY <2>3 DEF Take, Busy
      <3>2. \A v \in Workers : v # w => result'[v] = result[v] /\ pc'[v] = pc[v]
        BY <1>0, <1>2, <2>3, TakeCases
      <3>3. results' = results /\ Queue' = Queue
        BY <1>2, <2>3, TakeCases DEF Queue
      <3>4. \A v \in Workers : Busy(v) => Busy(v)' /\ result'[v].item = result[v].item
        BY <3>1, <3>2 DEF Busy
      <3>5. CASE jobs' = jobs
        BY <2>2, <3>3, <3>4, <3>5 DEF Taken
      <3>6. CASE /\ jobs # <<>> /\ jobs' = Tail(jobs)
                 /\ pc' = [pc EXCEPT ![w] = "fetch"]
                 /\ result'[w].item = ItemCount - Len(jobs) + 1
        <4>1. Taken' = Taken \cup {result'[w].item} /\ Busy(w)'
          BY <1>0, <1>2, <3>6, TakenGrows DEF Busy
        <4> QED
          BY <1>2, <2>1, <3>3, <3>4, <4>1 DEF NothingDropped
      <3> QED
        BY <1>2, <2>1, <2>3, <3>5, <3>6, TakeCases
    <2>4. ASSUME NEW status \in Open, NEW err \in {"none", "rate_limit", "context", "other"},
                 Outcome(w, status, err)
          PROVE  NothingDropped'
      <3>1. \A v \in Workers : Busy(v) => Busy(v)' /\ result'[v].item = result[v].item
        BY <1>0, <1>2, <2>4, OutcomeFacts DEF Busy
      <3>2. results' = results /\ Taken' = Taken
        BY <1>2, <2>4, OutcomeFacts DEF Taken
      <3> QED BY <2>2, <3>1, <3>2
    <2>5. CASE Send(w)
      <3>1. \A i \in Queue : i \in Queue' /\ results'[i] = results[i]
        BY <1>2, <2>5, SendFacts DEF Queue
      <3>2. Len(results) + 1 \in Queue' /\ results'[Len(results) + 1] = result[w]
        BY <1>2, <2>5, SendFacts DEF Queue
      <3>3. \A v \in Workers : v # w /\ Busy(v) => Busy(v)' /\ result'[v] = result[v]
        BY <1>0, <1>2, <2>5, SendFacts DEF Busy
      <3>4. Taken' = Taken
        BY <1>2, <2>5, SendFacts DEF Taken
      <3> QED BY <1>2, <2>1, <3>1, <3>2, <3>3, <3>4 DEF NothingDropped
    <2>6. CASE Cancel(w)
      <3>1. \A v \in Workers : Busy(v) => Busy(v)' /\ result'[v].item = result[v].item
        BY <1>0, <2>6 DEF Cancel, Goto, Busy
      <3>2. results' = results /\ Taken' = Taken
        BY <2>6 DEF Cancel, Taken
      <3> QED BY <2>2, <3>1, <3>2
    <2> QED
      BY <1>2, <2>3, <2>4, <2>5, <2>6, OutcomeOfFetch DEF WorkerStep
  <1>3. CASE (Refuse \/ ReceiveError \/ Drop \/ Yield) /\ ~Stopped
    <2>1. Receive /\ UNCHANGED <<jobs, pc, result>>
      BY <1>3 DEF Refuse, ReceiveError, Drop, Yield
    <2>2. Taken' = Taken /\ \A v \in Workers : Busy(v)' <=> Busy(v)
      BY <2>1 DEF Taken, Busy
    <2>3. \A i \in Queue : \/ i - 1 \in Queue' /\ results'[i - 1] = results[i]
                           \/ results[i] = Head(results)
      BY <2>1, ReceiveFacts
    <2>4. Stopped' \/ Settled' = Settled \cup {Head(results).item}
      <3>1. CASE Refuse \/ Yield
        BY <3>1 DEF Refuse, Yield, Settled
      <3>2. CASE ReceiveError
        <4>1. Head(results).err # "none"
          BY <2>1, <3>2, ReceiveFacts DEF ReceiveError, ResultsMarked
        <4> QED BY <3>2, <4>1 DEF ReceiveError, Stopped
      <3>3. CASE Drop
        BY <1>3, <3>3 DEF Drop, Stopped
      <3> QED BY <1>3, <3>1, <3>2, <3>3
    <2> QED
      BY <1>3, <2>1, <2>2, <2>3, <2>4 DEF NothingDropped
  <1>4. CASE BatchIndexed \/ IndexingFails \/ Return \/ Shutdown \/ Returned
    BY <1>1, <1>4, QuietFacts DEF NothingDropped, Taken, Busy, Queue, Settled
  <1> QED
    BY <1>1, <1>2, <1>3, <1>4 DEF Next, ConsumerStep

LEMMA EchoesWorker ==
  ASSUME PageTypeOK, JobsInOrder, ResultsMarked, EchoesHaveCause, ReturnsLast,
         NEW w \in Workers, WorkerStep(w), Next
  PROVE  EchoesHaveCause'
  <1>0. pc \in [Workers -> Labels] /\ result \in [Workers -> Result]
    BY DEF PageTypeOK
  <1>1. UNCHANGED <<stopping, consumer, fetchErr>> /\ consumer # "returned"
    BY WorkerLeaves DEF ReturnsLast
  <1>2. Stopped => Stopped'
    BY StoppedStays
  <1>3. cancelled => Stopped
    BY <1>1 DEF EchoesHaveCause
  <1>4. CASE Take(w)
    <2>1. \A v \in Workers : result'[v].err = result[v].err /\ (pc'[v] = "cancel" => pc[v] = "cancel")
      BY <1>0, <1>4, TakeCases
    <2>2. UNCHANGED <<results, cancelled>>
      BY <1>4, TakeCases
    <2> QED
      BY <1>1, <1>2, <2>1, <2>2 DEF EchoesHaveCause, Queue
  <1>5. ASSUME NEW status \in Open, NEW err \in {"none", "rate_limit", "context", "other"},
               Outcome(w, status, err)
        PROVE  EchoesHaveCause'
    <2>1. /\ \A v \in Workers : v # w => result'[v] = result[v] /\ pc'[v] = pc[v]
          /\ result'[w].err = err /\ pc'[w] = "send" /\ UNCHANGED <<results, cancelled>>
      BY <1>0, <1>5, OutcomeFacts
    <2>2. err \in {"context", "other"} => Stopped
      BY <1>3, <1>5 DEF Outcome
    <2> QED
      BY <1>1, <1>2, <2>1, <2>2 DEF EchoesHaveCause, Queue
  <1>6. CASE Send(w)
    <2>1. /\ \A v \in Workers : v # w => result'[v] = result[v] /\ pc'[v] = pc[v]
          /\ result'[w] = NoResult
          /\ pc'[w] = IF result[w].err = "none" THEN "take" ELSE "cancel"
          /\ cancelled' = cancelled
      BY <1>0, <1>6, SendFacts
    <2>2. /\ \A i \in Queue : i \in Queue' /\ results'[i] = results[i] /\ i < Len(results) + 1
          /\ \A i \in Queue' : i \in Queue \/ i = Len(results) + 1
          /\ Len(results) + 1 \in Queue' /\ results'[Len(results) + 1] = result[w]
      BY <1>6, SendFacts DEF Queue
    <2>3. pc'[w] = "cancel" => Stopped'
      <3>1. result[w].err \in {"none", "rate_limit", "context", "other"}
        BY <1>0 DEF EchoesHaveCause, Result, Errors
      <3>2. CASE result[w].err = "rate_limit"
        BY <2>2, <3>2 DEF Stopped
      <3>3. CASE result[w].err \in {"context", "other"}
        BY <1>2, <3>3 DEF EchoesHaveCause
      <3> QED BY <2>1, <3>1, <3>2, <3>3
    <2>4. /\ \A v \in Workers : result'[v].err \in {"context", "other"} => Stopped'
          /\ \A v \in Workers : pc'[v] = "cancel" => Stopped'
          /\ \A v \in Workers : result'[v].err # "indexing"
      BY <1>2, <2>1, <2>3, NoResultFacts DEF EchoesHaveCause
    <2>5. \A i \in Queue' : results'[i].err \in {"context", "other"} =>
            \/ stopping' \/ fetchErr' # "none"
            \/ \E k \in Queue' : k < i /\ results'[k].err = "rate_limit"
      <3>1. CASE Stopped
        BY <1>1, <2>2, <3>1 DEF EchoesHaveCause, Stopped
      <3>2. CASE ~Stopped
        BY <1>1, <2>2, <3>2 DEF EchoesHaveCause, Stopped
      <3> QED BY <3>1, <3>2
    <2>6. \A i \in Queue' : results'[i].err # "indexing"
      BY <2>2 DEF EchoesHaveCause
    <2> QED
      BY <1>1, <1>2, <2>1, <2>4, <2>5, <2>6 DEF EchoesHaveCause
  <1>7. CASE Cancel(w)
    <2>1. /\ \A v \in Workers : result'[v] = result[v] /\ (pc'[v] = "cancel" => pc[v] = "cancel")
          /\ UNCHANGED <<results>> /\ cancelled' = TRUE /\ pc[w] = "cancel"
      BY <1>0, <1>7 DEF Cancel, Goto
    <2>2. Stopped'
      BY <1>2, <2>1 DEF EchoesHaveCause
    <2> QED
      BY <1>1, <2>1, <2>2 DEF EchoesHaveCause, Queue
  <1> QED
    BY <1>4, <1>5, <1>6, <1>7, OutcomeOfFetch DEF WorkerStep

LEMMA EchoesStep ==
  ASSUME PageTypeOK, JobsInOrder, ResultsMarked, EchoesHaveCause, ReturnsLast, Next
  PROVE  EchoesHaveCause'
  <1>1. Stopped => Stopped'
    BY StoppedStays
  <1>2. CASE Refuse \/ ReceiveError \/ Drop \/ Yield
    <2>1. Receive /\ UNCHANGED <<pc, result, cancelled, stopping>> /\ consumer # "returned"
      BY <1>2 DEF Refuse, ReceiveError, Drop, Yield, Receive
    <2>2. fetchErr # "none" => fetchErr' = fetchErr
      BY <1>2 DEF Refuse, ReceiveError, Drop, Yield, consuming
    <2>3. /\ \A i \in Queue' : i + 1 \in Queue /\ results'[i] = results[i + 1]
          /\ \A i \in Queue : i # 1 => i - 1 \in Queue' /\ results'[i - 1] = results[i]
          /\ Head(results) = results[1] /\ 1 \in Queue
      BY <2>1, ReceiveFacts
    <2>4. results[1].err = "rate_limit" => fetchErr' # "none"
      <3>1. results[1].err = "rate_limit" => Head(results).status = "failed"
        BY <2>3 DEF ResultsMarked
      <3>2. CASE ReceiveError
        BY <2>3, <3>2 DEF ReceiveError
      <3> QED BY <1>2, <3>1, <3>2 DEF Refuse, Drop, Yield
    <2>5. \A i \in Queue' : results'[i].err \in {"context", "other"} =>
            \/ stopping' \/ fetchErr' # "none"
            \/ \E k \in Queue' : k < i /\ results'[k].err = "rate_limit"
      <3> SUFFICES ASSUME NEW i \in Queue', results'[i].err \in {"context", "other"},
                          ~stopping, fetchErr' = "none"
                   PROVE  \E k \in Queue' : k < i /\ results'[k].err = "rate_limit"
        BY <2>1
      <3>1. PICK k \in Queue : k < i + 1 /\ results[k].err = "rate_limit"
        BY <2>2, <2>3 DEF EchoesHaveCause
      <3>2. k # 1
        BY <2>4, <3>1
      <3>3. k - 1 < i
        BY <3>1 DEF Queue
      <3> QED BY <2>3, <3>1, <3>2, <3>3
    <2>6. fetchErr' \in {"context", "other"} => stopping'
      <3>1. results[1].err \in {"context", "other"} => stopping \/ fetchErr # "none"
        BY <2>3 DEF EchoesHaveCause, Queue
      <3>2. fetchErr' = fetchErr \/ (fetchErr = "none" /\ fetchErr' = results[1].err)
        BY <1>2, <2>3 DEF Refuse, ReceiveError, Drop, Yield, consuming
      <3> QED BY <2>1, <3>1, <3>2 DEF EchoesHaveCause
    <2>7. \A i \in Queue' : results'[i].err # "indexing"
      BY <2>3 DEF EchoesHaveCause
    <2> QED
      BY <1>1, <2>1, <2>5, <2>6, <2>7 DEF EchoesHaveCause
  <1>3. CASE BatchIndexed \/ IndexingFails \/ Return \/ Shutdown \/ Returned
    <2>1. UNCHANGED <<pc, result, results>> /\ Queue' = Queue
      BY <1>3, QuietFacts DEF Queue
    <2>2. (stopping => stopping') /\ (fetchErr # "none" => fetchErr' # "none")
      BY <1>3 DEF BatchIndexed, IndexingFails, Return, Shutdown, Returned, consuming, vars
    <2>3. /\ cancelled' => Stopped' \/ consumer' = "returned"
          /\ stopping' => cancelled'
          /\ fetchErr' \in {"context", "other"} => stopping'
      <3>1. CASE BatchIndexed
        BY <1>1, <3>1 DEF BatchIndexed, EchoesHaveCause
      <3>2. CASE IndexingFails
        BY <3>2 DEF IndexingFails, Stopped
      <3>3. CASE Return
        BY <3>3 DEF Return, EchoesHaveCause
      <3>4. CASE Shutdown
        BY <3>4 DEF Shutdown, Stopped
      <3>5. CASE Returned
        BY <1>1, <3>5 DEF Returned, vars, EchoesHaveCause
      <3> QED BY <1>3, <3>1, <3>2, <3>3, <3>4, <3>5
    <2> QED
      BY <1>1, <2>1, <2>2, <2>3 DEF EchoesHaveCause
  <1> QED
    BY <1>2, <1>3, EchoesWorker DEF Next, ConsumerStep

-----------------------------------------------------------------------------
(* The theorems.                                                           *)

LEMMA InitInv == Init => PageInv
  <1> SUFFICES ASSUME Init PROVE PageInv
    OBVIOUS
  <1>1. PageTypeOK
    BY InitType
  <1>2. /\ Len(results) = 0 /\ Queue = {}
        /\ Len(jobs) = ItemCount /\ (\A i \in Items : jobs[i] = i) /\ Taken = {}
    BY ItemCountAssumption DEF Init, Queue, Taken, Items
  <1>3. BatchNotFull
    BY BatchSizeAssumption DEF Init, BatchNotFull
  <1>4. ResultsMarked
    BY <1>2, NoResultFacts DEF Init, ResultsMarked
  <1>5. JobsInOrder
    BY <1>2, ItemCountAssumption DEF JobsInOrder, Items
  <1>6. InOnePlace
    BY <1>2 DEF Init, InOnePlace, Busy, Settled
  <1>7. EchoesHaveCause
    BY <1>2, NoResultFacts DEF Init, EchoesHaveCause
  <1>8. LimitArrives /\ NothingDropped /\ EndsLast /\ ReturnsLast
    BY <1>2 DEF Init, LimitArrives, NothingDropped, EndsLast, ReturnsLast
  <1> QED
    BY <1>1, <1>3, <1>4, <1>5, <1>6, <1>7, <1>8 DEF PageInv

LEMMA StepInv == PageInv /\ [Next]_vars => PageInv'
  <1> SUFFICES ASSUME PageInv, [Next]_vars PROVE PageInv'
    OBVIOUS
  <1>1. CASE Next
    <2>1. PageTypeOK' /\ BatchNotFull' /\ ResultsMarked' /\ JobsInOrder' /\ InOnePlace'
      BY <1>1, TypeStep, BatchNotFullStep, ResultsMarkedStep, JobsInOrderStep, InOnePlaceStep
      DEF PageInv
    <2>2. EchoesHaveCause' /\ LimitArrives' /\ NothingDropped' /\ EndsLast' /\ ReturnsLast'
      BY <1>1, EchoesStep, LimitArrivesStep, NothingDroppedStep, EndsLastStep, ReturnsLastStep
      DEF PageInv
    <2> QED
      BY <2>1, <2>2 DEF PageInv
  <1>2. CASE UNCHANGED vars
    <2>1. PageTypeOK' /\ BatchNotFull' /\ JobsInOrder'
      BY <1>2 DEF vars, PageInv, PageTypeOK, BatchNotFull, JobsInOrder
    <2>2. /\ Queue' = Queue /\ Taken' = Taken /\ Settled' = Settled /\ (Stopped' <=> Stopped)
          /\ \A w \in Workers : Busy(w)' <=> Busy(w)
      BY <1>2 DEF vars, Queue, Taken, Settled, Stopped, Busy
    <2>3. ResultsMarked' /\ InOnePlace'
      BY <1>2, <2>2 DEF vars, PageInv, ResultsMarked, InOnePlace
    <2>4. EchoesHaveCause' /\ LimitArrives'
      BY <1>2, <2>2 DEF vars, PageInv, EchoesHaveCause, LimitArrives
    <2>5. NothingDropped' /\ EndsLast' /\ ReturnsLast'
      BY <1>2, <2>2 DEF vars, PageInv, NothingDropped, EndsLast, ReturnsLast
    <2> QED
      BY <2>1, <2>3, <2>4, <2>5 DEF PageInv
  <1> QED
    BY <1>1, <1>2

(* The inductive invariant of the pool of client.go:476, from which the    *)
(* theorems below are drawn.                                               *)
THEOREM PageInvariant == Spec => []PageInv
  BY InitInv, StepInv, PTL DEF Spec

(* Every variable of the pool of client.go:476 stays within its type: no   *)
(* channel holds more than its capacity, no batch more than its size.      *)
THEOREM TypeCorrect == Spec => []TypeOK
  <1>1. PageInv => TypeOK
    <2> SUFFICES ASSUME PageInv PROVE TypeOK
      OBVIOUS
    <2>1. {cancelled, stopping, limited} \subseteq BOOLEAN
      BY Zenon DEF PageInv, PageTypeOK
    <2>2. batch \in 0..BatchSize
      BY BatchSizeAssumption DEF PageInv, PageTypeOK, BatchNotFull
    <2> QED
      BY <2>1, <2>2 DEF PageInv, PageTypeOK, TypeOK, Labels
  <1> QED
    BY <1>1, PageInvariant, PTL

(* README.md:19: a rate limit that stops a request for good fails the      *)
(* page, and the error reported is not one that only follows from the      *)
(* cancellation of the other workers.                                      *)
THEOREM CauseReported == Spec => []CauseIsReported
  <1>1. PageInv => CauseIsReported
    <2> SUFFICES ASSUME PageInv, consumer = "returned"
                 PROVE  /\ limited => fetchErr # "none"
                        /\ fetchErr \in {"context", "other"} => stopping
      BY DEF CauseIsReported, Returning
    <2>1. Queue = {} /\ \A w \in Workers : result[w].err = "none"
      BY DEF PageInv, ReturnsLast, ResultsMarked, Queue
    <2> QED
      BY <2>1 DEF PageInv, LimitArrives, EchoesHaveCause
  <1> QED
    BY <1>1, PageInvariant, PTL

(* A page that ends without an error has handed on or counted each of its  *)
(* search results, whatever the number of workers and of results.          *)
THEOREM AllResultsAccountedFor == Spec => []AllAccountedFor
  <1>1. PageInv => AllAccountedFor
    <2> SUFFICES ASSUME PageInv, consumer = "returned", fetchErr = "none"
                 PROVE  yielded = Items \ refused
      BY DEF AllAccountedFor, Returning
    <2>1. Queue = {} /\ ~stopping /\ \A w \in Workers : pc[w] = "done"
      BY DEF PageInv, ReturnsLast, Queue
    <2>2. ~Stopped
      BY <2>1 DEF Stopped
    <2>3. Workers # {}
      BY WorkersAssumption, FS_EmptySet
    <2>4. jobs = <<>>
      BY <2>1, <2>2, <2>3 DEF PageInv, EndsLast
    <2>5. Taken = Items
      BY <2>4, ItemCountAssumption DEF Taken, Items
    <2>6. Items \subseteq Settled
      BY <2>1, <2>2, <2>5 DEF PageInv, NothingDropped, Busy
    <2> QED
      BY <2>6 DEF PageInv, PageTypeOK, InOnePlace, Settled
  <1> QED
    BY <1>1, PageInvariant, PTL
=============================================================================

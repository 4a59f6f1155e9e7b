------------------------------ MODULE FetchPool ------------------------------
(***************************************************************************)
(* fetchCandidates of internal/github for one page of search results: the  *)
(* workers that download candidates, the bounded channel of results, and   *)
(* the consumer that hands each candidate to the indexer.  The indexer's   *)
(* yield fills a batch and, when it is full, assesses and stores it before *)
(* it returns, while the workers go on.                                    *)
(***************************************************************************)
EXTENDS Naturals, Sequences, FiniteSets

CONSTANTS
  ItemCount,  \* search results of the page
  Workers,    \* min(concurrency, results) workers
  BatchSize   \* indexBatchSize

ASSUME ItemCountAssumption == ItemCount \in Nat \ {0}
ASSUME WorkersAssumption ==
  IsFiniteSet(Workers) /\ Cardinality(Workers) \in 1..ItemCount
ASSUME BatchSizeAssumption == BatchSize \in Nat \ {0}

VARIABLES
  jobs,       \* the closed channel of jobs
  pc,         \* pc[w]: where worker w is
  result,     \* result[w]: what worker w works on, and later sends
  results,    \* the channel of results, with room for one per worker
  cancelled,  \* workCtx.Err() # nil
  stopping,   \* ctx.Err() # nil
  consumer,   \* "receive", "index" (inside yield) or "returned"
  fetchErr,   \* the first error received
  batch,      \* candidates in the batch of the indexer
  yielded,    \* items whose candidate the indexer accepted
  refused,    \* items counted as too few stars or as content failures
  limited     \* history: GitHub's rate limit stopped a request for good

vars == <<jobs, pc, result, results, cancelled, stopping, consumer, fetchErr, batch,
          yielded, refused, limited>>
consuming == <<consumer, fetchErr, batch, yielded, refused>>

Items == 1..ItemCount
NoItem == 0
Errors == {"rate_limit", "context", "other", "indexing"}
Result == [item : Items \cup {NoItem},
           status : {"open", "found", "content_failed", "stars_skipped", "failed"},
           err : Errors \cup {"none"}]
NoResult == [item |-> NoItem, status |-> "open", err |-> "none"]

TypeOK ==
  /\ jobs \in Seq(Items)
  /\ pc \in [Workers -> {"take", "fetch", "send", "cancel", "done"}]
  /\ result \in [Workers -> Result]
  /\ results \in Seq(Result) /\ Len(results) <= Cardinality(Workers)
  /\ {cancelled, stopping, limited} \subseteq BOOLEAN
  /\ consumer \in {"receive", "index", "returned"}
  /\ fetchErr \in Errors \cup {"none"}
  /\ batch \in 0..BatchSize
  /\ yielded \subseteq Items /\ refused \subseteq Items

(* Earlier pages may have left a batch that is not full.                   *)
Init ==
  /\ jobs = [i \in Items |-> i]
  /\ pc = [w \in Workers |-> "take"]
  /\ result = [w \in Workers |-> NoResult]
  /\ results = <<>>
  /\ cancelled = FALSE
  /\ stopping = FALSE
  /\ consumer = "receive"
  /\ fetchErr = "none"
  /\ batch \in 0..(BatchSize - 1)
  /\ yielded = {}
  /\ refused = {}
  /\ limited = FALSE

-----------------------------------------------------------------------------
(* The workers.                                                            *)

Goto(w, label) == pc' = [pc EXCEPT ![w] = label]

Take(w) ==
  /\ pc[w] = "take"
  /\ IF jobs = <<>>
     THEN Goto(w, "done") /\ UNCHANGED <<jobs, result>>
     ELSE /\ jobs' = Tail(jobs)
          /\ IF cancelled
             THEN Goto(w, "done") /\ UNCHANGED result
             ELSE /\ Goto(w, "fetch")
                  /\ result' = [result EXCEPT ![w].item = Head(jobs)]
  /\ UNCHANGED <<results, cancelled, stopping, consuming, limited>>

(* fetchCandidate returns.  Up to three kinds of requests (stars, file,    *)
(* folder) are behind it; the outcome depends on the one that ends it.     *)
Finish(w, status, err) ==
  /\ pc[w] = "fetch"
  /\ result' = [result EXCEPT ![w].status = status, ![w].err = err]
  /\ Goto(w, "send")
  /\ UNCHANGED <<jobs, results, cancelled, stopping, consuming>>

Found(w) == Finish(w, "found", "none") /\ UNCHANGED limited

(* Stars that cannot be looked up count as none.                           *)
TooFewStars(w) == Finish(w, "stars_skipped", "none") /\ UNCHANGED limited

(* The file cannot be read although the context has not ended.  (When only *)
(* the folder cannot be listed, the candidate is Found with the file.)     *)
Unavailable(w) ==
  ~cancelled /\ Finish(w, "content_failed", "none") /\ UNCHANGED limited

(* requestMustAbort: GitHub keeps limiting...                              *)
RateLimited(w) == Finish(w, "failed", "rate_limit") /\ limited' = TRUE

(* ... or any other error once the context has ended.                      *)
Aborted(w) ==
  /\ cancelled
  /\ \E err \in {"context", "other"} : Finish(w, "failed", err)
  /\ UNCHANGED limited

(* Mutant: a failing worker cancels the others before it sends.            *)
SendAfterCancel(w) ==
  \/ /\ pc[w] = "send" /\ result[w].err # "none" /\ ~cancelled
     /\ cancelled' = TRUE
     /\ UNCHANGED <<jobs, pc, result, results, stopping, consuming, limited>>
  \/ /\ pc[w] = "send" /\ (result[w].err = "none" \/ cancelled)
     /\ Len(results) < Cardinality(Workers)
     /\ results' = Append(results, result[w])
     /\ result' = [result EXCEPT ![w] = NoResult]
     /\ Goto(w, IF result[w].err = "none" THEN "take" ELSE "cancel")
     /\ UNCHANGED <<jobs, cancelled, stopping, consuming, limited>>

(* Mutant: a channel that takes a result for every job.                    *)
SendUnbounded(w) ==
  /\ pc[w] = "send"
  /\ results' = Append(results, result[w])
  /\ result' = [result EXCEPT ![w] = NoResult]
  /\ Goto(w, IF result[w].err = "none" THEN "take" ELSE "cancel")
  /\ UNCHANGED <<jobs, cancelled, stopping, consuming, limited>>

Send(w) ==
  /\ pc[w] = "send"
  /\ Len(results) < Cardinality(Workers)
  /\ results' = Append(results, result[w])
  /\ result' = [result EXCEPT ![w] = NoResult]
  /\ Goto(w, IF result[w].err = "none" THEN "take" ELSE "cancel")
  /\ UNCHANGED <<jobs, cancelled, stopping, consuming, limited>>

(* The worker that failed stops the others and ends.                       *)
Cancel(w) ==
  /\ pc[w] = "cancel"
  /\ cancelled' = TRUE
  /\ Goto(w, "done")
  /\ UNCHANGED <<jobs, result, results, stopping, consuming, limited>>

-----------------------------------------------------------------------------
(* The consumer.                                                           *)

(* Mutant: after an error no result is received any more.                  *)
ReceiveUntilError ==
  /\ consumer = "receive" /\ fetchErr = "none"
  /\ results # <<>>
  /\ results' = Tail(results)

(* The loop goes on receiving after an error.                              *)
Receive ==
  /\ consumer = "receive"
  /\ results # <<>>
  /\ results' = Tail(results)

Refuse ==
  /\ Receive
  /\ Head(results).status \in {"content_failed", "stars_skipped"}
  /\ refused' = refused \cup {Head(results).item}
  /\ UNCHANGED <<jobs, pc, result, cancelled, stopping, consumer, fetchErr, batch,
                 yielded, limited>>

ReceiveError ==
  /\ Receive
  /\ Head(results).status = "failed"
  /\ fetchErr' = IF fetchErr = "none" THEN Head(results).err ELSE fetchErr
  /\ UNCHANGED <<jobs, pc, result, cancelled, stopping, consumer, batch, yielded,
                 refused, limited>>

(* After an error candidates are dropped.                                  *)
Drop ==
  /\ Receive
  /\ Head(results).status = "found"
  /\ fetchErr # "none"
  /\ UNCHANGED <<jobs, pc, result, cancelled, stopping, consuming, limited>>

(* yield: the candidate joins the batch, and a full batch is indexed.      *)
Yield ==
  /\ Receive
  /\ Head(results).status = "found"
  /\ fetchErr = "none"
  /\ batch' = batch + 1
  /\ yielded' = yielded \cup {Head(results).item}
  /\ consumer' = IF batch' = BatchSize THEN "index" ELSE "receive"
  /\ UNCHANGED <<jobs, pc, result, cancelled, stopping, fetchErr, refused, limited>>

BatchIndexed ==
  /\ consumer = "index"
  /\ batch' = 0
  /\ consumer' = "receive"
  /\ UNCHANGED <<jobs, pc, result, results, cancelled, stopping, fetchErr, yielded,
                 refused, limited>>

IndexingFails ==
  /\ consumer = "index"
  /\ batch' = 0
  /\ fetchErr' = "indexing"
  /\ cancelled' = TRUE
  /\ consumer' = "receive"
  /\ UNCHANGED <<jobs, pc, result, results, stopping, yielded, refused, limited>>

(* Mutant: an error of the page is only logged.                            *)
ReturnWithoutError ==
  /\ consumer = "receive"
  /\ results = <<>> /\ \A w \in Workers : pc[w] = "done"
  /\ consumer' = "returned"
  /\ cancelled' = TRUE
  /\ fetchErr' = "none"
  /\ UNCHANGED <<jobs, pc, result, results, stopping, batch, yielded, refused, limited>>

(* The channel of results is closed once every worker has ended.           *)
Return ==
  /\ consumer = "receive"
  /\ results = <<>> /\ \A w \in Workers : pc[w] = "done"
  /\ consumer' = "returned"
  /\ cancelled' = TRUE
  /\ fetchErr' = IF fetchErr = "none" /\ stopping THEN "context" ELSE fetchErr
  /\ UNCHANGED <<jobs, pc, result, results, stopping, batch, yielded, refused, limited>>

Shutdown ==
  /\ ~stopping /\ consumer # "returned"
  /\ stopping' = TRUE
  /\ cancelled' = TRUE
  /\ UNCHANGED <<jobs, pc, result, results, consuming, limited>>

Returned ==
  /\ consumer = "returned"
  /\ \A w \in Workers : pc[w] = "done"
  /\ UNCHANGED vars

WorkerStep(w) ==
  \/ Take(w) \/ Found(w) \/ TooFewStars(w) \/ Unavailable(w) \/ RateLimited(w)
  \/ Aborted(w) \/ Send(w) \/ Cancel(w)

ConsumerStep ==
  \/ Refuse \/ ReceiveError \/ Drop \/ Yield \/ BatchIndexed \/ IndexingFails \/ Return

Next ==
  \/ \E w \in Workers : WorkerStep(w)
  \/ ConsumerStep \/ Shutdown \/ Returned

Spec == Init /\ [][Next]_vars

(* Requests end, and so does indexing a batch (IndexBatch!BatchReturns).   *)
Fairness == (\A w \in Workers : WF_vars(WorkerStep(w))) /\ WF_vars(ConsumerStep)

FairSpec == Spec /\ Fairness

-----------------------------------------------------------------------------
Returning == consumer = "returned"

(* README.md:19: repeated rate-limit failures fail the run instead of      *)
(* recording skills as unavailable; and what the run reports is what went  *)
(* wrong first: errors that only follow from cancelling the other workers  *)
(* are reported only when the process is stopping.                         *)
CauseIsReported ==
  Returning => /\ (limited => fetchErr # "none")
               /\ (fetchErr \in {"context", "other"} => stopping)

(* A page that ends without an error has handed every search result to the *)
(* indexer or counted it as refused, and none as both.                     *)
AllAccountedFor ==
  Returning /\ fetchErr = "none" => yielded = Items \ refused

(* Whatever fails, the page ends.                                          *)
PageEnds == <>Returning

(* README.md:69: discovery produces at most 10 candidates, audits and      *)
(* stores that batch, and only then continues.                             *)
OneBatchAtATime ==
  [][\A w \in Workers :
       pc[w] = "take" /\ pc'[w] = "fetch" => consumer # "index"]_vars
=============================================================================

----------------------------- MODULE LookupPool -----------------------------
(***************************************************************************)
(* fetchRepositoryMetadata and fetchRepositorySkillItems of                *)
(* internal/github: workers look up repositories behind the rate gate, and *)
(* a consumer gathers their results.  Unlike the pool of FetchPool, it     *)
(* leaves at the first limit and cancels nobody: its workers go on, while  *)
(* the program goes on to other requests, and to the next run.             *)
(***************************************************************************)
EXTENDS RateGate, Sequences, FiniteSets

CONSTANTS
  Workers,   \* min(concurrency, names) of the callers; the others are free
  Core,      \* the resource of both look-ups
  NameCount  \* repositories to look up

ASSUME WorkersAssumption ==
  /\ Workers \subseteq Callers /\ Workers # {} /\ IsFiniteSet(Workers)
  /\ Core \in Resources
ASSUME NameCountAssumption == NameCount \in Nat \ {0}

VARIABLES
  jobs,     \* names left in the closed channel of jobs
  job,      \* job[w]: state of the job of worker w, and later its result
  results,  \* the channel of results
  consumer, \* "receive", "failed" or "returned"
  counted,  \* results the consumer has counted, failures among them
  limited   \* history: a look-up ended in a limit

pool == <<jobs, job, results, consumer, counted, limited>>
all == <<vars, pool>>

Results == {"found", "failed", "limit"}

PoolInit ==
  /\ Init
  /\ jobs = NameCount
  /\ job = [w \in Workers |-> "none"]
  /\ results = <<>>
  /\ consumer = "receive"
  /\ counted = 0
  /\ limited = FALSE

-----------------------------------------------------------------------------
(* The workers.  A worker that waits for the gate or for an answer is a    *)
(* caller of RateGate.                                                     *)

Take(w) ==
  /\ job[w] = "none" /\ jobs > 0
  /\ jobs' = jobs - 1
  /\ job' = [job EXCEPT ![w] = "lookup"]
  /\ Start(w) /\ resource'[w] = Core
  /\ UNCHANGED <<results, consumer, counted, limited>>

LookupStep(w) ==
  /\ job[w] = "lookup"
  /\ Locking(w) \/ Waking(w) \/ Requesting(w)
  /\ pc'[w] # "idle"
  /\ UNCHANGED pool

Ends(w, result) ==
  /\ job[w] = "lookup"
  /\ pc'[w] = "idle"
  /\ job' = [job EXCEPT ![w] = result]
  /\ limited' = (limited \/ result = "limit")
  /\ UNCHANGED <<jobs, results, consumer, counted>>

(* An answer: the repository or tree (also one that is refused for its     *)
(* stars or its missing branch), something unreadable, or another error.   *)
LookupAnswered(w) ==
  /\ Answered(w) \/ Block(w)
  /\ \E result \in {"found", "failed"} : Ends(w, result)

LookupLimited(w) ==
  /\ attempt[w] = MaxRetries
  /\ Answered(w) /\ Ends(w, "limit")

LookupCancelled(w) ==
  /\ PassGate(w) \/ WaitAborted(w)
  /\ Ends(w, "failed")

(* Mutant: a channel without slots, which hands over to a receiver only.   *)
SendUnbuffered(w) ==
  /\ job[w] \in Results
  /\ results = <<>> /\ consumer = "receive"
  /\ results' = Append(results, job[w])
  /\ job' = [job EXCEPT ![w] = "none"]
  /\ UNCHANGED <<vars, jobs, consumer, counted, limited>>

(* The channel has a slot for every name.                                  *)
Send(w) ==
  /\ job[w] \in Results
  /\ Len(results) < NameCount
  /\ results' = Append(results, job[w])
  /\ job' = [job EXCEPT ![w] = "none"]
  /\ UNCHANGED <<vars, jobs, consumer, counted, limited>>

WorkerEnds(w) ==
  /\ job[w] = "none" /\ jobs = 0
  /\ job' = [job EXCEPT ![w] = "ended"]
  /\ UNCHANGED <<vars, jobs, results, consumer, counted, limited>>

-----------------------------------------------------------------------------
(* The consumer.                                                           *)

(* Mutant: only the end of the context makes an error fatal.               *)
MustAbortWhenStopping(result) == result # "found" /\ stopping

(* requestMustAbort                                                        *)
MustAbort(result) == result = "limit" \/ (result = "failed" /\ stopping)

Receive ==
  /\ consumer = "receive"
  /\ results # <<>>
  /\ results' = Tail(results)
  /\ IF MustAbort(Head(results))
     THEN consumer' = "failed" /\ UNCHANGED counted
     ELSE counted' = counted + 1 /\ UNCHANGED consumer
  /\ UNCHANGED <<vars, jobs, job, limited>>

(* The channel is closed once every worker has ended.                      *)
Return ==
  /\ consumer = "receive"
  /\ results = <<>> /\ \A w \in Workers : job[w] = "ended"
  /\ consumer' = "returned"
  /\ UNCHANGED <<vars, jobs, job, results, counted, limited>>

-----------------------------------------------------------------------------
(* Callers that belong to no pool: what the program does next.             *)
FreeStep(c) ==
  /\ Start(c) \/ Locking(c) \/ Waking(c) \/ Requesting(c)
  /\ UNCHANGED pool

WorkerStep(w) ==
  \/ Take(w) \/ LookupStep(w) \/ LookupAnswered(w) \/ LookupLimited(w)
  \/ LookupCancelled(w) \/ Send(w) \/ WorkerEnds(w)

PoolNext ==
  \/ \E w \in Workers : WorkerStep(w)
  \/ \E c \in Callers \ Workers : FreeStep(c)
  \/ Receive \/ Return
  \/ (Tick \/ Shutdown) /\ UNCHANGED pool

PoolSpec == PoolInit /\ [][PoolNext]_all

(* As in RateGate, and workers and consumer run.                           *)
PoolFairness ==
  /\ WF_all(Tick /\ UNCHANGED pool)
  /\ WF_all(Receive \/ Return)
  /\ \A w \in Workers :
       /\ SF_all(WorkerStep(w) /\ Locking(w))
       /\ WF_all(WorkerStep(w))
  /\ \A c \in Callers \ Workers :
       /\ SF_all(Locking(c) /\ UNCHANGED pool)
       /\ WF_all((Waking(c) \/ Requesting(c)) /\ UNCHANGED pool)

FairPoolSpec == PoolSpec /\ PoolFairness

-----------------------------------------------------------------------------
(* README.md:19: repeated rate-limit failures fail the run.  A look-up     *)
(* that returns has counted every name, and none of them hit a limit.      *)
LookupIsComplete ==
  consumer = "returned" => counted = NameCount /\ ~limited

(* client.go:312, 448: the pool ends, and so does every worker, also one   *)
(* whose consumer has left; and so does every call of the others.          *)
PoolEnds ==
  /\ <>(consumer # "receive")
  /\ \A w \in Workers : <>[](job[w] = "ended")
  /\ CallsEnd
=============================================================================

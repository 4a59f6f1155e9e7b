-------------------------- MODULE LookupPoolProofs --------------------------
(***************************************************************************)
(* Proofs about LookupPool, for any number of workers, names and other     *)
(* callers: the pool keeps to the rate gate, so what RateGateProofs shows  *)
(* of the gate holds with the pool in front of it, and a look-up that      *)
(* returns is complete.                                                    *)
(***************************************************************************)
EXTENDS LookupPool, RateGateProofs, FiniteSetTheorems

-----------------------------------------------------------------------------
(* Every step of the pool is a step of the gate, or leaves it alone.       *)

LEMMA WorkerIsCaller ==
  ASSUME NEW w \in Workers, WorkerStep(w)
  PROVE  [Next]_vars
  <1>1. w \in Callers
    BY WorkersAssumption
  <1>2. CASE Take(w) \/ LookupStep(w)
    BY <1>1, <1>2 DEF Take, LookupStep, Next
  <1>3. CASE LookupAnswered(w) \/ LookupLimited(w)
    BY <1>1, <1>3 DEF LookupAnswered, LookupLimited, Next, Locking, Requesting
  <1>4. CASE LookupCancelled(w)
    BY <1>1, <1>4 DEF LookupCancelled, Next, Locking, Waking
  <1>5. CASE Send(w) \/ WorkerEnds(w)
    BY <1>5 DEF Send, WorkerEnds
  <1> QED
    BY <1>2, <1>3, <1>4, <1>5 DEF WorkerStep

LEMMA PoolStepIsGateStep == [PoolNext]_all => [Next]_vars
  <1> SUFFICES ASSUME [PoolNext]_all PROVE [Next]_vars
    OBVIOUS
  <1>1. CASE \E w \in Workers : WorkerStep(w)
    BY <1>1, WorkerIsCaller
  <1>2. CASE \E c \in Callers \ Workers : FreeStep(c)
    BY <1>2 DEF FreeStep, Next
  <1>3. CASE Receive \/ Return
    BY <1>3 DEF Receive, Return
  <1>4. CASE (Tick \/ Shutdown) /\ UNCHANGED pool
    BY <1>4 DEF Next
  <1>5. CASE UNCHANGED all
    BY <1>5 DEF all
  <1> QED
    BY <1>1, <1>2, <1>3, <1>4, <1>5 DEF PoolNext

(* The two pools of client.go:270 and 388 use the gate as any caller does. *)
THEOREM PoolKeepsToGate == PoolSpec => Spec
  <1>1. PoolInit => Init
    BY DEF PoolInit
  <1> QED
    BY <1>1, PoolStepIsGateStep, PTL DEF PoolSpec, Spec

(* README.md:19, for the workers and whoever else sends requests: nobody   *)
(* repeats a request before the instant the last answer named.             *)
THEOREM PoolKeepsInstructions == PoolSpec => []InstructionKept
  BY PoolKeepsToGate, InstructionsAreKept, PTL

(* Nobody passes the gate of a resource that is known to be limited, also  *)
(* while workers without a consumer go on.                                 *)
THEOREM PoolHonoursGate == PoolSpec => GateHonoured
  BY PoolKeepsToGate, GateIsHonoured, PTL

-----------------------------------------------------------------------------
(* Completeness.  Every name is in the channel of jobs, with a worker, in  *)
(* the channel of results or counted; and a limit, once met, is with a     *)
(* worker or in the channel of results until the consumer fails.           *)

Busy == {w \in Workers : job[w] \in Results \cup {"lookup"}}

PoolTypeOK ==
  /\ jobs \in Nat
  /\ job \in [Workers -> Results \cup {"none", "lookup", "ended"}]
  /\ results \in Seq(Results)
  /\ consumer \in {"receive", "failed", "returned"}
  /\ counted \in Nat
  /\ limited \in BOOLEAN

EndsLast == (\E w \in Workers : job[w] = "ended") => jobs = 0

ReturnsLast ==
  consumer = "returned" => results = <<>> /\ \A w \in Workers : job[w] = "ended"

AllSomewhere ==
  consumer # "failed" => jobs + Cardinality(Busy) + Len(results) + counted = NameCount

LimitSomewhere ==
  limited /\ consumer # "failed" =>
    \/ \E w \in Workers : job[w] = "limit"
    \/ \E n \in 1..Len(results) : results[n] = "limit"

PoolInv ==
  /\ PoolTypeOK
  /\ EndsLast
  /\ ReturnsLast
  /\ AllSomewhere
  /\ LimitSomewhere
  /\ LookupIsComplete

LEMMA BusyIsFinite == IsFiniteSet(Busy) /\ Cardinality(Busy) \in Nat
  <1>1. Busy \subseteq Workers
    BY DEF Busy
  <1> QED
    BY <1>1, WorkersAssumption, FS_Subset, FS_CardinalityType

LEMMA PoolInitInv == PoolInit => PoolInv
  <1> SUFFICES ASSUME PoolInit PROVE PoolInv
    OBVIOUS
  <1>1. Busy = {}
    BY DEF PoolInit, Busy, Results
  <1>2. Cardinality(Busy) = 0
    BY <1>1, FS_EmptySet
  <1>3. PoolTypeOK
    <2>1. jobs \in Nat /\ consumer \in {"receive", "failed", "returned"} /\ counted \in Nat
      BY NameCountAssumption DEF PoolInit
    <2>2. job \in [Workers -> Results \cup {"none", "lookup", "ended"}]
      BY DEF PoolInit
    <2>3. results \in Seq(Results)
      BY DEF PoolInit
    <2>4. limited \in BOOLEAN
      BY DEF PoolInit
    <2> QED BY <2>1, <2>2, <2>3, <2>4 DEF PoolTypeOK
  <1>4. limited = FALSE /\ consumer = "receive" /\ \A w \in Workers : job[w] = "none"
    BY DEF PoolInit
  <1>5. EndsLast
    BY <1>4 DEF EndsLast
  <1>6. ReturnsLast
    BY <1>4 DEF ReturnsLast
  <1>7. LimitSomewhere
    BY <1>4 DEF LimitSomewhere
  <1>8. LookupIsComplete
    BY <1>4 DEF LookupIsComplete
  <1>9. AllSomewhere
    BY <1>2, NameCountAssumption DEF PoolInit, AllSomewhere
  <1> QED
    BY <1>3, <1>5, <1>6, <1>7, <1>8, <1>9 DEF PoolInv

(* A worker that takes a name becomes busy.                                *)
LEMMA TakeInv ==
  ASSUME PoolInv, NEW w \in Workers, Take(w)
  PROVE  PoolInv'
  <1> USE DEF PoolInv, PoolTypeOK, Results, Take
  <1>1. Busy' = Busy \cup {w} /\ w \notin Busy
    BY DEF Busy
  <1>2. Cardinality(Busy') = Cardinality(Busy) + 1
    BY <1>1, BusyIsFinite, FS_AddElement
  <1>3. consumer # "returned"
    BY DEF ReturnsLast
  <1>4. PoolTypeOK' /\ EndsLast' /\ ReturnsLast'
    BY <1>3 DEF EndsLast, ReturnsLast
  <1>5. AllSomewhere'
    BY <1>2, BusyIsFinite DEF AllSomewhere
  <1>6. LimitSomewhere'
    BY DEF LimitSomewhere
  <1> QED
    BY <1>3, <1>4, <1>5, <1>6 DEF LookupIsComplete

(* A look-up that ends leaves its worker busy, with the result.            *)
LEMMA EndsInv ==
  ASSUME PoolInv, NEW w \in Workers, NEW result \in Results, Ends(w, result)
  PROVE  PoolInv'
  <1> USE DEF PoolInv, PoolTypeOK, Results, Ends
  <1>1. Busy' = Busy
    BY DEF Busy
  <1>2. consumer # "returned"
    BY DEF ReturnsLast
  <1>3. PoolTypeOK' /\ EndsLast' /\ ReturnsLast'
    BY <1>2 DEF EndsLast, ReturnsLast
  <1>4. AllSomewhere'
    BY <1>1 DEF AllSomewhere
  <1>5. LimitSomewhere'
    BY DEF LimitSomewhere
  <1> QED
    BY <1>2, <1>3, <1>4, <1>5 DEF LookupIsComplete

(* A result goes from its worker to the channel.                           *)
LEMMA SendInv ==
  ASSUME PoolInv, NEW w \in Workers, Send(w)
  PROVE  PoolInv'
  <1> USE DEF PoolInv, PoolTypeOK, Results, Send
  <1>1. Busy' = Busy \ {w} /\ w \in Busy
    BY DEF Busy
  <1>2. Cardinality(Busy') = Cardinality(Busy) - 1
    BY <1>1, BusyIsFinite, FS_RemoveElement
  <1>3. consumer # "returned"
    BY DEF ReturnsLast
  <1>4. PoolTypeOK' /\ EndsLast' /\ ReturnsLast'
    BY <1>3 DEF EndsLast, ReturnsLast
  <1>5. Len(results') = Len(results) + 1
    OBVIOUS
  <1>6. AllSomewhere'
    BY <1>2, <1>5, BusyIsFinite DEF AllSomewhere
  <1>7. LimitSomewhere'
    <2> SUFFICES ASSUME limited, consumer # "failed"
                 PROVE  LimitSomewhere'
      BY DEF LimitSomewhere
    <2>1. CASE job[w] = "limit"
      <3>1. results'[Len(results')] = "limit" /\ Len(results') \in 1..Len(results')
        BY <2>1
      <3> QED BY <3>1 DEF LimitSomewhere
    <2>2. CASE \E v \in Workers : v # w /\ job[v] = "limit"
      BY <2>2 DEF LimitSomewhere
    <2>3. CASE \E n \in 1..Len(results) : results[n] = "limit"
      <3>1. PICK n \in 1..Len(results) : results[n] = "limit"
        BY <2>3
      <3>2. results'[n] = "limit" /\ n \in 1..Len(results')
        BY <3>1
      <3> QED BY <3>2 DEF LimitSomewhere
    <2> QED BY <2>1, <2>2, <2>3 DEF LimitSomewhere
  <1> QED
    BY <1>3, <1>4, <1>6, <1>7 DEF LookupIsComplete

(* A worker ends with nothing in hand, and when no job is left.            *)
LEMMA WorkerEndsInv ==
  ASSUME PoolInv, NEW w \in Workers, WorkerEnds(w)
  PROVE  PoolInv'
  <1> USE DEF PoolInv, PoolTypeOK, Results, WorkerEnds
  <1>1. Busy' = Busy
    BY DEF Busy
  <1>2. PoolTypeOK' /\ EndsLast' /\ ReturnsLast'
    BY DEF EndsLast, ReturnsLast
  <1>3. AllSomewhere'
    BY <1>1 DEF AllSomewhere
  <1>4. LimitSomewhere'
    BY DEF LimitSomewhere
  <1> QED
    BY <1>2, <1>3, <1>4 DEF LookupIsComplete

(* A result goes from the channel to the count, or ends the look-up; a     *)
(* limit always does the latter.                                           *)
LEMMA ReceiveInv ==
  ASSUME PoolInv, Receive
  PROVE  PoolInv'
  <1> USE DEF PoolInv, PoolTypeOK, Results, Receive
  <1>1. Busy' = Busy
    BY DEF Busy
  <1>2. Len(results') = Len(results) - 1 /\ Len(results) \in Nat \ {0}
    OBVIOUS
  <1>3. PoolTypeOK' /\ EndsLast' /\ ReturnsLast'
    BY DEF EndsLast, ReturnsLast
  <1>4. AllSomewhere'
    BY <1>1, <1>2, BusyIsFinite DEF AllSomewhere
  <1>5. LimitSomewhere'
    <2> SUFFICES ASSUME limited, consumer' # "failed"
                 PROVE  LimitSomewhere'
      BY DEF LimitSomewhere
    <2>1. Head(results) # "limit"
      BY DEF MustAbort
    <2>2. CASE \E v \in Workers : job[v] = "limit"
      BY <2>2 DEF LimitSomewhere
    <2>3. CASE \E n \in 1..Len(results) : results[n] = "limit"
      <3>1. PICK n \in 1..Len(results) : results[n] = "limit"
        BY <2>3
      <3>2. n # 1
        BY <2>1, <3>1
      <3>3. results'[n - 1] = "limit" /\ n - 1 \in 1..Len(results')
        BY <1>2, <3>1, <3>2
      <3> QED BY <3>3 DEF LimitSomewhere
    <2> QED BY <2>2, <2>3 DEF LimitSomewhere
  <1> QED
    BY <1>3, <1>4, <1>5 DEF LookupIsComplete

(* When the channel of results is closed, everything is counted.           *)
LEMMA ReturnInv ==
  ASSUME PoolInv, Return
  PROVE  PoolInv'
  <1> USE DEF PoolInv, PoolTypeOK, Results, Return
  <1>1. Busy = {} /\ Busy' = Busy
    BY DEF Busy
  <1>2. Cardinality(Busy) = 0 /\ Len(results) = 0
    BY <1>1, FS_EmptySet
  <1>3. jobs = 0
    BY WorkersAssumption DEF EndsLast
  <1>4. counted = NameCount
    BY <1>2, <1>3 DEF AllSomewhere
  <1>5. ~limited
    BY <1>2 DEF LimitSomewhere
  <1>6. PoolTypeOK' /\ EndsLast' /\ ReturnsLast' /\ LimitSomewhere'
    BY <1>5 DEF EndsLast, ReturnsLast, LimitSomewhere
  <1>7. AllSomewhere'
    BY <1>1 DEF AllSomewhere
  <1> QED
    BY <1>4, <1>5, <1>6, <1>7 DEF LookupIsComplete

LEMMA PoolNextInv == PoolInv /\ [PoolNext]_all => PoolInv'
  <1> SUFFICES ASSUME PoolInv, [PoolNext]_all PROVE PoolInv'
    OBVIOUS
  <1>1. ASSUME UNCHANGED pool PROVE PoolInv'
    BY <1>1 DEF pool, PoolInv, PoolTypeOK, EndsLast, ReturnsLast, AllSomewhere,
                LimitSomewhere, LookupIsComplete, Busy
  <1>2. ASSUME NEW w \in Workers, WorkerStep(w) PROVE PoolInv'
    <2>1. CASE Take(w) BY <2>1, TakeInv
    <2>2. CASE LookupStep(w) BY <1>1, <2>2 DEF LookupStep
    <2>3. CASE LookupAnswered(w)
      BY <2>3, EndsInv DEF LookupAnswered, Results
    <2>4. CASE LookupLimited(w)
      BY <2>4, EndsInv DEF LookupLimited, Results
    <2>5. CASE LookupCancelled(w)
      BY <2>5, EndsInv DEF LookupCancelled, Results
    <2>6. CASE Send(w) BY <2>6, SendInv
    <2>7. CASE WorkerEnds(w) BY <2>7, WorkerEndsInv
    <2> QED BY <1>2, <2>1, <2>2, <2>3, <2>4, <2>5, <2>6, <2>7 DEF WorkerStep
  <1>3. CASE Receive BY <1>3, ReceiveInv
  <1>4. CASE Return BY <1>4, ReturnInv
  <1>5. CASE \E c \in Callers \ Workers : FreeStep(c)
    BY <1>1, <1>5 DEF FreeStep
  <1>6. CASE (Tick \/ Shutdown) /\ UNCHANGED pool
    BY <1>1, <1>6
  <1>7. CASE UNCHANGED all
    BY <1>1, <1>7 DEF all
  <1> QED
    BY <1>2, <1>3, <1>4, <1>5, <1>6, <1>7 DEF PoolNext

(* README.md:19: a look-up that returns has counted every name, and none   *)
(* of them hit a limit, for any number of workers and names.               *)
THEOREM LookupsAreComplete == PoolSpec => []LookupIsComplete
  <1>1. PoolInv => LookupIsComplete
    BY DEF PoolInv
  <1> QED
    BY PoolInitInv, PoolNextInv, <1>1, PTL DEF PoolSpec
=============================================================================

--------------------------- MODULE RateGateProofs ---------------------------
(***************************************************************************)
(* Proofs about RateGate, for any number of callers, any resources, any    *)
(* number of retries and any waits: its types, and that requests respect   *)
(* the limits they were told of and those the gate knows.                  *)
(***************************************************************************)
EXTENDS RateGate, TLAPS

-----------------------------------------------------------------------------
(* The strengthening.  A caller in front of the gate, or waiting with its  *)
(* mutex, is kept there at least as long as its last answer asked; the     *)
(* mutex keeps the gate and the timer of the one who waits in step.        *)

WillRetry ==
  \A c \in Callers : pc[c] = "block_and_retry" => attempt[c] < MaxRetries

GateKeepsInstruction ==
  \A c \in Callers : pc[c] = "gate" => told[c] <= blocked[resource[c]]

WaiterHoldsMutex ==
  \A c \in Callers :
    pc[c] = "waiting" => /\ holder = c
                         /\ delay[c] = blocked[resource[c]]
                         /\ told[c] <= delay[c]

Inv ==
  /\ TypeOK
  /\ WillRetry
  /\ GateKeepsInstruction
  /\ WaiterHoldsMutex
  /\ InstructionKept

-----------------------------------------------------------------------------
(* The factor of the back-off is a positive number.                        *)
LEMMA BackoffIsNat == ASSUME NEW n \in Nat PROVE Backoff(n) \in Nat
  BY DEF Backoff

(* rateLimitReset never names an instant in the past.                      *)
LEMMA UntilIsNat ==
  ASSUME NEW retryAfter \in Instants, NEW reset \in Instants, NEW n \in Nat
  PROVE  Until(retryAfter, reset, n) \in Nat
  <1>1. Backoff(n) \in Nat BY BackoffIsNat
  <1>2. retryAfter \in Int /\ reset \in Int BY DEF Instants
  <1>3. Minute * Backoff(n) \in Nat BY <1>1, MinuteAssumption
  <1>4. retryAfter >= 0 => retryAfter * Backoff(n) \in Nat BY <1>1, <1>2
  <1> QED BY <1>2, <1>3, <1>4 DEF Until

(* One tick less never makes a wait negative, and keeps the order of two.  *)
LEMMA LessFacts ==
  ASSUME NEW m \in Nat, NEW n \in Nat
  PROVE  Less(m) \in Nat /\ (m <= n => Less(m) <= Less(n)) /\ (m = 0 => Less(m) = 0)
  BY DEF Less

LEMMA InitInv == Init => Inv
  <1> SUFFICES ASSUME Init PROVE Inv
    OBVIOUS
  <1>1. TypeOK
    <2>1. 0 \in 0..MaxRetries
      BY MaxRetriesAssumption
    <2> QED BY <2>1 DEF Init, TypeOK
  <1>2. \A c \in Callers : pc[c] = "idle"
    BY DEF Init
  <1> QED
    BY <1>1, <1>2 DEF Inv, WillRetry, GateKeepsInstruction, WaiterHoldsMutex,
                      InstructionKept

LEMMA NextInv == Inv /\ [Next]_vars => Inv'
  <1> SUFFICES ASSUME Inv, [Next]_vars PROVE Inv'
    OBVIOUS
  <1> USE DEF Inv, TypeOK, WillRetry, GateKeepsInstruction, WaiterHoldsMutex,
          InstructionKept, Goto
  <1>1. ASSUME NEW c \in Callers, Start(c) PROVE Inv'
    BY <1>1, MaxRetriesAssumption DEF Start
  <1>2. ASSUME NEW c \in Callers, PassGate(c) PROVE Inv'
    BY <1>2 DEF PassGate
  <1>3. ASSUME NEW c \in Callers, AwaitReset(c) PROVE Inv'
    BY <1>3, NobodyAssumption DEF AwaitReset
  <1>4. ASSUME NEW c \in Callers, Block(c) PROVE Inv'
    BY <1>4, MaxRetriesAssumption, NobodyAssumption DEF Block
  <1>5. ASSUME NEW c \in Callers, TimerFires(c) PROVE Inv'
    BY <1>5 DEF TimerFires
  <1>6. ASSUME NEW c \in Callers, WaitAborted(c) PROVE Inv'
    BY <1>6 DEF WaitAborted
  <1>7. ASSUME NEW c \in Callers, Answered(c) PROVE Inv'
    BY <1>7 DEF Answered
  <1>8. ASSUME NEW c \in Callers, AnsweredLast(c) PROVE Inv'
    BY <1>8 DEF AnsweredLast, Instants
  <1>9. ASSUME NEW c \in Callers, Limited(c) PROVE Inv'
    <2>1. PICK retryAfter \in Instants, reset \in Instants :
            told' = [told EXCEPT ![c] = Until(retryAfter, reset, attempt[c])]
      BY <1>9 DEF Limited
    <2>2. Until(retryAfter, reset, attempt[c]) \in Nat
      BY UntilIsNat
    <2> QED BY <1>9, <2>1, <2>2 DEF Limited
  <1>10. CASE Tick
    <2>1. TypeOK'
      BY <1>10, LessFacts DEF Tick
    <2>2. WillRetry'
      BY <1>10 DEF Tick
    <2>3. GateKeepsInstruction'
      BY <1>10, LessFacts DEF Tick
    <2>4. WaiterHoldsMutex'
      BY <1>10, LessFacts DEF Tick
    <2>5. InstructionKept'
      BY <1>10, LessFacts DEF Tick
    <2> QED BY <2>1, <2>2, <2>3, <2>4, <2>5
  <1>11. CASE Shutdown
    BY <1>11 DEF Shutdown
  <1>12. CASE UNCHANGED vars
    BY <1>12 DEF vars
  <1> QED
    BY <1>1, <1>2, <1>3, <1>4, <1>5, <1>6, <1>7, <1>8, <1>9, <1>10, <1>11, <1>12
    DEF Next, Locking, Waking, Requesting

LEMMA Inductive == Spec => []Inv
  BY InitInv, NextInv, PTL DEF Spec

-----------------------------------------------------------------------------
(* Every wait that getJSON computes is a number of ticks, and no call is   *)
(* tried more often than allowed.                                          *)
THEOREM TypeCorrect == Spec => []TypeOK
  BY Inductive, PTL DEF Inv

(* README.md:19: no request is sent before the instant that the answer to  *)
(* its previous attempt named.                                             *)
THEOREM InstructionsAreKept == Spec => []InstructionKept
  BY Inductive, PTL DEF Inv

(* awaitRateLimit lets nobody pass while the gate is known to be closed.   *)
THEOREM GateIsHonoured == Spec => GateHonoured
  <1> DEFINE A == \A c \in Callers :
        pc[c] # "request" /\ pc'[c] = "request" => blocked[resource[c]] = 0
  <1>1. Inv /\ [Next]_vars => [A]_vars
    <2> SUFFICES ASSUME Inv, Next, NEW c \in Callers,
                        pc[c] # "request", pc'[c] = "request"
                 PROVE  blocked[resource[c]] = 0
      OBVIOUS
    <2> USE DEF Inv, TypeOK, WaiterHoldsMutex, Goto
    <2>1. PICK d \in Callers : PassGate(d) \/ TimerFires(d)
      BY DEF Next, Locking, Waking, Requesting, Start, PassGate, AwaitReset, Block,
             WaitAborted, Answered, AnsweredLast, Limited, Tick, Shutdown
    <2>2. d = c
      BY <2>1 DEF PassGate, TimerFires
    <2>3. CASE PassGate(c)
      BY <2>3 DEF PassGate
    <2>4. CASE TimerFires(c)
      BY <2>4 DEF TimerFires
    <2> QED BY <2>1, <2>2, <2>3, <2>4
  <1>2. QED
    BY Inductive, <1>1, PTL DEF Spec, GateHonoured
=============================================================================

------------------------------ MODULE RateGate ------------------------------
(***************************************************************************)
(* getJSON of internal/github: concurrent callers share one rate gate.     *)
(* Every request first waits until the gate of its resource is open, and   *)
(* holds the gate's mutex while it waits.  An answer that announces a      *)
(* limit closes the gate, and the request is tried again.                  *)
(*                                                                         *)
(* Instants are kept as the ticks that are left until they come, so that   *)
(* no clock bounds the model.                                              *)
(***************************************************************************)
EXTENDS Integers

CONSTANTS
  Callers,    \* goroutines that call getJSON, one call at a time
  Resources,  \* "core" and "code_search"
  MaxRetries, \* maxRateLimitRetries
  Minute,     \* wait of a first retry when the answer names no instant
  LatestReset \* the longest wait an answer names

ASSUME MaxRetriesAssumption == MaxRetries \in Nat
ASSUME MinuteAssumption == Minute \in Nat
ASSUME LatestResetAssumption == LatestReset \in Nat

VARIABLES
  blocked,  \* blocked[r]: ticks until blockedUntil of resource r
  holder,   \* who waits with the mutex held
  pc,       \* pc[c]: where in getJSON caller c is
  resource, \* resource[c]: the resource of its endpoint
  attempt,  \* attempt[c]: the loop variable
  told,     \* told[c]: ticks until the instant its last answer named
  delay,    \* delay[c]: ticks until its timer fires
  stopping  \* ctx.Err() # nil

vars == <<blocked, holder, pc, resource, attempt, told, delay, stopping>>

Nobody == "nobody"
ASSUME NobodyAssumption == Nobody \notin Callers

TypeOK ==
  /\ blocked \in [Resources -> Nat]
  /\ holder \in Callers \cup {Nobody}
  /\ pc \in [Callers -> {"idle", "gate", "waiting", "request", "block_and_retry",
                         "block_and_return"}]
  /\ resource \in [Callers -> Resources]
  /\ attempt \in [Callers -> 0..MaxRetries]
  /\ told \in [Callers -> Nat]
  /\ delay \in [Callers -> Nat]
  /\ stopping \in BOOLEAN

Init ==
  /\ blocked = [r \in Resources |-> 0]
  /\ holder = Nobody
  /\ pc = [c \in Callers |-> "idle"]
  /\ resource \in [Callers -> Resources]
  /\ attempt = [c \in Callers |-> 0]
  /\ told = [c \in Callers |-> 0]
  /\ delay = [c \in Callers |-> 0]
  /\ stopping = FALSE

Goto(c, label) == pc' = [pc EXCEPT ![c] = label]

-----------------------------------------------------------------------------
(* A caller asks for a resource, also when the context has ended.          *)
Start(c) ==
  /\ pc[c] = "idle"
  /\ Goto(c, "gate")
  /\ \E r \in Resources : resource' = [resource EXCEPT ![c] = r]
  /\ attempt' = [attempt EXCEPT ![c] = 0]
  /\ told' = [told EXCEPT ![c] = 0]
  /\ UNCHANGED <<blocked, holder, delay, stopping>>

(* awaitRateLimit: the gate is open, or closed, or the context has ended.  *)
PassGate(c) ==
  /\ pc[c] = "gate" /\ holder = Nobody
  /\ blocked[resource[c]] = 0
  /\ Goto(c, IF stopping THEN "idle" ELSE "request")
  /\ UNCHANGED <<blocked, holder, resource, attempt, told, delay, stopping>>

(* Mutant: the mutex is not held during the wait.                          *)
AwaitResetUnlocked(c) ==
  /\ pc[c] = "gate" /\ holder = Nobody
  /\ blocked[resource[c]] > 0
  /\ delay' = [delay EXCEPT ![c] = blocked[resource[c]]]
  /\ Goto(c, "waiting")
  /\ UNCHANGED <<blocked, holder, resource, attempt, told, stopping>>

AwaitReset(c) ==
  /\ pc[c] = "gate" /\ holder = Nobody
  /\ blocked[resource[c]] > 0
  /\ holder' = c
  /\ delay' = [delay EXCEPT ![c] = blocked[resource[c]]]
  /\ Goto(c, "waiting")
  /\ UNCHANGED <<blocked, resource, attempt, told, stopping>>

TimerFires(c) ==
  /\ pc[c] = "waiting" /\ delay[c] = 0
  /\ holder' = Nobody
  /\ Goto(c, "request")
  /\ UNCHANGED <<blocked, resource, attempt, told, delay, stopping>>

WaitAborted(c) ==
  /\ pc[c] = "waiting" /\ stopping
  /\ holder' = Nobody
  /\ Goto(c, "idle")
  /\ UNCHANGED <<blocked, resource, attempt, told, delay, stopping>>

-----------------------------------------------------------------------------
(* Answers.  A header that is absent, unreadable or names a past instant   *)
(* is -1.                                                                  *)
Instants == -1..LatestReset

(* 1 << min(attempt, 4)                                                    *)
Backoff(n) == <<1, 2, 4, 8, 16>>[(IF n < 4 THEN n ELSE 4) + 1]

(* Mutant: an instant in the past is taken as it is.                       *)
UntilPast(retryAfter, reset, n) ==
  LET asked  == IF retryAfter < 0 THEN -1 ELSE retryAfter * Backoff(n)
  IN  IF reset > asked THEN reset ELSE asked

(* rateLimitReset: Retry-After grows with every attempt, the reset of an   *)
(* exhausted quota does not; the later one counts.                         *)
Until(retryAfter, reset, n) ==
  LET asked  == IF retryAfter < 0 THEN -1 ELSE retryAfter * Backoff(n)
      latest == IF reset > asked THEN reset ELSE asked
  IN  IF latest < 0 THEN Minute * Backoff(n) ELSE latest

(* Success, an error that is no limit, or a limit on the last attempt.     *)
Answered(c) ==
  /\ pc[c] = "request"
  /\ Goto(c, "idle")
  /\ UNCHANGED <<blocked, holder, resource, attempt, told, delay, stopping>>

(* observeRateLimit: success, and the quota is now used up.                *)
AnsweredLast(c) ==
  /\ pc[c] = "request"
  /\ \E reset \in Instants \ {-1} : told' = [told EXCEPT ![c] = reset]
  /\ Goto(c, "block_and_return")
  /\ UNCHANGED <<blocked, holder, resource, attempt, delay, stopping>>

Limited(c) ==
  /\ pc[c] = "request"
  /\ attempt[c] < MaxRetries
  /\ \E retryAfter, reset \in Instants :
       told' = [told EXCEPT ![c] = Until(retryAfter, reset, attempt[c])]
  /\ Goto(c, "block_and_retry")
  /\ UNCHANGED <<blocked, holder, resource, attempt, delay, stopping>>

(* Mutant: the latest answer replaces what is known.                       *)
BlockShortening(c) ==
  /\ pc[c] \in {"block_and_retry", "block_and_return"} /\ holder = Nobody
  /\ blocked' = [blocked EXCEPT ![resource[c]] = told[c]]
  /\ IF pc[c] = "block_and_retry"
     THEN Goto(c, "gate") /\ attempt' = [attempt EXCEPT ![c] = @ + 1]
     ELSE Goto(c, "idle") /\ UNCHANGED attempt
  /\ UNCHANGED <<holder, resource, told, delay, stopping>>

(* blockRateLimit                                                          *)
Block(c) ==
  /\ pc[c] \in {"block_and_retry", "block_and_return"} /\ holder = Nobody
  /\ blocked' = [blocked EXCEPT ![resource[c]] = IF told[c] > @ THEN told[c] ELSE @]
  /\ IF pc[c] = "block_and_retry"
     THEN Goto(c, "gate") /\ attempt' = [attempt EXCEPT ![c] = @ + 1]
     ELSE Goto(c, "idle") /\ UNCHANGED attempt
  /\ UNCHANGED <<holder, resource, told, delay, stopping>>

-----------------------------------------------------------------------------
Less(ticks) == IF ticks > 0 THEN ticks - 1 ELSE 0

Tick ==
  /\ \/ \E r \in Resources : blocked[r] > 0
     \/ \E c \in Callers : told[c] > 0 \/ delay[c] > 0
  /\ blocked' = [r \in Resources |-> Less(blocked[r])]
  /\ told' = [c \in Callers |-> Less(told[c])]
  /\ delay' = [c \in Callers |-> Less(delay[c])]
  /\ UNCHANGED <<holder, pc, resource, attempt, stopping>>

Shutdown == ~stopping /\ stopping' = TRUE
            /\ UNCHANGED <<blocked, holder, pc, resource, attempt, told, delay>>

Locking(c) == PassGate(c) \/ AwaitReset(c) \/ Block(c)
Waking(c) == TimerFires(c) \/ WaitAborted(c)
Requesting(c) == Answered(c) \/ AnsweredLast(c) \/ Limited(c)

Next ==
  \/ \E c \in Callers : Start(c) \/ Locking(c) \/ Waking(c) \/ Requesting(c)
  \/ Tick \/ Shutdown

Spec == Init /\ [][Next]_vars

(* Time passes, requests end, and a goroutine that waits for the mutex     *)
(* gets it: sync.Mutex hands itself to a waiter that has waited too long.  *)
Fairness ==
  /\ WF_vars(Tick)
  /\ \A c \in Callers : SF_vars(Locking(c)) /\ WF_vars(Waking(c)) /\ WF_vars(Requesting(c))

FairSpec == Spec /\ Fairness

-----------------------------------------------------------------------------
(* README.md:19: no request is sent before the instant that the answer to  *)
(* the previous attempt named, whatever the other callers are told.        *)
InstructionKept == \A c \in Callers : pc[c] = "request" => told[c] = 0

(* Limits are coordinated across workers: nobody leaves the gate of a      *)
(* resource while the gate is known to be closed.                          *)
GateHonoured ==
  [][\A c \in Callers :
       pc[c] # "request" /\ pc'[c] = "request" => blocked[resource[c]] = 0]_vars

(* Every call ends, although callers wait for each other and a limit may   *)
(* be renewed while they wait; a shutdown ends the waiting as well.        *)
CallsEnd == \A c \in Callers : pc[c] # "idle" ~> pc[c] = "idle"
=============================================================================

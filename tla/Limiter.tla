------------------------------ MODULE Limiter ------------------------------
(***************************************************************************)
(* The sliding-window rate limiter of internal/httpapi/limiter.go: one     *)
(* list of admission times per API key, all under one mutex, so that every *)
(* call of allow is one step that reads the clock and decides.             *)
(***************************************************************************)
EXTENDS Integers, Sequences

CONSTANTS
  Keys,      \* API keys; a key is known once it is verified
  Limit,     \* RATE_LIMIT_REQUESTS
  Window,    \* RATE_LIMIT_WINDOW, in ticks of the clock
  Second,    \* ticks per second: X-RateLimit-Reset is in whole seconds
  MaxClock   \* bound on the clock

ASSUME LimitAssumption == Limit \in Nat \ {0}
ASSUME WindowAssumption == Window \in Nat \ {0}
ASSUME SecondAssumption == Second \in Nat \ {0}
ASSUME MaxClockAssumption == MaxClock \in Nat

VARIABLES
  clock,     \* time.Now, which never goes back
  requests,  \* requests[k]: the admission times the limiter remembers
  admitted,  \* admitted[k]: history, every admission time
  retryAt    \* retryAt[k]: history, when the last denial said to come back

vars == <<clock, requests, admitted, retryAt>>

None == -1

TypeOK ==
  /\ clock \in Nat
  /\ requests \in [Keys -> Seq(Nat)]
  /\ admitted \in [Keys -> Seq(Nat)]
  /\ retryAt \in [Keys -> Nat \cup {None}]

Init ==
  /\ clock = 0
  /\ requests = [k \in Keys |-> <<>>]
  /\ admitted = [k \in Keys |-> <<>>]
  /\ retryAt = [k \in Keys |-> None]

Tick ==
  /\ clock < MaxClock
  /\ clock' = clock + 1
  /\ UNCHANGED <<requests, admitted, retryAt>>

(* Mutant: the scan keeps a time that equals the cutoff.                   *)
ExpiredLate(times, first) ==
  /\ \A i \in 1..first : times[i] < clock - Window
  /\ first < Len(times) => times[first + 1] >= clock - Window

(* The scan stops at the first time that is After(cutoff).                 *)
Expired(times, first) ==
  /\ \A i \in 1..first : times[i] <= clock - Window
  /\ first < Len(times) => times[first + 1] > clock - Window

(* Mutant: rounded down.                                                   *)
ResetRoundedDown(times) ==
  LET seconds == (times[1] + Window - clock) \div Second
  IN  IF seconds < 1 THEN 1 ELSE seconds

(* Whole seconds until the oldest admission leaves the window, plus one.   *)
Reset(times) ==
  LET seconds == (times[1] + Window - clock) \div Second + 1
  IN  IF seconds < 1 THEN 1 ELSE seconds

(* Mutant: one request too many.                                           *)
AllowOverLimit(k) ==
  \E first \in 0..Len(requests[k]) :
    /\ Expired(requests[k], first)
    /\ LET times == SubSeq(requests[k], first + 1, Len(requests[k]))
       IN  /\ Len(times) <= Limit
           /\ requests' = [requests EXCEPT ![k] = Append(times, clock)]
    /\ admitted' = [admitted EXCEPT ![k] = Append(@, clock)]
    /\ retryAt' = [retryAt EXCEPT ![k] = None]
    /\ UNCHANGED clock

(* Mutant: remembers the cutoff instead of the time of the admission.      *)
AllowStoringCutoff(k) ==
  \E first \in 0..Len(requests[k]) :
    /\ Expired(requests[k], first)
    /\ LET times == SubSeq(requests[k], first + 1, Len(requests[k]))
       IN  /\ Len(times) < Limit
           /\ requests' = [requests EXCEPT ![k] = Append(times, clock - Window)]
    /\ admitted' = [admitted EXCEPT ![k] = Append(@, clock)]
    /\ retryAt' = [retryAt EXCEPT ![k] = None]
    /\ UNCHANGED clock

Allow(k) ==
  \E first \in 0..Len(requests[k]) :
    /\ Expired(requests[k], first)
    /\ LET times == SubSeq(requests[k], first + 1, Len(requests[k]))
       IN  /\ Len(times) < Limit
           /\ requests' = [requests EXCEPT ![k] = Append(times, clock)]
    /\ admitted' = [admitted EXCEPT ![k] = Append(@, clock)]
    /\ retryAt' = [retryAt EXCEPT ![k] = None]
    /\ UNCHANGED clock

Deny(k) ==
  \E first \in 0..Len(requests[k]) :
    /\ Expired(requests[k], first)
    /\ LET times == SubSeq(requests[k], first + 1, Len(requests[k]))
       IN  /\ Len(times) >= Limit
           /\ requests' = [requests EXCEPT ![k] = times]
           /\ retryAt' = [retryAt EXCEPT ![k] = clock + Reset(times) * Second]
    /\ UNCHANGED <<clock, admitted>>

Next == Tick \/ \E k \in Keys : Allow(k) \/ Deny(k)

Spec == Init /\ [][Next]_vars

-----------------------------------------------------------------------------
(* No Limit + 1 requests of a key are admitted within one window, wherever *)
(* the window starts: the limiter forgets an admission only when it can no *)
(* longer count, including at the instant it is exactly one window old.    *)
WindowLimit ==
  \A k \in Keys : \A i \in 1..Len(admitted[k]) :
    i + Limit \in 1..Len(admitted[k]) =>
      admitted[k][i + Limit] - admitted[k][i] >= Window

(* X-RateLimit-Reset is honest: a client that was denied and comes back    *)
(* after the seconds it was told is admitted, unless another request of    *)
(* the same key was admitted in between.                                   *)
ResetIsHonest ==
  [][\A k \in Keys :
       (retryAt[k] # None /\ clock >= retryAt[k]) => ~Deny(k)]_vars

(* Nobody is denied while fewer than Limit admissions lie in the window.   *)
NoNeedlessDenial ==
  [][\A k \in Keys :
       Deny(k) => LET n == Len(admitted[k])
                  IN  n >= Limit /\ admitted[k][n - Limit + 1] > clock - Window]_vars
=============================================================================

--------------------------- MODULE LimiterProofs ---------------------------
(***************************************************************************)
(* The rate limit holds for every number of keys, every limit, window and  *)
(* length of a second.  The limiter only remembers a suffix of the times   *)
(* it admitted; the invariant says that what it forgot is a window old.    *)
(***************************************************************************)
EXTENDS Limiter, SequenceTheorems, TLAPS

(* requests[k] is the tail of admitted[k], and what precedes it is old.    *)
Remembered(k) ==
  LET r == requests[k]
      a == admitted[k]
      d == Len(a) - Len(r)
  IN  /\ d \in Nat
      /\ Len(r) <= Limit
      /\ \A i \in 1..Len(r) : r[i] = a[d + i]
      /\ \A i \in 1..d : a[i] <= clock - Window
      /\ \A i \in 1..Len(a) : a[i] <= clock

LimitInv == WindowLimit /\ \A k \in Keys : Remembered(k)

LEMMA SuffixType ==
  ASSUME NEW times \in Seq(Nat), NEW first \in 0..Len(times)
  PROVE  LET s == SubSeq(times, first + 1, Len(times))
         IN  /\ s \in Seq(Nat)
             /\ Len(s) = Len(times) - first
             /\ \A i \in 1..Len(s) : s[i] = times[first + i]
<1>1. first + 1 \in 1..Len(times) + 1 /\ Len(times) \in Nat
  OBVIOUS
<1>2. SubSeq(times, first + 1, Len(times)) \in Seq(Nat)
  BY <1>1, SubSeqProperties
<1> QED
  BY <1>1, <1>2, SubSeqProperties

LEMMA ResetType ==
  ASSUME TypeOK, NEW times \in Seq(Nat), Len(times) >= 1
  PROVE  Reset(times) \in Nat
<1>1. times[1] + Window - clock \in Int
  BY WindowAssumption DEF TypeOK
<1>2. (times[1] + Window - clock) \div Second \in Int
  BY <1>1, SecondAssumption
<1> QED
  BY <1>2 DEF Reset

LEMMA TypeStep == TypeOK /\ [Next]_vars => TypeOK'
<1> SUFFICES ASSUME TypeOK, [Next]_vars PROVE TypeOK'
  OBVIOUS
<1>1. CASE Tick
  BY <1>1 DEF TypeOK, Tick
<1>2. ASSUME NEW k \in Keys, Allow(k) PROVE TypeOK'
  <2>1. PICK first \in 0..Len(requests[k]) :
          requests' = [requests EXCEPT ![k] =
            Append(SubSeq(requests[k], first + 1, Len(requests[k])), clock)]
    BY <1>2 DEF Allow
  <2>2. requests' \in [Keys -> Seq(Nat)]
    BY <2>1, SuffixType, AppendProperties DEF TypeOK
  <2>3. admitted' \in [Keys -> Seq(Nat)]
    BY <1>2, AppendProperties DEF TypeOK, Allow
  <2> QED
    BY <1>2, <2>2, <2>3 DEF TypeOK, Allow
<1>3. ASSUME NEW k \in Keys, Deny(k) PROVE TypeOK'
  <2> DEFINE times(first) == SubSeq(requests[k], first + 1, Len(requests[k]))
  <2>1. PICK first \in 0..Len(requests[k]) :
          /\ Len(times(first)) >= Limit
          /\ requests' = [requests EXCEPT ![k] = times(first)]
          /\ retryAt' = [retryAt EXCEPT ![k] = clock + Reset(times(first)) * Second]
    BY <1>3 DEF Deny
  <2>2. times(first) \in Seq(Nat) /\ Len(times(first)) >= 1
    BY <2>1, SuffixType, LimitAssumption DEF TypeOK
  <2> HIDE DEF times
  <2>3. Reset(times(first)) \in Nat
    BY <2>2, ResetType
  <2>4. clock + Reset(times(first)) * Second \in Nat
    <3>1. \A x, y, z \in Nat : x + y * z \in Nat
      OBVIOUS
    <3> QED
      BY <2>3, <3>1, SecondAssumption DEF TypeOK
  <2> QED
    BY <1>3, <2>1, <2>2, <2>4 DEF TypeOK, Deny
<1>4. CASE UNCHANGED vars
  BY <1>4 DEF TypeOK, vars
<1> QED
  BY <1>1, <1>2, <1>3, <1>4 DEF Next

LEMMA TypeInit == Init => TypeOK
BY EmptySeq DEF Init, TypeOK, None

(* Clock, memory and history keep their types in every behaviour.          *)
THEOREM TypeCorrect == Spec => []TypeOK
BY TypeInit, TypeStep, PTL DEF Spec

-----------------------------------------------------------------------------
LEMMA LimitStep == TypeOK /\ LimitInv /\ [Next]_vars => LimitInv'
<1> SUFFICES ASSUME TypeOK, LimitInv, [Next]_vars PROVE LimitInv'
  OBVIOUS
<1>1. CASE Tick
  <2>1. clock' = clock + 1 /\ requests' = requests /\ admitted' = admitted
    BY <1>1 DEF Tick
  <2>2. WindowLimit'
    BY <2>1 DEF LimitInv, WindowLimit
  <2>3. ASSUME NEW k \in Keys PROVE Remembered(k)'
    <3>1. /\ admitted[k] \in Seq(Nat)
          /\ \A i \in 1..Len(admitted[k]) : admitted[k][i] \in Nat
      BY DEF TypeOK
    <3>2. Remembered(k)
      BY DEF LimitInv
    <3> QED
      BY <2>1, <3>1, <3>2, WindowAssumption DEF Remembered, TypeOK
  <2> QED
    BY <2>2, <2>3 DEF LimitInv
<1>2. ASSUME NEW k \in Keys, NEW first \in 0..Len(requests[k]), Expired(requests[k], first)
      PROVE  LET s == SubSeq(requests[k], first + 1, Len(requests[k]))
                 a == admitted[k]
                 d == Len(a) - Len(s)
             IN  /\ s \in Seq(Nat) /\ a \in Seq(Nat)
                 /\ d \in Nat
                 /\ Len(s) <= Limit
                 /\ \A i \in 1..Len(s) : s[i] = a[d + i]
                 /\ \A i \in 1..d : a[i] <= clock - Window
                 /\ \A i \in 1..Len(a) : a[i] <= clock
  <2> DEFINE r == requests[k]
             s == SubSeq(r, first + 1, Len(r))
             a == admitted[k]
             old == Len(a) - Len(r)
             d == Len(a) - Len(s)
  <2>1. r \in Seq(Nat) /\ a \in Seq(Nat)
    BY DEF TypeOK
  <2>2. /\ s \in Seq(Nat)
        /\ Len(s) = Len(r) - first
        /\ \A i \in 1..Len(s) : s[i] = r[first + i]
    BY <2>1, SuffixType
  <2>3. /\ old \in Nat
        /\ Len(r) <= Limit
        /\ \A i \in 1..Len(r) : r[i] = a[old + i]
        /\ \A i \in 1..old : a[i] <= clock - Window
        /\ \A i \in 1..Len(a) : a[i] <= clock
    BY DEF LimitInv, Remembered
  <2>4. \A i \in 1..first : r[i] <= clock - Window
    BY <1>2 DEF Expired
  <2>5. Len(r) \in Nat /\ Len(a) \in Nat /\ Len(s) \in Nat
    BY <2>1, <2>2
  <2> HIDE DEF r, s, a
  <2>6. d = old + first /\ d \in Nat /\ Len(s) <= Limit
    BY <2>2, <2>3, <2>5, LimitAssumption
  <2>7. \A i \in 1..Len(s) : s[i] = a[d + i]
    <3>1. ASSUME NEW i \in 1..Len(s) PROVE s[i] = a[d + i]
      <4>1. first + i \in 1..Len(r) /\ old + (first + i) = d + i
        BY <2>2, <2>3, <2>5, <2>6
      <4> QED
        BY <2>2, <2>3, <4>1
    <3> QED
      BY <3>1
  <2>8. \A i \in 1..d : a[i] <= clock - Window
    <3>1. ASSUME NEW i \in 1..d, i > old PROVE a[i] <= clock - Window
      <4>1. i - old \in 1..first /\ i - old \in 1..Len(r) /\ old + (i - old) = i
        BY <2>3, <2>5, <2>6, <3>1
      <4> QED
        BY <2>3, <2>4, <4>1
    <3> QED
      BY <2>3, <2>6, <3>1
  <2> QED
    BY <2>1, <2>2, <2>3, <2>6, <2>7, <2>8 DEF r, s, a
<1>3. ASSUME NEW k \in Keys, Deny(k) PROVE LimitInv'
  <2>1. PICK first \in 0..Len(requests[k]) :
          /\ Expired(requests[k], first)
          /\ requests' = [requests EXCEPT
                            ![k] = SubSeq(requests[k], first + 1, Len(requests[k]))]
    BY <1>3 DEF Deny
  <2>2. clock' = clock /\ admitted' = admitted
    BY <1>3 DEF Deny
  <2>3. ASSUME NEW j \in Keys PROVE Remembered(j)'
    <3>1. CASE j = k
      BY <1>2, <2>1, <2>2, <3>1 DEF Remembered, TypeOK
    <3>2. CASE j # k
      BY <2>1, <2>2, <3>2 DEF LimitInv, Remembered, TypeOK
    <3> QED
      BY <3>1, <3>2
  <2>4. WindowLimit'
    BY <2>2 DEF LimitInv, WindowLimit
  <2> QED
    BY <2>3, <2>4 DEF LimitInv
<1>4. ASSUME NEW k \in Keys, Allow(k) PROVE LimitInv'
  <2>1. PICK first \in 0..Len(requests[k]) :
          /\ Expired(requests[k], first)
          /\ Len(SubSeq(requests[k], first + 1, Len(requests[k]))) < Limit
          /\ requests' = [requests EXCEPT ![k] =
               Append(SubSeq(requests[k], first + 1, Len(requests[k])), clock)]
    BY <1>4 DEF Allow
  <2>2. /\ clock' = clock
        /\ admitted' = [admitted EXCEPT ![k] = Append(admitted[k], clock)]
    BY <1>4 DEF Allow
  <2> DEFINE s == SubSeq(requests[k], first + 1, Len(requests[k]))
             a == admitted[k]
             d == Len(a) - Len(s)
  <2>3. /\ s \in Seq(Nat) /\ a \in Seq(Nat)
        /\ d \in Nat
        /\ \A i \in 1..Len(s) : s[i] = a[d + i]
        /\ \A i \in 1..d : a[i] <= clock - Window
        /\ \A i \in 1..Len(a) : a[i] <= clock
    BY <1>2, <2>1
  <2>4. /\ Len(s) < Limit
        /\ requests'[k] = Append(s, clock)
        /\ admitted'[k] = Append(a, clock)
        /\ \A j \in Keys \ {k} : requests'[j] = requests[j] /\ admitted'[j] = admitted[j]
    BY <2>1, <2>2 DEF TypeOK
  <2> HIDE DEF s, a
  <2>5. /\ Len(Append(s, clock)) = Len(s) + 1
        /\ \A i \in 1..Len(s) : Append(s, clock)[i] = s[i]
        /\ Append(s, clock)[Len(s) + 1] = clock
        /\ Len(Append(a, clock)) = Len(a) + 1
        /\ \A i \in 1..Len(a) : Append(a, clock)[i] = a[i]
        /\ Append(a, clock)[Len(a) + 1] = clock
        /\ Len(s) \in Nat /\ Len(a) \in Nat /\ clock \in Nat
    BY <2>3, AppendProperties DEF TypeOK
  <2>6. Remembered(k)'
    <3> DEFINE S == Append(s, clock)
               A == Append(a, clock)
    <3>1. Len(A) - Len(S) = d /\ Len(S) <= Limit
      BY <2>3, <2>4, <2>5, LimitAssumption
    <3>2. ASSUME NEW i \in 1..Len(S) PROVE S[i] = A[d + i]
      <4>1. CASE i \in 1..Len(s)
        <5>1. d + i \in 1..Len(a)
          BY <2>3, <2>5, <4>1
        <5> QED
          BY <2>3, <2>5, <4>1, <5>1
      <4>2. CASE i = Len(s) + 1
        <5>1. d + i = Len(a) + 1
          BY <2>3, <2>5, <4>2
        <5> QED
          BY <2>5, <4>2, <5>1
      <4>3. i \in 1..Len(s) \/ i = Len(s) + 1
        BY <2>5
      <4> QED
        BY <4>1, <4>2, <4>3
    <3>3. \A i \in 1..d : A[i] <= clock - Window
      BY <2>3, <2>5
    <3>4. \A i \in 1..Len(A) : A[i] <= clock
      BY <2>3, <2>5
    <3>5. requests'[k] = S /\ admitted'[k] = A /\ clock' = clock
      BY <2>2, <2>4
    <3> HIDE DEF S, A
    <3>6. Len(A) - Len(S) \in Nat
      BY <2>3, <3>1
    <3>7. /\ \A i \in 1..Len(S) : S[i] = A[(Len(A) - Len(S)) + i]
          /\ \A i \in 1..(Len(A) - Len(S)) : A[i] <= clock - Window
      BY <3>1, <3>2, <3>3
    <3> QED
      BY <3>1, <3>4, <3>5, <3>6, <3>7 DEF Remembered
  <2>7. ASSUME NEW j \in Keys \ {k} PROVE Remembered(j)'
    <3>1. Remembered(j)
      BY DEF LimitInv
    <3>2. requests'[j] = requests[j] /\ admitted'[j] = admitted[j] /\ clock' = clock
      BY <2>2, <2>4
    <3> QED
      BY <3>1, <3>2 DEF Remembered
  <2>8. ASSUME NEW i \in 1..Len(a) + 1, i + Limit \in 1..Len(a) + 1
        PROVE  Append(a, clock)[i + Limit] - Append(a, clock)[i] >= Window
    <3>1. CASE i + Limit \in 1..Len(a)
      <4>1. i \in 1..Len(a)
        BY <2>5, <3>1, LimitAssumption
      <4>2. a[i + Limit] - a[i] >= Window
        BY <3>1, <4>1 DEF LimitInv, WindowLimit, a
      <4> QED
        BY <2>5, <3>1, <4>1, <4>2
    <3>2. CASE i + Limit = Len(a) + 1
      <4>1. i \in 1..d /\ i \in 1..Len(a)
        BY <2>3, <2>4, <2>5, <3>2, LimitAssumption
      <4>2. a[i] \in Nat
        BY <2>3, <4>1
      <4> QED
        BY <2>3, <2>5, <3>2, <4>1, <4>2, WindowAssumption
    <3> QED
      BY <2>5, <2>8, <3>1, <3>2
  <2>9. WindowLimit'
    <3>1. ASSUME NEW j \in Keys, NEW i \in 1..Len(admitted'[j]),
                 i + Limit \in 1..Len(admitted'[j])
          PROVE  admitted'[j][i + Limit] - admitted'[j][i] >= Window
      <4>1. CASE j = k
        BY <2>4, <2>5, <2>8, <3>1, <4>1
      <4>2. CASE j # k
        BY <2>4, <3>1, <4>2 DEF LimitInv, WindowLimit
      <4> QED
        BY <4>1, <4>2
    <3> QED
      BY <3>1 DEF WindowLimit
  <2> QED
    BY <2>6, <2>7, <2>9 DEF LimitInv
<1>5. CASE UNCHANGED vars
  BY <1>5 DEF vars, LimitInv, WindowLimit, Remembered
<1> QED
  BY <1>1, <1>3, <1>4, <1>5 DEF Next

(* The inductive invariant of the limiter.                                 *)
LEMMA LimiterInvariant == Spec => [](TypeOK /\ LimitInv)
<1>1. Init => LimitInv
  BY LimitAssumption DEF Init, LimitInv, WindowLimit, Remembered
<1> QED
  BY <1>1, TypeInit, TypeStep, LimitStep, PTL DEF Spec

(* Limit + 1 requests of one key never fall within one window.             *)
THEOREM RateLimitHolds == Spec => []WindowLimit
<1>1. LimitInv => WindowLimit
  BY DEF LimitInv
<1> QED
  BY <1>1, LimiterInvariant, PTL

-----------------------------------------------------------------------------
(* Both sides of a denial.                                                 *)

(* What a denial keeps: exactly Limit admissions, all still in the window. *)
LEMMA Kept ==
  ASSUME TypeOK, LimitInv, NEW k \in Keys, NEW first \in 0..Len(requests[k]),
         Expired(requests[k], first), Len(requests[k]) - first >= Limit
  PROVE  /\ first = 0 /\ Len(requests[k]) = Limit
         /\ requests[k][1] \in Nat /\ requests[k][1] <= clock
         /\ requests[k][1] > clock - Window
         /\ Len(admitted[k]) >= Limit
         /\ admitted[k][Len(admitted[k]) - Limit + 1] = requests[k][1]
<1> DEFINE r == requests[k]
           a == admitted[k]
           d == Len(a) - Len(r)
<1>1. r \in Seq(Nat) /\ a \in Seq(Nat) /\ clock \in Nat
  BY DEF TypeOK
<1>2. /\ d \in Nat /\ Len(r) <= Limit
      /\ \A i \in 1..Len(r) : r[i] = a[d + i]
      /\ \A i \in 1..Len(a) : a[i] <= clock
  BY DEF LimitInv, Remembered
<1>3. Len(r) \in Nat /\ Len(a) \in Nat
  BY <1>1
<1>4. first = 0 /\ Len(r) = Limit
  BY <1>2, <1>3, LimitAssumption
<1>5. 1 \in 1..Len(r) /\ d + 1 \in 1..Len(a) /\ d = Len(a) - Limit
  BY <1>2, <1>3, <1>4, LimitAssumption
<1>6. r[1] \in Nat /\ r[1] = a[d + 1] /\ r[1] <= clock
  <2> HIDE DEF r, a, d
  <2>1. r[1] \in Nat /\ a[d + 1] <= clock
    BY <1>1, <1>2, <1>5
  <2>2. r[1] = a[d + 1]
    BY <1>2, <1>5
  <2> QED
    BY <2>1, <2>2
<1>7. r[1] > clock - Window
  BY <1>3, <1>4, LimitAssumption DEF Expired
<1> QED
  BY <1>2, <1>3, <1>4, <1>5, <1>6, <1>7

LEMMA DenyFacts ==
  ASSUME TypeOK, LimitInv, NEW k \in Keys, Deny(k)
  PROVE  /\ requests' = requests /\ clock' = clock
         /\ Len(requests[k]) = Limit
         /\ requests[k][1] \in Nat /\ requests[k][1] <= clock
         /\ requests[k][1] > clock - Window
         /\ Len(admitted[k]) >= Limit
         /\ admitted[k][Len(admitted[k]) - Limit + 1] = requests[k][1]
         /\ retryAt' = [retryAt EXCEPT ![k] = clock + Reset(requests[k]) * Second]
<1>1. requests[k] \in Seq(Nat) /\ requests \in [Keys -> Seq(Nat)]
  BY DEF TypeOK
<1> DEFINE times(first) == SubSeq(requests[k], first + 1, Len(requests[k]))
<1>2. PICK first \in 0..Len(requests[k]) :
        /\ Expired(requests[k], first)
        /\ Len(times(first)) >= Limit
        /\ requests' = [requests EXCEPT ![k] = times(first)]
        /\ retryAt' = [retryAt EXCEPT ![k] = clock + Reset(times(first)) * Second]
  BY DEF Deny
<1>3. Len(times(first)) = Len(requests[k]) - first
  BY <1>1, SuffixType
<1>4. /\ first = 0 /\ Len(requests[k]) = Limit
      /\ requests[k][1] \in Nat /\ requests[k][1] <= clock
      /\ requests[k][1] > clock - Window
      /\ Len(admitted[k]) >= Limit
      /\ admitted[k][Len(admitted[k]) - Limit + 1] = requests[k][1]
  BY <1>2, <1>3, Kept
<1>5. times(first) = requests[k]
  BY <1>1, <1>4
<1> HIDE DEF times
<1>6. requests' = requests
  BY <1>1, <1>2, <1>5
<1> QED
  BY <1>2, <1>4, <1>5, <1>6 DEF Deny

(* limiter.go:32: a denial means that Limit admissions of the key lie in   *)
(* the window that ends now, although the limiter forgets the older ones.  *)
THEOREM DenialsAreNeeded == Spec => NoNeedlessDenial
<1>1. TypeOK /\ LimitInv /\ [Next]_vars =>
        \A k \in Keys :
          Deny(k) => LET n == Len(admitted[k])
                     IN  n >= Limit /\ admitted[k][n - Limit + 1] > clock - Window
  BY DenyFacts
<1> QED
  BY <1>1, LimiterInvariant, PTL DEF Spec, NoNeedlessDenial

-----------------------------------------------------------------------------
LEMMA RoundedUp ==
  ASSUME NEW x \in Nat, NEW s \in Nat \ {0}
  PROVE  x \div s \in Nat /\ x <= (x \div s + 1) * s
<1>1. x \div s \in Int /\ x <= s * (x \div s) + s
  BY SMT
<1>2. x \div s >= 0
  BY SMT
<1>3. \A q \in Int : s * q + s = (q + 1) * s
  BY SMT
<1> QED
  BY <1>1, <1>2, <1>3

(* From a denial until the next admission the limiter remembers the same   *)
(* full list, and the announced instant is not before its head expires.    *)
Promise(k) ==
  retryAt[k] # None =>
    /\ Len(requests[k]) = Limit
    /\ requests[k][1] + Window <= retryAt[k]

LEMMA PromiseStep ==
  ASSUME TypeOK, LimitInv, \A k \in Keys : Promise(k), [Next]_vars
  PROVE  \A k \in Keys : Promise(k)'
<1>1. CASE Tick \/ UNCHANGED vars
  BY <1>1 DEF Tick, vars, Promise
<1>2. ASSUME NEW k \in Keys, Allow(k), NEW j \in Keys PROVE Promise(j)'
  <2>1. CASE j = k
    BY <1>2, <2>1 DEF Allow, Promise, TypeOK
  <2>2. CASE j # k
    <3>1. requests'[j] = requests[j] /\ retryAt'[j] = retryAt[j]
      BY <1>2, <2>2 DEF Allow, TypeOK
    <3> QED
      BY <3>1 DEF Promise
  <2> QED
    BY <2>1, <2>2
<1>3. ASSUME NEW k \in Keys, Deny(k), NEW j \in Keys PROVE Promise(j)'
  <2>1. CASE j = k
    <3> DEFINE head == requests[k][1]
               left == head + Window - clock
    <3>1. /\ requests' = requests /\ Len(requests[k]) = Limit
          /\ head \in Nat /\ head <= clock /\ head > clock - Window
          /\ retryAt' = [retryAt EXCEPT ![k] = clock + Reset(requests[k]) * Second]
      BY <1>3, DenyFacts
    <3>2. left \in Nat /\ clock \in Nat
      BY <3>1, WindowAssumption DEF TypeOK
    <3> HIDE DEF left
    <3>3. left \div Second \in Nat /\ left <= (left \div Second + 1) * Second
      BY <3>2, SecondAssumption, RoundedUp
    <3>4. Reset(requests[k]) = left \div Second + 1
      BY <3>3 DEF Reset, left
    <3>5. clock + (left \div Second + 1) * Second >= head + Window
      <4>1. (left \div Second + 1) * Second \in Int
        BY <3>3, SecondAssumption
      <4> QED
        BY <3>1, <3>2, <3>3, <4>1, WindowAssumption DEF left
    <3>6. retryAt'[k] = clock + Reset(requests[k]) * Second
      BY <3>1 DEF TypeOK
    <3> QED
      BY <2>1, <3>1, <3>4, <3>5, <3>6 DEF Promise
  <2>2. CASE j # k
    <3>1. requests'[j] = requests[j] /\ retryAt'[j] = retryAt[j]
      BY <1>3, <2>2 DEF Deny, TypeOK
    <3> QED
      BY <3>1 DEF Promise
  <2> QED
    BY <2>1, <2>2
<1> QED
  BY <1>1, <1>2, <1>3 DEF Next

(* limiter.go:37: whoever comes back at the announced instant is admitted, *)
(* for every window and length of a second, unless another request of the  *)
(* key was admitted in between.                                            *)
THEOREM ResetsAreHonest == Spec => ResetIsHonest
<1>1. Init => \A k \in Keys : Promise(k)
  BY DEF Init, Promise
<1>2. ASSUME TypeOK, LimitInv, \A k \in Keys : Promise(k), NEW k \in Keys,
             retryAt[k] # None, clock >= retryAt[k]
      PROVE  ~Deny(k)
  <2> SUFFICES ASSUME Deny(k) PROVE FALSE
    OBVIOUS
  <2>1. requests[k][1] \in Nat /\ requests[k][1] > clock - Window
    BY <1>2, DenyFacts
  <2>2. requests[k][1] + Window <= retryAt[k] /\ clock \in Nat /\ retryAt[k] \in Nat
    BY <1>2 DEF Promise, TypeOK
  <2> QED
    BY <1>2, <2>1, <2>2, WindowAssumption
<1>3. TypeOK /\ LimitInv /\ (\A k \in Keys : Promise(k)) /\ [Next]_vars =>
        \A k \in Keys : (retryAt[k] # None /\ clock >= retryAt[k]) => ~Deny(k)
  BY <1>2
<1>4. TypeOK /\ LimitInv /\ (\A k \in Keys : Promise(k)) /\ [Next]_vars =>
        (\A k \in Keys : Promise(k))'
  BY PromiseStep
<1> QED
  BY <1>1, <1>3, <1>4, LimiterInvariant, PTL DEF Spec, ResetIsHonest
=============================================================================

-------------------------- MODULE RetryTimingProofs --------------------------
(***************************************************************************)
(* Proofs about RetryTiming, for every setting of the builder: how long a  *)
(* sleep and a whole call can take.                                        *)
(***************************************************************************)
EXTENDS RetryTiming, WellFoundedInduction, TLAPS

LEMMA ProductMonotone ==
  ASSUME NEW m \in Nat, NEW n \in Nat, NEW k \in Nat, m <= n
  PROVE  m * k <= n * k /\ m * k \in Nat /\ n * k \in Nat
BY SMT

LEMMA ProductSuccessor ==
  ASSUME NEW m \in Int, NEW k \in Int
  PROVE  (m + 1) * k = m * k + k /\ (m - 1) * k = m * k - k /\ m * k \in Int
BY SMT

(* A jittered delay is a natural number, and longer by a quarter at most.  *)
LEMMA JitterBound ==
  ASSUME NEW d \in Nat, NEW j \in Jittered(d)
  PROVE  j \in Nat /\ 4 * j <= 5 * d
BY SMT DEF Jittered

LEMMA ConfigType ==
  ASSUME NEW b \in Builders
  PROVE  /\ BuildRetryConfig(b) \in RetryConfig \cup {None}
         /\ b.timeout \in Nat
<1>1. b \in Builder
  BY BuildersAssumption
<1>2. CASE Asked(b)
  <2> DEFINE c == [f \in RetryFields |->
                     IF b[f] # None THEN b[f] ELSE DefaultRetry[f]]
  <2>1. \A f \in RetryFields : c[f] \in Nat
    BY <1>1, BuildersAssumption DEF Builder, RetryConfig, RetryFields
  <2>2. c \in RetryConfig
    BY <2>1 DEF RetryConfig, RetryFields
  <2> QED
    BY <1>1, <1>2, <2>2 DEF BuildRetryConfig, Builder
<1>3. CASE ~Asked(b)
  BY <1>1, <1>3 DEF BuildRetryConfig, Builder
<1> QED
  BY <1>2, <1>3

(* What a step that keeps the builder's settings can rely on.              *)
LEMMA ConfigFacts ==
  ASSUME TypeOK, retry_config # None
  PROVE  /\ retry_config.max_attempts \in Nat
         /\ retry_config.multiplier \in Nat
         /\ retry_config.initial_delay \in Nat
         /\ retry_config.max_delay \in Nat
         /\ LongestDelay \in Nat
         /\ retry_config.initial_delay <= LongestDelay
         /\ retry_config.max_delay <= LongestDelay
         /\ builder.timeout \in Nat
         /\ MaxPublish \in Nat
<1>1. retry_config \in RetryConfig
  BY DEF TypeOK
<1> QED
  BY <1>1, ConfigType, BuildersAssumption
     DEF RetryConfig, LongestDelay, Larger, TypeOK

LEMMA SameConfig ==
  ASSUME UNCHANGED builder
  PROVE  /\ retry_config' = retry_config
         /\ LongestDelay' = LongestDelay
BY DEF retry_config, LongestDelay

LEMMA InitTimeInv == Init => TimeInv
<1> SUFFICES ASSUME Init PROVE TimeInv
  OBVIOUS
<1>1. retry_config \in RetryConfig \cup {None}
  BY ConfigType DEF Init, retry_config
<1>2. TypeOK
  BY <1>1 DEF Init, TypeOK, RetryConfig
<1>3. CASE retry_config = None
  BY <1>2, <1>3 DEF Init, TimeInv
<1>4. CASE retry_config # None
  <2>1. 0 * (MaxPublish + builder.timeout) = 0 /\ 0 * LongestDelay = 0
    BY <1>2, <1>4, ConfigFacts, SMT
  <2>2. SoFar(0, 0)
    BY <2>1 DEF Init, SoFar
  <2> QED
    BY <1>2, <1>4, <2>2, ConfigFacts DEF Init, TimeInv
<1> QED
  BY <1>3, <1>4

LEMMA TypeStep == TimeInv /\ [Next]_vars => TypeOK'
<1> SUFFICES ASSUME TypeOK, TimeInv, [Next]_vars PROVE TypeOK'
  BY DEF TimeInv
<1>0. builder.timeout \in Nat /\ MaxPublish \in Nat
  BY ConfigType, BuildersAssumption DEF TypeOK
<1>1. ASSUME NEW p \in 0 .. MaxPublish, NEW w \in 0 .. builder.timeout,
             AttemptEnds(p, w)
      PROVE  TypeOK'
  BY <1>0, <1>1, SameConfig DEF AttemptEnds, Return, TypeOK, Results
<1>2. ASSUME NEW p \in 0 .. MaxPublish, AttemptExpires(p)
      PROVE  TypeOK'
  BY <1>0, <1>2, SameConfig DEF AttemptExpires, Return, TypeOK, Results
<1>3. CASE Sleep
  <2>1. slept' \in Nat
    BY <1>3, JitterBound DEF Sleep, TypeOK
  <2>2. retry_config' = retry_config
    BY <1>3, SameConfig DEF Sleep
  <2>3. retry_config # None
    BY <1>3 DEF Sleep, TimeInv
  <2>4. current_delay' \in Nat
    BY <1>3, <2>3, ConfigFacts DEF Sleep, TypeOK, NextDelay, Smaller
  <2>5. elapsed' \in Nat
    <3>1. \A x, y \in Nat : x + y \in Nat
      OBVIOUS
    <3>2. elapsed \in Nat /\ elapsed' = elapsed + slept'
      BY <1>3 DEF Sleep, TypeOK
    <3> QED
      BY <2>1, <3>1, <3>2, Zenon
  <2> QED
    BY <1>3, <2>1, <2>2, <2>4, <2>5 DEF Sleep, TypeOK
<1>4. CASE UNCHANGED vars
  BY <1>4, SameConfig DEF vars, TypeOK
<1> QED
  BY <1>1, <1>2, <1>3, <1>4 DEF Next


(* A failed or answered attempt adds at most one publish and one timeout.  *)
LEMMA EndsTimeInv ==
  ASSUME TimeInv, NEW p \in 0 .. MaxPublish, NEW w \in 0 .. builder.timeout,
         AttemptEnds(p, w), TypeOK'
  PROVE  TimeInv'
<1>1. /\ retry_config' = retry_config /\ LongestDelay' = LongestDelay
      /\ pc' = "done" /\ pc = "calling"
      /\ elapsed' = elapsed + p + w /\ elapsed \in Nat
      /\ UNCHANGED <<builder, attempt, current_delay, slept>>
      /\ builder.timeout \in Nat /\ MaxPublish \in Nat
  BY SameConfig, ConfigType, BuildersAssumption
     DEF AttemptEnds, Return, TimeInv, TypeOK
<1>2. CASE retry_config = None
  BY <1>1, <1>2 DEF TimeInv
<1>3. CASE retry_config # None
  <2> DEFINE A == MaxPublish + builder.timeout
             m == retry_config.max_attempts
  <2>0. /\ TypeOK /\ attempt \in Nat /\ attempt <= m /\ SoFar(attempt, attempt)
        /\ 4 * slept <= 5 * LongestDelay /\ current_delay <= LongestDelay
    BY <1>1, <1>3 DEF TimeInv, TypeOK
  <2>1. m \in Nat /\ A \in Nat /\ LongestDelay \in Nat
    BY <1>3, <2>0, ConfigFacts
  <2>2. /\ attempt * A <= m * A /\ attempt * A \in Nat /\ m * A \in Nat
        /\ attempt * LongestDelay <= m * LongestDelay
        /\ attempt * LongestDelay \in Nat /\ m * LongestDelay \in Nat
    BY <2>0, <2>1, ProductMonotone
  <2>3. (m + 1) * A = m * A + A
    BY <2>1, ProductSuccessor
  <2>4. 4 * elapsed' <= 4 * ((m + 1) * A) + 5 * (m * LongestDelay)
    <3>1. 4 * elapsed <= 4 * (attempt * A) + 5 * (attempt * LongestDelay)
      BY <2>0 DEF SoFar
    <3>2. elapsed' <= elapsed + A /\ elapsed' \in Nat
      BY <1>1
    <3> QED
      BY <1>1, <2>1, <2>2, <2>3, <3>1, <3>2
  <2>5. SoFar(m + 1, m)'
    BY <1>1, <2>4 DEF SoFar
  <2> QED
    BY <1>1, <1>3, <2>0, <2>5 DEF TimeInv
<1> QED
  BY <1>2, <1>3

(* An expired attempt adds as much, and counts.                            *)
LEMMA ExpiresTimeInv ==
  ASSUME TimeInv, NEW p \in 0 .. MaxPublish, AttemptExpires(p), TypeOK'
  PROVE  TimeInv'
<1>1. /\ retry_config' = retry_config /\ LongestDelay' = LongestDelay
      /\ pc = "calling"
      /\ elapsed' = elapsed + p + builder.timeout /\ elapsed \in Nat
      /\ UNCHANGED <<builder, current_delay, slept>>
      /\ builder.timeout \in Nat /\ MaxPublish \in Nat
  BY SameConfig, ConfigType, BuildersAssumption
     DEF AttemptExpires, TimeInv, TypeOK
<1>2. CASE retry_config = None
  BY <1>1, <1>2 DEF AttemptExpires, Return, TimeInv
<1>3. CASE retry_config # None
  <2> DEFINE A == MaxPublish + builder.timeout
             m == retry_config.max_attempts
  <2>0. /\ TypeOK /\ attempt \in Nat /\ attempt <= m /\ SoFar(attempt, attempt)
        /\ 4 * slept <= 5 * LongestDelay /\ current_delay <= LongestDelay
        /\ result = None
    BY <1>1, <1>3 DEF TimeInv, TypeOK
  <2>1. m \in Nat /\ A \in Nat /\ LongestDelay \in Nat
    BY <1>3, <2>0, ConfigFacts
  <2>2. (attempt + 1) * A = attempt * A + A /\ attempt * A \in Int
    BY <2>0, <2>1, ProductSuccessor
  <2>3. 4 * elapsed' <= 4 * ((attempt + 1) * A) + 5 * (attempt * LongestDelay)
    <3>1. 4 * elapsed <= 4 * (attempt * A) + 5 * (attempt * LongestDelay)
      BY <2>0 DEF SoFar
    <3>2. elapsed' <= elapsed + A /\ elapsed' \in Nat
      BY <1>1
    <3>3. attempt * LongestDelay \in Int
      BY <2>0, <2>1, ProductSuccessor
    <3> QED
      BY <1>1, <2>1, <2>2, <3>1, <3>2, <3>3
  <2>5. attempt' = attempt + 1
    BY <1>3 DEF AttemptExpires
  <2>6. CASE Exhausted(attempt + 1)
    <3>1. attempt = m
      BY <2>0, <2>1, <2>6 DEF Exhausted
    <3>2. pc' = "done"
      BY <1>3, <2>6 DEF AttemptExpires, Return
    <3>3. SoFar(m + 1, m)'
      BY <1>1, <2>3, <3>1 DEF SoFar
    <3> QED
      BY <1>1, <1>3, <2>0, <3>2, <3>3 DEF TimeInv
  <2>7. CASE ~Exhausted(attempt + 1)
    <3>1. pc' = "sleeping" /\ result' = None /\ attempt' \in 1 .. m
      BY <1>3, <2>0, <2>1, <2>5, <2>7 DEF AttemptExpires, Exhausted
    <3>2. SoFar(attempt, attempt - 1)'
      BY <1>1, <2>0, <2>3, <2>5 DEF SoFar
    <3> QED
      BY <1>1, <1>3, <2>0, <3>1, <3>2 DEF TimeInv
  <2> QED
    BY <2>6, <2>7
<1> QED
  BY <1>2, <1>3

(* A sleep adds at most a jittered LongestDelay, and the next delay is     *)
(* capped.                                                                 *)
LEMMA SleepTimeInv ==
  ASSUME TimeInv, Sleep, TypeOK'
  PROVE  TimeInv'
<1>1. /\ retry_config' = retry_config /\ LongestDelay' = LongestDelay
      /\ pc = "sleeping" /\ pc' = "calling" /\ retry_config # None
      /\ slept' \in Jittered(current_delay)
      /\ elapsed' = elapsed + slept' /\ elapsed \in Nat
      /\ current_delay' = NextDelay(current_delay)
      /\ UNCHANGED <<builder, attempt, result>>
      /\ current_delay \in Nat /\ current_delay <= LongestDelay
      /\ result = None
  BY SameConfig DEF Sleep, TimeInv, TypeOK
<1> DEFINE A == MaxPublish + builder.timeout
           m == retry_config.max_attempts
<1>2. /\ attempt \in 1 .. m /\ SoFar(attempt, attempt - 1) /\ TypeOK
  BY <1>1 DEF TimeInv
<1>3. /\ m \in Nat /\ A \in Nat /\ LongestDelay \in Nat
      /\ retry_config.max_delay \in Nat
      /\ retry_config.multiplier \in Nat
      /\ retry_config.max_delay <= LongestDelay
  BY <1>1, <1>2, ConfigFacts
<1>4. slept' \in Nat /\ 4 * slept' <= 5 * LongestDelay
  <2>1. slept' \in Nat /\ 4 * slept' <= 5 * current_delay
    BY <1>1, JitterBound
  <2>2. \A s, d, l \in Nat : 4 * s <= 5 * d /\ d <= l => 4 * s <= 5 * l
    OBVIOUS
  <2> QED
    BY <1>1, <1>3, <2>1, <2>2, Zenon
<1>5. current_delay' <= LongestDelay
  BY <1>1, <1>3 DEF NextDelay, Smaller
<1>6. SoFar(attempt, attempt)'
  <2>1. /\ (attempt - 1) * LongestDelay = attempt * LongestDelay - LongestDelay
        /\ attempt * LongestDelay \in Int /\ attempt * A \in Int
    BY <1>2, <1>3, ProductSuccessor
  <2>2. 4 * elapsed <= 4 * (attempt * A) + 5 * ((attempt - 1) * LongestDelay)
    BY <1>2 DEF SoFar
  <2>3. 4 * elapsed' <= 4 * (attempt * A) + 5 * (attempt * LongestDelay)
    <3>1. elapsed' = elapsed + slept' /\ elapsed \in Nat /\ LongestDelay \in Nat
      BY <1>1, <1>3
    <3>2. \A e, s, l \in Nat, x, y \in Int :
            4 * e <= 4 * x + 5 * (y - l) /\ 4 * s <= 5 * l =>
              4 * (e + s) <= 4 * x + 5 * y
      OBVIOUS
    <3> HIDE DEF A
    <3> QED
      BY <1>4, <2>1, <2>2, <3>1, <3>2, Zenon
  <2> QED
    BY <1>1, <2>3 DEF SoFar
<1>7. /\ pc' = "calling" /\ result' = None /\ retry_config' # None
      /\ attempt' \in Nat /\ attempt' <= retry_config'.max_attempts
      /\ current_delay' <= LongestDelay' /\ 4 * slept' <= 5 * LongestDelay'
  <2>1. /\ pc' = "calling" /\ result' = None /\ retry_config' # None
        /\ current_delay' <= LongestDelay' /\ 4 * slept' <= 5 * LongestDelay'
    BY <1>1, <1>4, <1>5, Zenon
  <2>2. attempt' \in Nat /\ attempt' <= retry_config'.max_attempts
    BY <1>1, <1>2, <1>3
  <2> QED
    BY <2>1, <2>2
<1> QED
  BY <1>6, <1>7 DEF TimeInv

LEMMA NextTimeInv == TimeInv /\ [Next]_vars => TimeInv'
<1> SUFFICES ASSUME TimeInv, [Next]_vars PROVE TimeInv'
  OBVIOUS
<1>1. TypeOK'
  BY TypeStep
<1>2. CASE UNCHANGED vars
  BY <1>1, <1>2, SameConfig DEF vars, TimeInv, SoFar
<1> QED
  BY <1>1, <1>2, EndsTimeInv, ExpiresTimeInv, SleepTimeInv DEF Next

THEOREM TimeInvariance == Spec => []TimeInv
BY InitTimeInv, NextTimeInv, PTL DEF Spec

(* Types, for every setting of the builder.                                *)
THEOREM TypeCorrect == Spec => []TypeOK
<1>1. TimeInv => TypeOK
  BY DEF TimeInv
<1> QED
  BY <1>1, TimeInvariance, PTL

(* No sleep of the retry loop exceeds the larger of the two configured     *)
(* delays by more than a quarter.                                          *)
THEOREM SleepIsBoundedTheorem == Spec => []SleepIsBounded
<1>1. TimeInv => SleepIsBounded
  BY DEF TimeInv, SleepIsBounded
<1> QED
  BY <1>1, TimeInvariance, PTL

(* build() makes a retry configuration exactly when one was asked for.     *)
LEMMA ConfigIffAsked ==
  ASSUME NEW b \in Builders
  PROVE  BuildRetryConfig(b) = None <=> ~Asked(b)
<1>1. b \in Builder
  BY BuildersAssumption
<1>2. CASE Asked(b)
  <2>1. \A f \in RetryFields :
          (IF b[f] # None THEN b[f] ELSE DefaultRetry[f]) \in Nat
    BY <1>1, BuildersAssumption DEF Builder, RetryConfig, RetryFields
  <2>2. BuildRetryConfig(b) \in RetryConfig
    BY <1>2, <2>1 DEF BuildRetryConfig, RetryConfig, RetryFields
  <2> QED
    BY <1>2, <2>2, BuildersAssumption
<1> QED
  BY <1>2 DEF BuildRetryConfig

(* A call that ended with a timeout was never retried for want of a        *)
(* configuration; one that gave up after retries had a parameter set, and  *)
(* it does not matter which.                                               *)
THEOREM RetryIffAskedTheorem == Spec => []RetryIffAsked
<1>1. Init => RetryIffAsked
  BY BuildersAssumption DEF Init, RetryIffAsked, Results
<1>2. TimeInv /\ RetryIffAsked /\ [Next]_vars => RetryIffAsked'
  <2> SUFFICES ASSUME TypeOK, RetryIffAsked, [Next]_vars
               PROVE  RetryIffAsked'
    BY DEF TimeInv
  <2>1. UNCHANGED builder /\ (Asked(builder)' <=> Asked(builder))
    BY DEF Next, AttemptEnds, AttemptExpires, Sleep, vars, Asked
  <2>2. retry_config = None <=> ~Asked(builder)
    BY ConfigIffAsked DEF TypeOK, retry_config
  <2>3. ASSUME NEW p \in 0 .. MaxPublish, AttemptExpires(p)
        PROVE  RetryIffAsked'
    BY <2>1, <2>2, <2>3 DEF AttemptExpires, Return, RetryIffAsked
  <2>4. ASSUME NEW p \in 0 .. MaxPublish, NEW w \in 0 .. builder.timeout,
               AttemptEnds(p, w)
        PROVE  RetryIffAsked'
    BY <2>4 DEF AttemptEnds, Return, RetryIffAsked
  <2>5. CASE Sleep \/ UNCHANGED vars
    BY <2>1, <2>5 DEF Sleep, vars, RetryIffAsked
  <2> QED
    BY <2>3, <2>4, <2>5 DEF Next
<1> QED
  BY <1>1, <1>2, TimeInvariance, PTL DEF Spec

(* The bound of TimeInv never exceeds the bound for all attempts.          *)
LEMMA SoFarBound ==
  ASSUME TypeOK, retry_config # None, NEW a \in Nat, NEW k \in Nat,
         a <= retry_config.max_attempts + 1, k <= retry_config.max_attempts,
         SoFar(a, k)
  PROVE  WorstCase
<1> DEFINE A == MaxPublish + builder.timeout
           m == retry_config.max_attempts
<1>1. m \in Nat /\ A \in Nat /\ LongestDelay \in Nat /\ elapsed \in Nat
  BY ConfigFacts DEF TypeOK
<1>2. a * A <= (m + 1) * A /\ a * A \in Nat /\ (m + 1) * A \in Nat
  BY <1>1, ProductMonotone
<1>3. /\ k * LongestDelay <= m * LongestDelay
      /\ k * LongestDelay \in Nat /\ m * LongestDelay \in Nat
  BY <1>1, ProductMonotone
<1>4. 4 * elapsed <= 4 * (a * A) + 5 * (k * LongestDelay)
  BY DEF SoFar
<1>5. \A e, x, y, u, v \in Nat :
        4 * e <= 4 * x + 5 * u /\ x <= y /\ u <= v => 4 * e <= 4 * y + 5 * v
  OBVIOUS
<1>6. 4 * elapsed <= 4 * ((m + 1) * A) + 5 * (m * LongestDelay)
  <2> HIDE DEF A, m
  <2> QED
    BY <1>1, <1>2, <1>3, <1>4, <1>5, Zenon
<1> QED
  BY <1>6 DEF WorstCase

(* What request_total_timeout does bound: each attempt.  The whole call is *)
(* bounded by max_attempts + 1 timeouts and the sleeps between them.       *)
THEOREM WorstCaseTheorem == Spec => []WorstCase
<1>1. TimeInv => WorstCase
  <2> SUFFICES ASSUME TimeInv PROVE WorstCase
    OBVIOUS
  <2>0. TypeOK /\ builder.timeout \in Nat /\ MaxPublish \in Nat
    BY ConfigType, BuildersAssumption DEF TimeInv, TypeOK
  <2>1. CASE retry_config = None
    BY <2>0, <2>1 DEF TimeInv, TypeOK, WorstCase
  <2>2. CASE retry_config # None
    <3>1. /\ retry_config.max_attempts \in Nat
          /\ attempt \in Nat /\ pc \in {"calling", "sleeping", "done"}
      BY <2>0, <2>2, ConfigFacts DEF TypeOK
    <3>2. CASE pc = "calling"
      BY <2>0, <2>2, <3>1, <3>2, SoFarBound DEF TimeInv
    <3>3. CASE pc = "sleeping"
      BY <2>0, <2>2, <3>1, <3>3, SoFarBound DEF TimeInv
    <3>4. CASE pc = "done"
      BY <2>0, <2>2, <3>1, <3>4, SoFarBound DEF TimeInv
    <3> QED
      BY <3>1, <3>2, <3>3, <3>4
  <2> QED
    BY <2>1, <2>2
<1> QED
  BY <1>1, TimeInvariance, PTL

(* A set of naturals that is not empty has a least element.                *)
LEMMA LeastNatural ==
  ASSUME NEW T, T \subseteq Nat, T # {}
  PROVE  \E x \in T : \A y \in T : x <= y
<1> DEFINE R == OpToRel(<, Nat)
<1>1. IsWellFoundedOn(R, Nat)
  BY NatLessThanWellFounded
<1>2. \E x \in T : \A y \in T : <<y, x>> \notin R
  <2> HIDE DEF R
  <2> QED
    BY <1>1, WFMin
<1>3. PICK x \in T : \A y \in T : <<y, x>> \notin R
  BY <1>2
<1>4. \A y \in T : ~(y < x)
  BY <1>3 DEF OpToRel
<1>5. x \in Nat /\ \A y \in T : y \in Nat
  OBVIOUS
<1>6. \A y \in T : x <= y
  BY <1>4, <1>5
<1> QED
  BY <1>6

(* Induction on the naturals, for a set.                                   *)
LEMMA InductiveSet ==
  ASSUME NEW G, 0 \in G, \A n \in Nat : n \in G => n + 1 \in G
  PROVE  Nat \subseteq G
<1> SUFFICES ASSUME Nat \ G # {} PROVE FALSE
  OBVIOUS
<1> DEFINE T == Nat \ G
<1>1. T \subseteq Nat /\ T # {}
  OBVIOUS
<1>2. \E x \in T : \A y \in T : x <= y
  <2> HIDE DEF T
  <2> QED
    BY <1>1, LeastNatural
<1>3. PICK n \in T : \A y \in T : n <= y
  BY <1>2
<1>4. n \in Nat \ {0}
  OBVIOUS
<1>5. n - 1 \in Nat /\ n - 1 \notin T /\ (n - 1) + 1 = n
  BY <1>3, <1>4
<1> QED
  BY <1>3, <1>5

(* The recursion of Powers has a solution: prefixes of it agree, so their  *)
(* diagonal is one.                                                        *)
LEMMA PowersExist ==
  ASSUME NEW m \in Nat
  PROVE  \E f : f = [k \in Nat |-> IF k = 0 THEN 1 ELSE m * f[k - 1]]
<1> DEFINE Step(f, n) == f[0] = 1 /\ \A k \in 1 .. n : f[k] = m * f[k - 1]
           Good == {n \in Nat : \E f \in [0 .. n -> Nat] : Step(f, n)}
<1>1. \A n \in Nat : \E f \in [0 .. n -> Nat] : Step(f, n)
  <2>1. 0 \in Good
    <3> DEFINE f == [k \in 0 .. 0 |-> 1]
    <3>1. f \in [0 .. 0 -> Nat] /\ Step(f, 0)
      OBVIOUS
    <3> QED
      BY <3>1
  <2>2. ASSUME NEW n \in Nat, n \in Good
        PROVE  n + 1 \in Good
    <3>1. PICK f \in [0 .. n -> Nat] : Step(f, n)
      BY <2>2
    <3> DEFINE g == [k \in 0 .. n + 1 |-> IF k = n + 1 THEN m * f[n] ELSE f[k]]
    <3>2. f[n] \in Nat
      OBVIOUS
    <3>3. g \in [0 .. n + 1 -> Nat]
      BY <3>2
    <3>4. g[0] = 1
      BY <3>1
    <3>5. ASSUME NEW k \in 1 .. n + 1 PROVE g[k] = m * g[k - 1]
      <4>1. CASE k = n + 1
        BY <4>1
      <4>2. CASE k # n + 1
        <5>1. k \in 1 .. n /\ k - 1 \in 0 .. n
          BY <4>2
        <5> QED
          BY <3>1, <5>1
      <4> QED
        BY <4>1, <4>2
    <3> HIDE DEF g
    <3>6. Step(g, n + 1)
      BY <3>4, <3>5
    <3>7. n + 1 \in Nat
      OBVIOUS
    <3> HIDE DEF Step
    <3> QED
      BY <3>3, <3>6, <3>7
  <2> HIDE DEF Good
  <2>3. Nat \subseteq Good
    BY <2>1, <2>2, InductiveSet
  <2> QED
    BY <2>3 DEF Good
<1> DEFINE F(n) == CHOOSE f \in [0 .. n -> Nat] : Step(f, n)
           p == [n \in Nat |-> F(n)[n]]
<1>2. \A n \in Nat : F(n) \in [0 .. n -> Nat] /\ Step(F(n), n)
  BY <1>1
<1> HIDE DEF F
<1>3. \A k, a, b \in Nat : k <= a /\ k <= b => F(a)[k] = F(b)[k]
  <2> DEFINE Same ==
        {k \in Nat : \A a, b \in Nat : k <= a /\ k <= b => F(a)[k] = F(b)[k]}
  <2>1. 0 \in Same
    BY <1>2
  <2>2. ASSUME NEW k \in Nat, k \in Same
        PROVE  k + 1 \in Same
    <3> SUFFICES ASSUME NEW a \in Nat, NEW b \in Nat, k + 1 <= a, k + 1 <= b
                 PROVE  F(a)[k + 1] = F(b)[k + 1]
      OBVIOUS
    <3>1. F(a)[k] = F(b)[k]
      BY <2>2
    <3>2. k + 1 \in 1 .. a /\ k + 1 \in 1 .. b /\ (k + 1) - 1 = k
      OBVIOUS
    <3>3. F(a)[k + 1] = m * F(a)[k] /\ F(b)[k + 1] = m * F(b)[k]
      BY <1>2, <3>2
    <3> QED
      BY <3>1, <3>3
  <2> HIDE DEF Same
  <2>3. Nat \subseteq Same
    BY <2>1, <2>2, InductiveSet
  <2> QED
    BY <2>3 DEF Same
<1>4. ASSUME NEW k \in Nat
      PROVE  p[k] = IF k = 0 THEN 1 ELSE m * p[k - 1]
  <2>1. CASE k = 0
    BY <1>2, <2>1
  <2>2. CASE k # 0
    <3>1. k - 1 \in Nat /\ k \in 1 .. k /\ k - 1 <= k /\ k - 1 <= k - 1
      BY <2>2
    <3>2. F(k)[k] = m * F(k)[k - 1]
      BY <1>2, <3>1
    <3>3. F(k)[k - 1] = F(k - 1)[k - 1]
      BY <1>3, <3>1
    <3> QED
      BY <2>2, <3>1, <3>2, <3>3
  <2> QED
    BY <2>1, <2>2
<1>5. p = [k \in Nat |-> p[k]]
  OBVIOUS
<1> HIDE DEF p
<1>6. p = [k \in Nat |-> IF k = 0 THEN 1 ELSE m * p[k - 1]]
  BY <1>4, <1>5
<1> QED
  BY <1>6

(* Powers is what its recursive equation says.                             *)
LEMMA PowersDef ==
  ASSUME NEW m \in Nat
  PROVE  Powers(m) = [k \in Nat |-> IF k = 0 THEN 1 ELSE m * Powers(m)[k - 1]]
BY PowersExist, Zenon DEF Powers

(* The powers of a natural number, one at a time.                          *)
LEMMA PowersStep ==
  ASSUME NEW m \in Nat
  PROVE  /\ Powers(m)[0] = 1
         /\ \A n \in Nat : /\ Powers(m)[n] \in Nat
                           /\ Powers(m)[n + 1] = m * Powers(m)[n]
<1> DEFINE p == Powers(m)
           G == {n \in Nat : p[n] \in Nat}
<1>1. p = [k \in Nat |-> IF k = 0 THEN 1 ELSE m * p[k - 1]]
  BY PowersDef
<1> HIDE DEF p
<1>2. p[0] = 1
  BY <1>1
<1>3. ASSUME NEW n \in Nat
      PROVE  p[n + 1] = m * p[n]
  <2>1. n + 1 \in Nat /\ n + 1 # 0 /\ (n + 1) - 1 = n
    OBVIOUS
  <2> QED
    BY <1>1, <2>1
<1>4. 0 \in G
  BY <1>2
<1>5. ASSUME NEW n \in Nat, n \in G
      PROVE  n + 1 \in G
  BY <1>3, <1>5
<1> HIDE DEF G
<1>6. Nat \subseteq G
  BY <1>4, <1>5, InductiveSet
<1>7. \A n \in Nat : p[n] \in Nat
  BY <1>6 DEF G
<1> QED
  BY <1>2, <1>3, <1>7 DEF p

(* Capping after each multiplication and capping once at the end give the  *)
(* same delay, except that the first delay is never capped.                *)
LEMMA CappedProduct ==
  ASSUME NEW i \in Nat, NEW m \in Nat, NEW c \in Nat, NEW q \in Nat,
         m = 0 => q = 0
  PROVE  Smaller(Smaller(i * q, c) * m, c) = Smaller(i * (m * q), c)
<1>1. i * q \in Nat /\ (i * q) * m = i * (m * q) /\ i * (m * q) \in Nat
  BY SMT
<1>2. CASE i * q <= c
  BY <1>1, <1>2 DEF Smaller
<1>3. CASE ~(i * q <= c)
  <2>1. m # 0
    BY <1>3, SMT
  <2>2. m >= 1 /\ c <= i * q /\ 1 * c = c
    BY <1>1, <1>3, <2>1
  <2>3. 1 * c <= m * c /\ m * c \in Nat
    BY <2>2, ProductMonotone
  <2>4. c * m <= (i * q) * m /\ c * m = m * c
    BY <1>1, <2>2, ProductMonotone
  <2>5. c <= c * m /\ c <= i * (m * q)
    BY <1>1, <2>2, <2>3, <2>4
  <2>6. Smaller(i * q, c) = c
    BY <1>3 DEF Smaller
  <2>7. Smaller(c * m, c) = c /\ Smaller(i * (m * q), c) = c
    <3>1. \A x \in Nat : c <= x => Smaller(x, c) = c
      BY DEF Smaller
    <3> QED
      BY <1>1, <2>3, <2>4, <2>5, <3>1, Zenon
  <2> QED
    BY <2>6, <2>7, Zenon
<1> QED
  BY <1>2, <1>3

(* The loop's incremental step leads from one delay of the schedule to the *)
(* next.                                                                   *)
LEMMA ScheduledStep ==
  ASSUME TypeOK, retry_config # None, NEW n \in Nat
  PROVE  NextDelay(Scheduled(n)) = Scheduled(n + 1)
<1> DEFINE i == retry_config.initial_delay
           m == retry_config.multiplier
           c == retry_config.max_delay
           p == Powers(m)
<1>1. i \in Nat /\ m \in Nat /\ c \in Nat
  BY ConfigFacts
<1>2. /\ p[0] = 1
      /\ \A k \in Nat : p[k] \in Nat /\ p[k + 1] = m * p[k]
  <2> HIDE DEF m
  <2> QED
    BY <1>1, PowersStep
<1>3. /\ Scheduled(n) = IF n = 0 THEN i ELSE Smaller(i * p[n], c)
      /\ Scheduled(n + 1) = Smaller(i * p[n + 1], c)
      /\ \A d : NextDelay(d) = Smaller(d * m, c)
  BY DEF Scheduled, NextDelay
<1> HIDE DEF i, m, c, p
<1>4. p[n] \in Nat /\ p[n + 1] = m * p[n]
  BY <1>2
<1>5. CASE n = 0
  <2>1. p[n + 1] = m
    BY <1>1, <1>2, <1>4, <1>5
  <2> QED
    BY <1>1, <1>3, <1>5, <2>1
<1>6. CASE n # 0
  <2>1. n - 1 \in Nat /\ (n - 1) + 1 = n
    BY <1>6
  <2>2. p[n] = m * p[n - 1] /\ p[n - 1] \in Nat
    BY <1>2, <2>1
  <2>3. m = 0 => p[n] = 0
    BY <2>2
  <2>4. Smaller(Smaller(i * p[n], c) * m, c) = Smaller(i * (m * p[n]), c)
    BY <1>1, <1>4, <2>3, CappedProduct
  <2> QED
    BY <1>3, <1>4, <1>6, <2>4
<1> QED
  BY <1>5, <1>6

(* The inductive form of BackoffSchedule: a sleeping call has counted its  *)
(* attempt and has not computed the next delay yet.                        *)
DelayInv ==
  retry_config # None =>
    /\ pc = "calling" => current_delay = Scheduled(attempt)
    /\ pc = "sleeping" => /\ attempt \in Nat \ {0}
                          /\ current_delay = Scheduled(attempt - 1)

LEMMA InitDelayInv == Init => DelayInv
BY DEF Init, DelayInv, Scheduled

LEMMA NextDelayInv == TimeInv /\ DelayInv /\ [Next]_vars => DelayInv'
<1> SUFFICES ASSUME TypeOK, TimeInv, DelayInv, [Next]_vars PROVE DelayInv'
  BY DEF TimeInv
<1>1. /\ UNCHANGED builder /\ retry_config' = retry_config
      /\ \A n : Scheduled(n)' = Scheduled(n)
  <2>1. UNCHANGED builder
    BY DEF Next, AttemptEnds, AttemptExpires, Sleep, vars
  <2> QED
    BY <2>1 DEF retry_config, Scheduled
<1>2. ASSUME NEW p \in 0 .. MaxPublish, NEW w \in 0 .. builder.timeout,
             AttemptEnds(p, w)
      PROVE  DelayInv'
  BY <1>2 DEF AttemptEnds, Return, DelayInv
<1>3. ASSUME NEW p \in 0 .. MaxPublish, AttemptExpires(p)
      PROVE  DelayInv'
  <2>1. pc = "calling" /\ UNCHANGED current_delay /\ pc' # "calling"
    BY <1>3 DEF AttemptExpires, Return
  <2>2. ASSUME retry_config # None, pc' = "sleeping"
        PROVE  attempt' \in Nat \ {0} /\ attempt' - 1 = attempt
    BY <1>3, <2>2 DEF AttemptExpires, Return, TypeOK
  <2>3. ASSUME retry_config # None, pc' = "sleeping"
        PROVE  current_delay' = Scheduled(attempt - 1)'
    <3>1. current_delay = Scheduled(attempt)
      BY <2>1, <2>3 DEF DelayInv
    <3>2. Scheduled(attempt - 1)' = Scheduled(attempt)
      BY <1>1, <2>2, <2>3 DEF Scheduled
    <3> QED
      BY <2>1, <3>1, <3>2
  <2> QED
    BY <1>1, <2>1, <2>2, <2>3 DEF DelayInv
<1>4. CASE Sleep
  <2>1. /\ pc = "sleeping" /\ pc' = "calling" /\ UNCHANGED attempt
        /\ current_delay' = NextDelay(current_delay) /\ retry_config # None
    BY <1>4 DEF Sleep, TimeInv
  <2>2. attempt - 1 \in Nat /\ (attempt - 1) + 1 = attempt
    BY <2>1 DEF DelayInv
  <2>3. NextDelay(Scheduled(attempt - 1)) = Scheduled(attempt)
    BY <2>1, <2>2, ScheduledStep
  <2>4. current_delay' = Scheduled(attempt)
    BY <2>1, <2>3 DEF DelayInv
  <2>5. current_delay' = Scheduled(attempt)'
    BY <1>1, <2>1, <2>4, Zenon
  <2> QED
    BY <2>1, <2>5 DEF DelayInv
<1>5. CASE UNCHANGED vars
  BY <1>1, <1>5 DEF vars, DelayInv
<1> QED
  BY <1>2, <1>3, <1>4, <1>5 DEF Next

(* The delays of the retry loop, computed one from the other, are those of *)
(* the documented schedule: initial_delay * multiplier^n, capped by        *)
(* max_delay from the second on.                                           *)
THEOREM BackoffScheduleTheorem == Spec => []BackoffSchedule
<1>1. DelayInv => BackoffSchedule
  BY DEF DelayInv, BackoffSchedule
<1> QED
  BY <1>1, InitDelayInv, NextDelayInv, TimeInvariance, PTL DEF Spec

=============================================================================

----------------------------- MODULE RetryTiming -----------------------------
(***************************************************************************)
(* The timing of one request_to() call: what RpcBrokerBuilder::build makes *)
(* of the retry parameters, the retry loop of src/retry.rs with its        *)
(* backoff and jitter, and the timeout that each attempt of                *)
(* src/broker.rs waits for.  Durations are whole ticks; time advances by   *)
(* the duration of each step.                                              *)
(***************************************************************************)
EXTENDS Integers

CONSTANTS
  Builders,     \* the RpcBrokerBuilder settings considered
  DefaultRetry, \* the values build() puts for unset retry parameters
  MaxPublish,   \* bound: how long publish() may take
  None          \* a parameter that was not set

RetryConfig ==
  [max_attempts : Nat, multiplier : Nat, initial_delay : Nat, max_delay : Nat]

Builder ==
  [max_attempts : Nat \cup {None}, multiplier : Nat \cup {None},
   initial_delay : Nat \cup {None}, max_delay : Nat \cup {None},
   timeout : Nat]

Results == {"Ok", "Transport", "Timeout", "TransportRetryable"}

ASSUME BuildersAssumption ==
  /\ None \notin Nat \cup RetryConfig \cup Results
  /\ Builders \subseteq Builder
  /\ DefaultRetry \in RetryConfig
  /\ MaxPublish \in Nat

VARIABLES
  builder,       \* the settings this broker was built from
  pc,            \* "calling", "sleeping" or "done"
  attempt,       \* the retry loop's counter
  current_delay, \* the delay before the next retry, without jitter
  slept,         \* the length of the latest sleep
  elapsed,       \* time since request_to() was called
  result         \* how the call returned

vars == <<builder, pc, attempt, current_delay, slept, elapsed, result>>

RetryFields == {"max_attempts", "multiplier", "initial_delay", "max_delay"}

Asked(b) == \E f \in RetryFields : b[f] # None

(* build(): setting any one retry parameter turns retrying on, with        *)
(* defaults for the others.                                                *)
BuildRetryConfig_ifAttempts(b) ==
  IF b.max_attempts # None
  THEN [f \in RetryFields |-> IF b[f] # None THEN b[f] ELSE DefaultRetry[f]]
  ELSE None

BuildRetryConfig_noDefaults(b) ==
  IF Asked(b) THEN [f \in RetryFields |-> b[f]] ELSE None

BuildRetryConfig(b) ==
  IF Asked(b)
  THEN [f \in RetryFields |-> IF b[f] # None THEN b[f] ELSE DefaultRetry[f]]
  ELSE None

retry_config == BuildRetryConfig(builder)

Smaller(x, y) == IF x <= y THEN x ELSE y
Larger(x, y) == IF x <= y THEN y ELSE x

(* apply_jitter: the factor is 0.75 + 0.5 * (a fraction below 1).          *)
Jittered(d) == {j \in 0 .. 2 * d : 3 * d <= 4 * j /\ (4 * j < 5 * d \/ d = 0)}

Init ==
  /\ builder \in Builders
  /\ pc = "calling"
  /\ attempt = 0
  /\ current_delay = IF retry_config = None THEN 0
                     ELSE retry_config.initial_delay
  /\ slept = 0
  /\ elapsed = 0
  /\ result = None

Return(r) == pc' = "done" /\ result' = r

(* The attempt is answered within its timeout, or fails in a way that is   *)
(* not retried.                                                            *)
AttemptEnds(publishing, waiting) ==
  /\ pc = "calling"
  /\ \E r \in {"Ok", "Transport"} : Return(r)
  /\ elapsed' = elapsed + publishing + waiting
  /\ UNCHANGED <<builder, attempt, current_delay, slept>>

Exhausted_offByOne(n) == n > retry_config.max_attempts + 1
Exhausted(n) == n > retry_config.max_attempts

(* The whole timeout passes after publish() without an answer.             *)
AttemptExpires(publishing) ==
  /\ pc = "calling"
  /\ elapsed' = elapsed + publishing + builder.timeout
  /\ \/ /\ retry_config = None
        /\ Return("Timeout")
        /\ UNCHANGED attempt
     \/ /\ retry_config # None
        /\ attempt' = attempt + 1
        /\ \/ Exhausted(attempt + 1) /\ Return("TransportRetryable")
           \/ /\ ~Exhausted(attempt + 1)
              /\ pc' = "sleeping"
              /\ UNCHANGED result
  /\ UNCHANGED <<builder, current_delay, slept>>

NextDelay_uncapped(d) == d * retry_config.multiplier
NextDelay(d) == Smaller(d * retry_config.multiplier, retry_config.max_delay)

Sleep_nonzero ==
  /\ pc = "sleeping"
  /\ current_delay > 0
  /\ slept' \in Jittered(current_delay)
  /\ elapsed' = elapsed + slept'
  /\ current_delay' = NextDelay(current_delay)
  /\ pc' = "calling"
  /\ UNCHANGED <<builder, attempt, result>>

(* The loop sleeps the jittered delay, then computes the next one.         *)
Sleep ==
  /\ pc = "sleeping"
  /\ slept' \in Jittered(current_delay)
  /\ elapsed' = elapsed + slept'
  /\ current_delay' = NextDelay(current_delay)
  /\ pc' = "calling"
  /\ UNCHANGED <<builder, attempt, result>>

Next ==
  \/ \E p \in 0 .. MaxPublish :
        \/ \E w \in 0 .. builder.timeout : AttemptEnds(p, w)
        \/ AttemptExpires(p)
  \/ Sleep

(* Tokio's timers fire, and publish() returns.                             *)
Fairness == WF_vars(Next)

Spec == Init /\ [][Next]_vars /\ Fairness

-----------------------------------------------------------------------------
(* Types of the state of a call, and of the configuration it runs under.   *)
TypeOK ==
  /\ builder \in Builders
  /\ retry_config \in RetryConfig \cup {None}
  /\ pc \in {"calling", "sleeping", "done"}
  /\ attempt \in Nat
  /\ current_delay \in Nat
  /\ slept \in Nat
  /\ elapsed \in Nat
  /\ result \in Results \cup {None}

(* The powers of m, as a recursive function.                               *)
Powers(m) ==
  LET power[k \in Nat] == IF k = 0 THEN 1 ELSE m * power[k - 1] IN power

(* initial_delay * multiplier^n, capped: the schedule of src/retry.rs's    *)
(* documentation.  The cap does not apply to the first delay.              *)
Scheduled(n) ==
  IF n = 0 THEN retry_config.initial_delay
  ELSE Smaller(retry_config.initial_delay * Powers(retry_config.multiplier)[n],
               retry_config.max_delay)

(* The incremental computation of the delay follows the documented         *)
(* schedule: initial, then initial * multiplier^n capped by max_delay.     *)
BackoffSchedule ==
  retry_config # None /\ pc = "calling" => current_delay = Scheduled(attempt)

(* The longest the loop sleeps before a retry: the larger of the two       *)
(* configured delays, and a quarter of it for the jitter.                  *)
LongestDelay == Larger(retry_config.initial_delay, retry_config.max_delay)

SleepIsBounded ==
  retry_config # None => 4 * slept <= 5 * LongestDelay

(* The real bound on a call, in place of a total budget: one timeout and   *)
(* one publish per attempt and one sleep between two attempts, for at most *)
(* max_attempts + 1 attempts.                                              *)
WorstCase ==
  IF retry_config = None
  THEN elapsed <= MaxPublish + builder.timeout
  ELSE 4 * elapsed <=
         4 * ((retry_config.max_attempts + 1) * (MaxPublish + builder.timeout))
           + 5 * (retry_config.max_attempts * LongestDelay)

(* The inductive form: the bound so far, attempt by attempt and sleep by   *)
(* sleep, while the loop runs.                                             *)
SoFar(attempts, sleeps) ==
  4 * elapsed <= 4 * (attempts * (MaxPublish + builder.timeout))
                   + 5 * (sleeps * LongestDelay)

TimeInv ==
  /\ TypeOK
  /\ pc # "done" => result = None
  /\ IF retry_config = None
     THEN /\ pc # "sleeping"
          /\ pc = "calling" => elapsed = 0
          /\ pc = "done" => elapsed <= MaxPublish + builder.timeout
     ELSE /\ current_delay <= LongestDelay
          /\ 4 * slept <= 5 * LongestDelay
          /\ pc = "calling" => /\ attempt <= retry_config.max_attempts
                               /\ SoFar(attempt, attempt)
          /\ pc = "sleeping" => /\ attempt \in 1 .. retry_config.max_attempts
                                /\ SoFar(attempt, attempt - 1)
          /\ pc = "done" => SoFar(retry_config.max_attempts + 1,
                                  retry_config.max_attempts)

(* An unanswered call is retried exactly when the builder was given a      *)
(* retry parameter, whichever one it is.                                   *)
RetryIffAsked ==
  /\ result = "Timeout" => ~Asked(builder)
  /\ result = "TransportRetryable" => Asked(builder)

(* The retry loop ends, also with delays and timeouts of zero.             *)
CallEnds == <>(pc = "done")
=============================================================================

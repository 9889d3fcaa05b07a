---------------------------- MODULE RetryTimingMC ----------------------------
(***************************************************************************)
(* Instances of RetryTiming for TLC.  A tick is 25ms: the default initial  *)
(* delay of 100ms is 4 ticks, which jitter can shorten or lengthen.        *)
(***************************************************************************)
EXTENDS RetryTiming

(* RetryConfig's defaults, with max_delay scaled down from 5s so that      *)
(* three retries reach it.                                                 *)
ScaledDefaults ==
  [max_attempts |-> 3, multiplier |-> 2, initial_delay |-> 4, max_delay |-> 9]

Set(max_attempts, multiplier, initial_delay, max_delay, timeout) ==
  [max_attempts |-> max_attempts, multiplier |-> multiplier,
   initial_delay |-> initial_delay, max_delay |-> max_delay,
   timeout |-> timeout]

(* No retry; each parameter alone; zero attempts, delays and timeouts; a   *)
(* first delay above the cap.                                              *)
VariousBuilders ==
  {Set(None, None, None, None, 6),
   Set(2, None, None, None, 6),
   Set(0, None, None, None, 3),
   Set(None, 3, None, None, 3),
   Set(None, None, 0, None, 2),
   Set(None, None, None, 5, 1),
   Set(2, 1, 8, 4, 0),
   Set(3, 0, 4, 8, 2)}
=============================================================================

----------------------------- MODULE AmqpActorMC -----------------------------
(***************************************************************************)
(* An instance of AmqpActor for TLC.                                       *)
(***************************************************************************)
EXTENDS AmqpActor, TLC

CONSTANTS s1, s2, requests_n, responses_n

(* The two queues of a full-duplex broker; two requests arrive at an inbox *)
(* of one.                                                                 *)
DuplexQueues == (s1 :> requests_n) @@ (s2 :> responses_n)
Arrivals == (requests_n :> 2) @@ (responses_n :> 1)
=============================================================================

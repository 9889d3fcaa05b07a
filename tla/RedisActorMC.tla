---------------------------- MODULE RedisActorMC ----------------------------
(***************************************************************************)
(* Instances of RedisActor for TLC.                                        *)
(***************************************************************************)
EXTENDS RedisActor, TLC

CONSTANTS s1, s2, requests, responses

(* Two subscribers of one topic, and of two.                               *)
SharedTopic == (s1 :> responses) @@ (s2 :> responses)
TwoTopics == (s1 :> responses) @@ (s2 :> requests)
=============================================================================

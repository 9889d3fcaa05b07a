----------------------------- MODULE MqttActorMC -----------------------------
(***************************************************************************)
(* Instances of MqttActor for TLC.                                         *)
(***************************************************************************)
EXTENDS MqttActor, TLC

CONSTANTS s1, s2, requests_n, responses_n

(* The two subscriptions of a full-duplex broker.                          *)
DuplexTopics == (s1 :> requests_n) @@ (s2 :> responses_n)
=============================================================================

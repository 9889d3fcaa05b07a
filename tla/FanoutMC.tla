------------------------------ MODULE FanoutMC ------------------------------
(***************************************************************************)
(* An instance of Fanout for TLC.                                          *)
(***************************************************************************)
EXTENDS Fanout, TLC

CONSTANTS s1, s2, responses

(* Two subscribers share a topic.                                          *)
OneTopic == (s1 :> responses) @@ (s2 :> responses)
=============================================================================

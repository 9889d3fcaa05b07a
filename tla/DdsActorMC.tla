----------------------------- MODULE DdsActorMC -----------------------------
(***************************************************************************)
(* An instance of DdsActor for TLC.                                        *)
(***************************************************************************)
EXTENDS DdsActor, TLC

CONSTANTS p1, s1, s2, responses

(* Two subscribers, and so two readers, of the topic we publish on.        *)
OneTopic == (p1 :> responses) @@ (s1 :> responses) @@ (s2 :> responses)
=============================================================================

----------------------------- MODULE MemoryHubMC -----------------------------
(***************************************************************************)
(* Instances of MemoryHub for TLC.                                         *)
(***************************************************************************)
EXTENDS MemoryHub, TLC

CONSTANTS p1, p2, s1, s2, requests, responses

(* Two publishers compete for s1's inbox; s2 only competes for the lock.   *)
SharedInbox ==
  (p1 :> requests) @@ (p2 :> requests) @@ (s1 :> requests) @@ (s2 :> responses)
=============================================================================

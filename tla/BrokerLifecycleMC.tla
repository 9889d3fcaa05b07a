-------------------------- MODULE BrokerLifecycleMC --------------------------
(***************************************************************************)
(* An instance of BrokerLifecycle for TLC: three values of one broker.     *)
(***************************************************************************)
EXTENDS BrokerLifecycle

CONSTANTS h1, h2, h3
ThreeHandles == {h1, h2, h3}
=============================================================================

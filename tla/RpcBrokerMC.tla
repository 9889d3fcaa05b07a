----------------------------- MODULE RpcBrokerMC -----------------------------
(***************************************************************************)
(* Instances of RpcBroker for TLC.                                         *)
(***************************************************************************)
EXTENDS RpcBroker, TLC

CONSTANTS c1, c2, c3, alice, bob, m1, v1

(* alice is a client of bob's server, which also tries to call alice.      *)
ClientServerMode == (alice :> "Client") @@ (bob :> "Server")
FromBoth == (c1 :> alice) @@ (c2 :> alice) @@ (c3 :> bob)
ToOther == (c1 :> bob) @@ (c2 :> bob) @@ (c3 :> alice)
SameMethod == (c1 :> m1) @@ (c2 :> m1) @@ (c3 :> m1)

(* One call between two full-duplex nodes.                                 *)
DuplexMode == (alice :> "FullDuplex") @@ (bob :> "FullDuplex")
OneFromAlice == c1 :> alice
OneToBob == c1 :> bob
OneMethod == c1 :> m1

NoStrays == {}

(* A request without a method and a response without an id.                *)
TwoStrays ==
  {[to |-> RequestsOf(bob), method |-> None, id |-> None,
    reply_to |-> ResponsesOf(alice), call |-> c1, value |-> None],
   [to |-> ResponsesOf(alice), method |-> None, id |-> None,
    reply_to |-> None, call |-> c1, value |-> v1]}

IdSymmetry == Permutations(Ids)
=============================================================================

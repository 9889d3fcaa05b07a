-------------------------- MODULE TransportContract --------------------------
(***************************************************************************)
(* What domain/transport.rs lets the layers above assume of a transport,   *)
(* without locks, lists or inboxes.  A message is delivered only while it  *)
(* is being published, to subscriptions in force, on its own address, and  *)
(* once.  A publish() ends when it has been delivered to everyone who had  *)
(* subscribed before it began and has neither dropped the handle nor been  *)
(* closed since.  Nothing is said about order.                             *)
(***************************************************************************)
EXTENDS Sequences, SequencesExt

CONSTANTS Messages,     \* what is ever published
          Subscribers,  \* the subscribe() calls
          Destination,  \* Destination[m]: the address of message m
          Subscription  \* Subscription[s]: what s subscribes to

VARIABLES publishing, \* messages whose publish() is under way
          published,  \* messages whose publish() has returned
          open,       \* subscriptions in force
          dropped,    \* subscribers that have dropped their handle
          promised,   \* <<m, s>>: s was in force when m's publish() began
          heard       \* heard[s]: what s was given, and can still receive

vars == <<publishing, published, open, dropped, promised, heard>>

Init ==
  /\ publishing = {} /\ published = {}
  /\ open = {} /\ dropped = {}
  /\ promised = {}
  /\ heard = [s \in Subscribers |-> <<>>]

Listening(s) == s \in open /\ s \notin dropped

Begin(m) ==
  /\ m \notin publishing \cup published
  /\ publishing' = publishing \cup {m}
  /\ promised' = promised \cup
       {<<m, s>> : s \in {u \in open : Subscription[u] = Destination[m]}}
  /\ UNCHANGED <<published, open, dropped, heard>>

Deliver(m, s) ==
  /\ m \in publishing
  /\ Listening(s) /\ Subscription[s] = Destination[m]
  /\ ~Contains(heard[s], m)
  /\ heard' = [heard EXCEPT ![s] = Append(heard[s], m)]
  /\ UNCHANGED <<publishing, published, open, dropped, promised>>

Return(m) ==
  /\ m \in publishing
  /\ \A s \in Subscribers :
       <<m, s>> \in promised /\ Listening(s) => Contains(heard[s], m)
  /\ publishing' = publishing \ {m}
  /\ published' = published \cup {m}
  /\ UNCHANGED <<open, dropped, promised, heard>>

Subscribe(s) ==
  /\ s \notin open \cup dropped
  /\ open' = open \cup {s}
  /\ UNCHANGED <<publishing, published, dropped, promised, heard>>

(* What was given to s and not received is lost.                           *)
Drop(s) ==
  /\ s \notin dropped
  /\ dropped' = dropped \cup {s}
  /\ \E n \in 0 .. Len(heard[s]) :
       heard' = [heard EXCEPT ![s] = SubSeq(heard[s], 1, n)]
  /\ UNCHANGED <<publishing, published, open, promised>>

(* Whoever closes, everyone's subscriptions end: the hub is shared.        *)
Close ==
  /\ open' = {}
  /\ UNCHANGED <<publishing, published, dropped, promised, heard>>

Next ==
  \/ \E m \in Messages : Begin(m) \/ Return(m)
  \/ \E m \in Messages, s \in Subscribers : Deliver(m, s)
  \/ \E s \in Subscribers : Subscribe(s) \/ Drop(s)
  \/ Close

Spec == Init /\ [][Next]_vars
=============================================================================

------------------------------- MODULE Fanout -------------------------------
(***************************************************************************)
(* How the transports that talk to a broker hand incoming messages to the  *)
(* local subscribers: handle_incoming() of src/transport/mqtt/rumqttc.rs,  *)
(* which the Redis and DDS transports repeat (for DDS, whose readers run   *)
(* it side by side, see DdsActor).  The actor copies the senders of a      *)
(* topic, tries each of them without the lock, and writes the survivors    *)
(* back; subscribe() adds a sender to the map at any time, from any        *)
(* thread.                                                                 *)
(***************************************************************************)
EXTENDS Naturals, Sequences, SequencesExt

CONSTANTS
  Subscribers, \* subscribe() calls; each makes the inbox of its name
  TopicOf,     \* TopicOf[s]: the topic of s
  Capacity,    \* of an inbox: mpsc::channel(16)
  MaxMessages, \* bound: messages that arrive on each topic
  None

Topics == {TopicOf[s] : s \in Subscribers}

(* What a module that uses this one assumes.                               *)
ConstantsOK ==
  /\ Capacity \in Nat \ {0} /\ MaxMessages \in Nat
  /\ None \notin Topics

VARIABLES
  subscribers, \* subscribers[t]: the senders stored under topic t
  state,       \* state[s]: "idle", "subscribed" or "dropped"
  inbox,       \* inbox[s]: what s's handle can receive
  arrived,     \* arrived[t]: messages of t the actor has taken so far
  topic,       \* of the message being fanned out, or None
  senders,     \* the copied senders that are still to be tried
  survivors,   \* those that took the message
  original,    \* how many were copied
  received,    \* history: what was received from s's handle
  since        \* history: arrived[TopicOf[s]] when s subscribed or was dropped

mapVars == <<subscribers, state, inbox>>
actorVars == <<arrived, topic, senders, survivors, original>>
vars == <<mapVars, actorVars, received, since>>

Init ==
  /\ subscribers = [t \in Topics |-> <<>>]
  /\ state = [s \in Subscribers |-> "idle"]
  /\ inbox = [s \in Subscribers |-> <<>>]
  /\ arrived = [t \in Topics |-> 0]
  /\ topic = None
  /\ senders = <<>>
  /\ survivors = <<>>
  /\ original = 0
  /\ received = [s \in Subscribers |-> <<>>]
  /\ since = [s \in Subscribers |-> 0]

-----------------------------------------------------------------------------
(* The subscribers.                                                        *)

(* subscribe() pushes its sender under the write lock.                     *)
Subscribe(s) ==
  /\ state[s] = "idle"
  /\ state' = [state EXCEPT ![s] = "subscribed"]
  /\ subscribers' = [subscribers EXCEPT ![TopicOf[s]] = Append(@, s)]
  /\ since' = [since EXCEPT ![s] = arrived[TopicOf[s]]]
  /\ UNCHANGED <<inbox, received, actorVars>>

Receive(s) ==
  /\ state[s] = "subscribed"
  /\ inbox[s] # <<>>
  /\ received' = [received EXCEPT ![s] = Append(@, Head(inbox[s]))]
  /\ inbox' = [inbox EXCEPT ![s] = Tail(@)]
  /\ UNCHANGED <<subscribers, state, since, actorVars>>

(* The handle is dropped; nothing but the closed channel tells the actor.  *)
DropHandle(s) ==
  /\ state[s] = "subscribed"
  /\ state' = [state EXCEPT ![s] = "dropped"]
  /\ inbox' = [inbox EXCEPT ![s] = <<>>]
  /\ since' = [since EXCEPT ![s] = arrived[TopicOf[s]]]
  /\ UNCHANGED <<subscribers, received, actorVars>>

-----------------------------------------------------------------------------
(* The actor.                                                              *)

(* A message arrives: its topic's senders are copied under the read lock.  *)
Incoming(t) ==
  /\ topic = None
  /\ arrived[t] < MaxMessages
  /\ arrived' = [arrived EXCEPT ![t] = @ + 1]
  /\ topic' = t
  /\ senders' = subscribers[t]
  /\ survivors' = <<>>
  /\ original' = Len(subscribers[t])
  /\ UNCHANGED <<mapVars, received, since>>

Accepts_overfull(s) == state[s] = "subscribed"
Accepts(s) == state[s] = "subscribed" /\ Len(inbox[s]) < Capacity

(* A sender that cannot take the message, its inbox full, does not take it *)
(* but stays.                                                              *)
TrySend_keepsSlow ==
  /\ senders # <<>>
  /\ LET s == Head(senders) IN
       \/ /\ Accepts(s)
          /\ inbox' = [inbox EXCEPT ![s] = Append(@, arrived[topic])]
          /\ survivors' = Append(survivors, s)
       \/ /\ ~Accepts(s)
          /\ survivors' = IF state[s] = "dropped" THEN survivors
                          ELSE Append(survivors, s)
          /\ UNCHANGED inbox
  /\ senders' = Tail(senders)
  /\ UNCHANGED <<subscribers, state, arrived, topic, original, received, since>>

(* try_send to the next sender: it takes the message and survives, or its  *)
(* inbox is full or dropped and it is evicted.                             *)
TrySend ==
  /\ senders # <<>>
  /\ LET s == Head(senders) IN
       \/ /\ Accepts(s)
          /\ inbox' = [inbox EXCEPT ![s] = Append(@, arrived[topic])]
          /\ survivors' = Append(survivors, s)
       \/ ~Accepts(s) /\ UNCHANGED <<inbox, survivors>>
  /\ senders' = Tail(senders)
  /\ UNCHANGED <<subscribers, state, arrived, topic, original, received, since>>

Evicts_unlessLast == survivors # <<>> /\ Len(survivors) # original
Evicts == Len(survivors) # original

(* If a sender was evicted, the survivors replace what the map now holds.  *)
WriteBack ==
  /\ topic # None
  /\ senders = <<>>
  /\ subscribers' = IF Evicts THEN [subscribers EXCEPT ![topic] = survivors]
                    ELSE subscribers
  /\ topic' = None
  /\ survivors' = <<>>
  /\ original' = 0
  /\ UNCHANGED <<state, inbox, arrived, senders, received, since>>

Next ==
  \/ \E s \in Subscribers : Subscribe(s) \/ Receive(s) \/ DropHandle(s)
  \/ \E t \in Topics : Incoming(t)
  \/ TrySend
  \/ WriteBack

Spec == Init /\ [][Next]_vars

-----------------------------------------------------------------------------
(* Types of the subscriber map, the inboxes and the actor's copies.        *)
TypeOK ==
  /\ subscribers \in [Topics -> Seq(Subscribers)]
  /\ state \in [Subscribers -> {"idle", "subscribed", "dropped"}]
  /\ inbox \in [Subscribers -> Seq(1 .. MaxMessages)]
  /\ \A s \in Subscribers : Len(inbox[s]) <= Capacity
  /\ arrived \in [Topics -> 0 .. MaxMessages]
  /\ topic \in Topics \cup {None}
  /\ senders \in Seq(Subscribers)
  /\ survivors \in Seq(Subscribers)
  /\ original \in Nat
  /\ received \in [Subscribers -> Seq(1 .. MaxMessages)]
  /\ since \in [Subscribers -> 0 .. MaxMessages]

Delivered(s) == received[s] \o inbox[s]
Registered(s) == Contains(subscribers[TopicOf[s]], s)

(* A message s is still to be offered.                                     *)
Awaits(s) == topic = TopicOf[s] /\ Contains(senders, s)

(* The map is accurate between two fan-outs.  Whoever is in it and keeps   *)
(* its handle has been handed every message of its topic since it          *)
(* subscribed, each once and in order: a subscriber that missed one is     *)
(* evicted, so that its inbox ends instead of having a gap.  And senders   *)
(* of dropped handles have left the map with the next message.             *)
RegisteredIsUpToDate ==
  topic = None =>
    \A s \in Subscribers : Registered(s) =>
      IF state[s] = "dropped"
      THEN since[s] = arrived[TopicOf[s]]
      ELSE Delivered(s) =
             [i \in 1 .. arrived[TopicOf[s]] - since[s] |-> since[s] + i]

(* Also when it has been evicted, and while a message is fanned out: what  *)
(* a subscriber gets begins with the first message after it subscribed and *)
(* has no gap.                                                             *)
NoGaps ==
  \A s \in Subscribers : state[s] = "subscribed" =>
    Delivered(s) = [i \in 1 .. Len(Delivered(s)) |-> since[s] + i]

-----------------------------------------------------------------------------
(* Statements of the documentation that the code does not keep.            *)

(* src/domain/transport.rs: the subscription remains active until the      *)
(* handle is dropped or the transport is closed.                           *)
ActiveUntilDropped ==
  \A s \in Subscribers : state[s] = "subscribed" => Registered(s)
=============================================================================

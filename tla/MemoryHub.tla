------------------------------ MODULE MemoryHub ------------------------------
(***************************************************************************)
(* The in-memory transport (src/transport/memory.rs), whose behaviour the  *)
(* other transports are to approximate: one hub, a map from subscriptions  *)
(* to bounded inboxes behind a tokio RwLock, and any number of concurrent  *)
(* publish(), subscribe() and close() calls.                               *)
(*                                                                         *)
(* tokio's RwLock is fair: requests wait in one queue and are granted in   *)
(* its order, readers together, a writer alone.                            *)
(***************************************************************************)
EXTENDS Naturals, Sequences, SequencesExt

CONSTANTS
  Topics,      \* addresses; a subscription matches the equal address
  Publishers,  \* tasks that publish one message after another
  Subscribers, \* subscribe() calls; each makes the inbox of its name
  Closers,     \* close() calls
  TopicOf,     \* TopicOf[x]: where publisher or subscriber x goes
  Messages,    \* how many messages each publisher publishes
  Capacity,    \* of an inbox: mpsc::channel(16)
  None

Processes == Publishers \cup Subscribers \cup Closers

ASSUME ProcessesAssumption ==
  /\ Publishers \cap Subscribers = {}
  /\ Closers \cap (Publishers \cup Subscribers) = {}
  /\ None \notin Processes
ASSUME TopicAssumption == TopicOf \in [Publishers \cup Subscribers -> Topics]
ASSUME SizeAssumption == Messages \in Nat /\ Capacity \in Nat \ {0}

Message == [from : Publishers, seq : 1 .. Messages]

VARIABLES
  pc,       \* pc[x]: "idle", "queued", "holding" or "returned"
  waiting,  \* the RwLock's queue of processes
  readers,  \* the publishers that hold the lock
  writer,   \* the subscriber or closer that holds it
  subs,     \* subs[t]: the inboxes stored under subscription t
  inbox,    \* inbox[s]: what s's handle can receive
  alive,    \* alive[s]: the SubscriptionHandle has not been dropped
  sent,     \* sent[p]: how many publish() calls of p have returned
  pos,      \* pos[p]: the position of p's loop in the senders
  received, \* history: received[s]: what was received from the handle
  owed      \* history: <<m, s>>: s was subscribed when m's publish() began

vars == <<pc, waiting, readers, writer, subs, inbox, alive, sent, pos,
          received, owed>>

Subscribed(s) == pc[s] = "returned" /\ Contains(subs[TopicOf[s]], s)

Init ==
  /\ pc = [x \in Processes |-> "idle"]
  /\ waiting = <<>>
  /\ readers = {}
  /\ writer = None
  /\ subs = [t \in Topics |-> <<>>]
  /\ inbox = [s \in Subscribers |-> <<>>]
  /\ alive = [s \in Subscribers |-> TRUE]
  /\ sent = [p \in Publishers |-> 0]
  /\ pos = [p \in Publishers |-> 1]
  /\ received = [s \in Subscribers |-> <<>>]
  /\ owed = {}

-----------------------------------------------------------------------------
(* The lock.                                                               *)

Enqueue(x) ==
  /\ pc[x] = "idle"
  /\ pc' = [pc EXCEPT ![x] = "queued"]
  /\ waiting' = Append(waiting, x)

Grantable_unfair(x) == writer = None
Grantable(x) == writer = None /\ (x \in Publishers \/ readers = {})

Grant ==
  /\ waiting # <<>>
  /\ Grantable(Head(waiting))
  /\ LET x == Head(waiting) IN
       /\ pc' = [pc EXCEPT ![x] = "holding"]
       /\ IF x \in Publishers
          THEN readers' = readers \cup {x} /\ UNCHANGED writer
          ELSE writer' = x /\ UNCHANGED readers
  /\ waiting' = Tail(waiting)
  /\ UNCHANGED <<subs, inbox, alive, sent, pos, received, owed>>

-----------------------------------------------------------------------------
(* publish()                                                               *)

Sending(p) == [from |-> p, seq |-> sent[p] + 1]
Targets(p) == subs[TopicOf[p]]

Publish(p) ==
  /\ sent[p] < Messages
  /\ Enqueue(p)
  /\ owed' = owed \cup
       {<<Sending(p), s>> : s \in {u \in Subscribers :
                                     TopicOf[u] = TopicOf[p] /\ Subscribed(u)}}
  /\ UNCHANGED <<readers, writer, subs, inbox, alive, sent, pos, received>>

(* One turn of the loop: the message goes into the next matching inbox, or *)
(* is not sent because the handle was dropped.  With the inbox full and    *)
(* the handle alive, the turn waits, and the lock stays held.              *)
Full_never(s) == FALSE
Full(s) == Len(inbox[s]) >= Capacity

Send_dropsWhenFull(p) ==
  /\ pc[p] = "holding"
  /\ pos[p] <= Len(Targets(p))
  /\ LET s == Targets(p)[pos[p]] IN
       IF alive[s] /\ ~Full(s)
       THEN inbox' = [inbox EXCEPT ![s] = Append(@, Sending(p))]
       ELSE UNCHANGED inbox
  /\ pos' = [pos EXCEPT ![p] = @ + 1]
  /\ UNCHANGED <<pc, waiting, readers, writer, subs, alive, sent, received, owed>>

Send(p) ==
  /\ pc[p] = "holding"
  /\ pos[p] <= Len(Targets(p))
  /\ LET s == Targets(p)[pos[p]] IN
       \/ /\ alive[s] /\ ~Full(s)
          /\ inbox' = [inbox EXCEPT ![s] = Append(@, Sending(p))]
       \/ ~alive[s] /\ UNCHANGED inbox
  /\ pos' = [pos EXCEPT ![p] = @ + 1]
  /\ UNCHANGED <<pc, waiting, readers, writer, subs, alive, sent, received, owed>>

PublishReturns_early(p) ==
  /\ pc[p] = "holding"
  /\ pos[p] >= Len(Targets(p))
  /\ pc' = [pc EXCEPT ![p] = "idle"]
  /\ readers' = readers \ {p}
  /\ sent' = [sent EXCEPT ![p] = @ + 1]
  /\ pos' = [pos EXCEPT ![p] = 1]
  /\ UNCHANGED <<waiting, writer, subs, inbox, alive, received, owed>>

PublishReturns(p) ==
  /\ pc[p] = "holding"
  /\ pos[p] > Len(Targets(p))
  /\ pc' = [pc EXCEPT ![p] = "idle"]
  /\ readers' = readers \ {p}
  /\ sent' = [sent EXCEPT ![p] = @ + 1]
  /\ pos' = [pos EXCEPT ![p] = 1]
  /\ UNCHANGED <<waiting, writer, subs, inbox, alive, received, owed>>

-----------------------------------------------------------------------------
(* subscribe(), close() and the handle.                                    *)

Subscribe(s) ==
  /\ Enqueue(s)
  /\ UNCHANGED <<readers, writer, subs, inbox, alive, sent, pos, received, owed>>

SubscribeReturns_keepsLock(s) ==
  /\ writer = s
  /\ pc[s] = "holding"
  /\ subs' = [subs EXCEPT ![TopicOf[s]] = Append(@, s)]
  /\ pc' = [pc EXCEPT ![s] = "returned"]
  /\ UNCHANGED <<waiting, readers, writer, inbox, alive, sent, pos, received, owed>>

(* The entry is created with the sender in it, and the sender is pushed.   *)
SubscribeReturns_twice(s) ==
  /\ writer = s
  /\ subs' = [subs EXCEPT ![TopicOf[s]] = @ \o <<s, s>>]
  /\ writer' = None
  /\ pc' = [pc EXCEPT ![s] = "returned"]
  /\ UNCHANGED <<waiting, readers, inbox, alive, sent, pos, received, owed>>

SubscribeReturns(s) ==
  /\ writer = s
  /\ subs' = [subs EXCEPT ![TopicOf[s]] = Append(@, s)]
  /\ writer' = None
  /\ pc' = [pc EXCEPT ![s] = "returned"]
  /\ UNCHANGED <<waiting, readers, inbox, alive, sent, pos, received, owed>>

Close(c) ==
  /\ Enqueue(c)
  /\ UNCHANGED <<readers, writer, subs, inbox, alive, sent, pos, received, owed>>

(* close() of any transport of the hub clears every subscription.          *)
CloseReturns(c) ==
  /\ writer = c
  /\ subs' = [t \in Topics |-> <<>>]
  /\ writer' = None
  /\ pc' = [pc EXCEPT ![c] = "returned"]
  /\ UNCHANGED <<waiting, readers, inbox, alive, sent, pos, received, owed>>

Receive(s) ==
  /\ pc[s] = "returned"
  /\ alive[s]
  /\ inbox[s] # <<>>
  /\ received' = [received EXCEPT ![s] = Append(@, Head(inbox[s]))]
  /\ inbox' = [inbox EXCEPT ![s] = Tail(@)]
  /\ UNCHANGED <<pc, waiting, readers, writer, subs, alive, sent, pos, owed>>

(* Dropping the handle closes the inbox; its sender stays in the map.      *)
DropHandle(s) ==
  /\ pc[s] = "returned"
  /\ alive[s]
  /\ alive' = [alive EXCEPT ![s] = FALSE]
  /\ inbox' = [inbox EXCEPT ![s] = <<>>]
  /\ UNCHANGED <<pc, waiting, readers, writer, subs, sent, pos, received, owed>>

-----------------------------------------------------------------------------
HubStep ==
  \/ Grant
  \/ \E p \in Publishers : Send(p) \/ PublishReturns(p)
  \/ \E s \in Subscribers : SubscribeReturns(s)
  \/ \E c \in Closers : CloseReturns(c)

Next ==
  \/ HubStep
  \/ \E p \in Publishers : Publish(p)
  \/ \E s \in Subscribers : Subscribe(s) \/ Receive(s) \/ DropHandle(s)
  \/ \E c \in Closers : Close(c)

Safety == Init /\ [][Next]_vars

(* The lock is granted and the calls that hold it run on.                  *)
HubFairness ==
  /\ WF_vars(Grant)
  /\ \A p \in Publishers : WF_vars(Send(p)) /\ WF_vars(PublishReturns(p))
  /\ \A s \in Subscribers : WF_vars(SubscribeReturns(s))
  /\ \A c \in Closers : WF_vars(CloseReturns(c))

(* The owner of a handle receives, as the broker's receiver tasks do.      *)
ReceiverFairness == \A s \in Subscribers : WF_vars(Receive(s))

Spec == Safety /\ HubFairness /\ ReceiverFairness

-----------------------------------------------------------------------------
(* Types of the hub, its lock and its inboxes.                             *)
TypeOK ==
  /\ pc \in [Processes -> {"idle", "queued", "holding", "returned"}]
  /\ waiting \in Seq(Processes)
  /\ readers \subseteq Publishers
  /\ writer \in Subscribers \cup Closers \cup {None}
  /\ subs \in [Topics -> Seq(Subscribers)]
  /\ inbox \in [Subscribers -> Seq(Message)]
  /\ \A s \in Subscribers : Len(inbox[s]) <= Capacity
  /\ alive \in [Subscribers -> BOOLEAN]
  /\ sent \in [Publishers -> 0 .. Messages]
  /\ pos \in [Publishers -> Nat \ {0}]
  /\ received \in [Subscribers -> Seq(Message)]
  /\ owed \subseteq Message \X Subscribers

(* The subscriptions a publish() is iterating over do not change under it: *)
(* nobody subscribes or closes between its first send and its last.        *)
StableWhilePublishing ==
  [][(\E p \in Publishers : pc[p] = "holding" /\ pc'[p] = "holding")
       => subs' = subs]_vars

Delivered(s) == received[s] \o inbox[s]

(* The transport contract: once subscribe() has returned, every message    *)
(* whose publish() begins later and returns is delivered to the inbox,     *)
(* exactly once, unless the handle was dropped or the hub closed.          *)
OwedIsDelivered ==
  \A d \in owed :
    LET m == d[1]
        s == d[2]
    IN m.seq <= sent[m.from] /\ alive[s] /\ Subscribed(s) =>
         Contains(Delivered(s), m)

(* An inbox gets the messages of its own address, those of one publisher   *)
(* in the order they were published, and none twice.                       *)
InOrderOnce ==
  \A s \in Subscribers :
    LET d == Delivered(s) IN
    /\ \A i \in DOMAIN d : TopicOf[d[i].from] = TopicOf[s]
    /\ \A i, j \in DOMAIN d :
         i < j /\ d[i].from = d[j].from => d[i].seq < d[j].seq

(* What the contract sees of the hub.                                      *)
Publishing ==
  {Sending(p) : p \in {q \in Publishers : pc[q] \in {"queued", "holding"}}}
Published == {m \in Message : m.seq <= sent[m.from]}
Open == {s \in Subscribers : Subscribed(s)}
Dropped == {s \in Subscribers : ~alive[s]}
Heard == [s \in Subscribers |-> Delivered(s)]
Destination == [m \in Message |-> TopicOf[m.from]]
Subscription == [s \in Subscribers |-> TopicOf[s]]

Contract ==
  INSTANCE TransportContract WITH
    Messages <- Message, publishing <- Publishing, published <- Published,
    open <- Open, dropped <- Dropped, promised <- owed, heard <- Heard

(* The hub with its lock, loops and inboxes keeps the contract of the      *)
(* transport trait, which knows of none of them.                           *)
ImplementsContract == Contract!Spec

(* If handles are received from, every publish(), subscribe() and close()  *)
(* returns: the lock passes on.                                            *)
EveryCallReturns ==
  \A x \in Processes : pc[x] = "queued" ~> pc[x] \in {"idle", "returned"}

=============================================================================

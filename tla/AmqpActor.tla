------------------------------ MODULE AmqpActor ------------------------------
(***************************************************************************)
(* The AMQP transport (src/transport/amqp/lapin.rs): publish(),            *)
(* subscribe() and close() send commands to an actor that owns the channel *)
(* and the connection; a consumer task per queue hands what arrives to the *)
(* local inboxes.                                                          *)
(*                                                                         *)
(* A consumer holds the read lock of the subscriber map while it waits for *)
(* room in an inbox; subscribe() needs the write lock, and tokio's RwLock  *)
(* grants in the order of its queue, so the consumers of other queues wait *)
(* behind that subscribe().                                                *)
(***************************************************************************)
EXTENDS Naturals, Sequences, SequencesExt

CONSTANTS
  PublishCalls, SubscribeCalls, CloseCalls, \* the calls of the trait's methods
  Queue,       \* Queue[s]: what subscribe() call s subscribes to
  Capacity,    \* of an inbox: mpsc::channel(16)
  MaxMessages, \* bound: MaxMessages[q] messages arrive on queue q
  None

Calls == PublishCalls \cup SubscribeCalls \cup CloseCalls
Queues == {Queue[s] : s \in SubscribeCalls}

ASSUME CallsAssumption ==
  /\ PublishCalls \cap SubscribeCalls = {}
  /\ CloseCalls \cap (PublishCalls \cup SubscribeCalls) = {}
  /\ Queues \cap Calls = {}
  /\ None \notin Calls
ASSUME SizeAssumption == Capacity \in Nat \ {0} /\ MaxMessages \in [Queues -> Nat]

VARIABLES
  pc,        \* pc[x]: where call x stands
  commands,  \* the actor's command channel
  accepting, \* the actor has not closed it
  actor,     \* "running" or "stopped"
  handle,    \* the actor's JoinHandle: "spawned", "listed" in tasks or "taken"
  joiner,    \* the close() that awaits it, with the lock of tasks held
  subscribers, \* subscribers[q]: the senders stored under queue q
  waiting,   \* the queue of that map's RwLock
  readers,   \* the consumers that hold it
  consumer,  \* consumer[q]: the consumer task of q
  pos,       \* pos[q]: its position in the senders
  inbox,     \* inbox[s]: what s can receive
  alive,     \* alive[s]: its receiver has not been dropped
  taken,     \* taken[q]: how many deliveries of q were taken from the stream
  offered,   \* history: offered[q]: those that were fanned out
  since,     \* history: since[s]: how many these were when s registered
  received   \* history: what was received from s's handle

callVars == <<pc, commands, accepting>>
closeVars == <<actor, handle, joiner>>
lockVars == <<subscribers, waiting, readers>>
consumerVars == <<consumer, pos, taken, offered>>
inboxVars == <<inbox, alive, since, received>>
vars == <<callVars, closeVars, lockVars, consumerVars, inboxVars>>

Init ==
  /\ pc = [x \in Calls |-> "idle"]
  /\ commands = <<>>
  /\ accepting = TRUE
  /\ actor = "running"
  /\ handle = "spawned"
  /\ joiner = None
  /\ subscribers = [q \in Queues |-> <<>>]
  /\ waiting = <<>>
  /\ readers = {}
  /\ consumer = [q \in Queues |-> "absent"]
  /\ pos = [q \in Queues |-> 1]
  /\ inbox = [s \in SubscribeCalls |-> <<>>]
  /\ alive = [s \in SubscribeCalls |-> TRUE]
  /\ taken = [q \in Queues |-> 0]
  /\ offered = [q \in Queues |-> <<>>]
  /\ since = [s \in SubscribeCalls |-> 0]
  /\ received = [s \in SubscribeCalls |-> <<>>]

-----------------------------------------------------------------------------
(* The callers.                                                            *)

(* subscribe() asks for the write lock of the map ...                      *)
Subscribe(s) ==
  /\ pc[s] = "idle"
  /\ pc' = [pc EXCEPT ![s] = "locking"]
  /\ waiting' = Append(waiting, s)
  /\ UNCHANGED <<commands, accepting, closeVars, subscribers, readers,
                 consumerVars, inboxVars>>

(* ... and enters its sender, before the queue exists.                     *)
Register(s) ==
  /\ waiting # <<>> /\ Head(waiting) = s
  /\ readers = {}
  /\ waiting' = Tail(waiting)
  /\ subscribers' = [subscribers EXCEPT ![Queue[s]] = Append(@, s)]
  /\ since' = [since EXCEPT ![s] = Len(offered[Queue[s]])]
  /\ pc' = [pc EXCEPT ![s] = "registered"]
  /\ UNCHANGED <<commands, accepting, closeVars, readers, consumerVars,
                 inbox, alive, received>>

(* A call fails; the receiver that a subscribe() made is dropped, and its  *)
(* sender stays in the map.                                                *)
Fail(x) ==
  /\ pc' = [pc EXCEPT ![x] = "error"]
  /\ alive' = [s \in SubscribeCalls |-> IF s = x THEN FALSE ELSE alive[s]]
  /\ inbox' = [s \in SubscribeCalls |-> IF s = x THEN <<>> ELSE inbox[s]]
  /\ UNCHANGED <<since, received>>

(* A command is sent; when the channel is closed a close() goes on, other  *)
(* calls fail.                                                             *)
SendCommand(x) ==
  /\ pc[x] = IF x \in SubscribeCalls THEN "registered" ELSE "idle"
  /\ \/ /\ accepting
        /\ commands' = Append(commands, x)
        /\ pc' = [pc EXCEPT ![x] = "sent"]
        /\ UNCHANGED inboxVars
     \/ /\ ~accepting /\ x \in CloseCalls
        /\ pc' = [pc EXCEPT ![x] = "joining"]
        /\ UNCHANGED <<commands, inboxVars>>
     \/ /\ ~accepting /\ x \notin CloseCalls
        /\ Fail(x)
        /\ UNCHANGED commands
  /\ UNCHANGED <<accepting, closeVars, lockVars, consumerVars>>

(* A task that create() spawns enters the actor's handle in tasks.         *)
ListHandle ==
  /\ handle = "spawned"
  /\ joiner = None
  /\ handle' = "listed"
  /\ UNCHANGED <<callVars, actor, joiner, lockVars, consumerVars, inboxVars>>

(* An answered close() locks tasks and awaits the handle it finds there.   *)
Join(c) ==
  /\ pc[c] = "joining"
  /\ joiner = None
  /\ \/ /\ handle = "listed"
        /\ handle' = "taken"
        /\ joiner' = c
        /\ UNCHANGED pc
     \/ /\ handle # "listed"
        /\ pc' = [pc EXCEPT ![c] = "ok"]
        /\ UNCHANGED <<handle, joiner>>
  /\ UNCHANGED <<commands, accepting, actor, lockVars, consumerVars, inboxVars>>

JoinReturns(c) ==
  /\ joiner = c
  /\ actor = "stopped"
  /\ joiner' = None
  /\ pc' = [pc EXCEPT ![c] = "ok"]
  /\ UNCHANGED <<commands, accepting, actor, handle, lockVars, consumerVars,
                 inboxVars>>

-----------------------------------------------------------------------------
(* The actor.                                                              *)

Serve(x) ==
  /\ actor = "running"
  /\ commands # <<>> /\ Head(commands) = x
  /\ commands' = Tail(commands)

ServePublish(x) ==
  /\ Serve(x)
  /\ \E r \in {"ok", "error"} : pc' = [pc EXCEPT ![x] = r]
  /\ UNCHANGED <<accepting, closeVars, lockVars, consumerVars, inboxVars>>

(* do_subscribe: a queue that has a consumer, even one that has ended, is  *)
(* not consumed again.  Declaring and consuming can fail; a second queue   *)
(* on the channel reuses the consumer tag of the first.                    *)
ServeSubscribe(s) ==
  /\ Serve(s)
  /\ \/ /\ consumer' = [consumer EXCEPT ![Queue[s]] =
                          IF @ = "absent" THEN "receiving" ELSE @]
        /\ pc' = [pc EXCEPT ![s] = "ok"]
        /\ UNCHANGED inboxVars
     \/ /\ Fail(s)
        /\ UNCHANGED consumer
  /\ UNCHANGED <<accepting, closeVars, lockVars, pos, taken, offered>>

(* Close is answered first; then the channel takes no more commands, and   *)
(* those in it are still served.                                           *)
ServeClose(c) ==
  /\ Serve(c)
  /\ accepting' = FALSE
  /\ pc' = [pc EXCEPT ![c] = "joining"]
  /\ UNCHANGED <<closeVars, lockVars, consumerVars, inboxVars>>

(* The commands have been served: the actor asks for the consumers to be   *)
(* aborted and closes the channel and the connection.                      *)
Stop ==
  /\ actor = "running"
  /\ ~accepting
  /\ commands = <<>>
  /\ actor' = "stopped"
  /\ UNCHANGED <<callVars, handle, joiner, lockVars, consumerVars, inboxVars>>

(* The transport is dropped, which ends the channel.  Calls borrow the     *)
(* transport, so none is under way and none will begin.                    *)
Abandon ==
  /\ actor = "running"
  /\ accepting
  /\ commands = <<>>
  /\ \A x \in Calls : pc[x] \in {"idle", "ok", "error"}
  /\ pc' = [x \in Calls |-> IF pc[x] = "idle" THEN "never" ELSE pc[x]]
  /\ accepting' = FALSE
  /\ actor' = "stopped"
  /\ UNCHANGED <<commands, handle, joiner, lockVars, consumerVars, inboxVars>>

-----------------------------------------------------------------------------
(* The consumer of queue q.                                                *)

Becomes(q, s) == consumer' = [consumer EXCEPT ![q] = s]

(* A delivery is taken and acknowledged, then decoded; if either fails it  *)
(* is skipped, otherwise the consumer asks for the read lock of the map.   *)
Take(q) ==
  /\ consumer[q] = "receiving"
  /\ taken[q] < MaxMessages[q]
  /\ taken' = [taken EXCEPT ![q] = @ + 1]
  /\ \/ UNCHANGED <<consumer, waiting>>
     \/ Becomes(q, "locking") /\ waiting' = Append(waiting, q)
  /\ UNCHANGED <<callVars, closeVars, subscribers, readers, pos, offered,
                 inboxVars>>

(* With the lock, the senders of the queue are looked up.                  *)
StartFanout(q) ==
  /\ waiting # <<>> /\ Head(waiting) = q
  /\ waiting' = Tail(waiting)
  /\ readers' = readers \cup {q}
  /\ Becomes(q, "sending")
  /\ pos' = [pos EXCEPT ![q] = 1]
  /\ offered' = [offered EXCEPT ![q] = Append(@, taken[q])]
  /\ UNCHANGED <<callVars, closeVars, subscribers, taken, inboxVars>>

Full_never(s) == FALSE
Full(s) == Len(inbox[s]) >= Capacity

(* A turn that drops the message when the inbox is full.                   *)
Send_dropsWhenFull(q) ==
  /\ consumer[q] = "sending"
  /\ pos[q] <= Len(subscribers[q])
  /\ LET s == subscribers[q][pos[q]] IN
       IF alive[s] /\ ~Full(s)
       THEN inbox' = [inbox EXCEPT ![s] = Append(@, taken[q])]
       ELSE UNCHANGED inbox
  /\ pos' = [pos EXCEPT ![q] = @ + 1]
  /\ UNCHANGED <<callVars, closeVars, lockVars, consumer, taken, offered,
                 alive, since, received>>

(* One turn of the loop over the senders.  It waits while the inbox is     *)
(* full; a sender whose receiver was dropped fails, which is logged.       *)
Send(q) ==
  /\ consumer[q] = "sending"
  /\ pos[q] <= Len(subscribers[q])
  /\ LET s == subscribers[q][pos[q]] IN
       \/ /\ alive[s] /\ ~Full(s)
          /\ inbox' = [inbox EXCEPT ![s] = Append(@, taken[q])]
       \/ ~alive[s] /\ UNCHANGED inbox
  /\ pos' = [pos EXCEPT ![q] = @ + 1]
  /\ UNCHANGED <<callVars, closeVars, lockVars, consumer, taken, offered,
                 alive, since, received>>

EndFanout(q) ==
  /\ consumer[q] = "sending"
  /\ pos[q] > Len(subscribers[q])
  /\ Becomes(q, "receiving")
  /\ readers' = readers \ {q}
  /\ UNCHANGED <<callVars, closeVars, subscribers, waiting, pos, taken, offered,
                 inboxVars>>

(* The stream ends, or reports an error.                                   *)
StreamEnds(q) ==
  /\ consumer[q] = "receiving"
  /\ Becomes(q, "ended")
  /\ UNCHANGED <<callVars, closeVars, lockVars, pos, taken, offered, inboxVars>>

(* The lock's queue without q, which is in it at most once.                *)
Without(q) ==
  IF Contains(waiting, q)
  THEN RemoveAt(waiting, CHOOSE i \in DOMAIN waiting : waiting[i] = q)
  ELSE waiting

(* An aborted consumer that leaves its lock behind.                        *)
Abort_keepsLock(q) ==
  /\ actor # "running"
  /\ consumer[q] \in {"receiving", "locking", "sending"}
  /\ Becomes(q, "ended")
  /\ waiting' = Without(q)
  /\ UNCHANGED <<callVars, closeVars, subscribers, readers, pos, taken, offered,
                 inboxVars>>

(* An aborted consumer is dropped at one of its awaits, with its place in  *)
(* the lock and the delivery in its hand; until then it may run on.        *)
Abort(q) ==
  /\ actor # "running"
  /\ consumer[q] \in {"receiving", "locking", "sending"}
  /\ Becomes(q, "ended")
  /\ waiting' = Without(q)
  /\ readers' = readers \ {q}
  /\ UNCHANGED <<callVars, closeVars, subscribers, pos, taken, offered,
                 inboxVars>>

-----------------------------------------------------------------------------
(* The owners of handles.                                                  *)

Receive(s) ==
  /\ pc[s] = "ok"
  /\ alive[s]
  /\ inbox[s] # <<>>
  /\ received' = [received EXCEPT ![s] = Append(@, Head(inbox[s]))]
  /\ inbox' = [inbox EXCEPT ![s] = Tail(@)]
  /\ UNCHANGED <<callVars, closeVars, lockVars, consumerVars, alive, since>>

DropHandle(s) ==
  /\ pc[s] = "ok"
  /\ alive[s]
  /\ alive' = [alive EXCEPT ![s] = FALSE]
  /\ inbox' = [inbox EXCEPT ![s] = <<>>]
  /\ UNCHANGED <<callVars, closeVars, lockVars, consumerVars, since, received>>

-----------------------------------------------------------------------------
ActorStep ==
  \/ \E x \in PublishCalls : ServePublish(x)
  \/ \E s \in SubscribeCalls : ServeSubscribe(s)
  \/ \E c \in CloseCalls : ServeClose(c)
  \/ Stop

SubscribeStep(s) == Register(s) \/ SendCommand(s)
CloseStep(c) == Join(c) \/ JoinReturns(c)
ConsumerStep(q) == StartFanout(q) \/ Send(q) \/ EndFanout(q) \/ Abort(q)

Next ==
  \/ \E s \in SubscribeCalls :
       Subscribe(s) \/ SubscribeStep(s) \/ Receive(s) \/ DropHandle(s)
  \/ \E x \in PublishCalls \cup CloseCalls : SendCommand(x)
  \/ \E c \in CloseCalls : CloseStep(c)
  \/ ListHandle
  \/ ActorStep
  \/ Abandon
  \/ \E q \in Queues : Take(q) \/ ConsumerStep(q) \/ StreamEnds(q)

(* What is under way: calls that have begun, the actor, the consumers, and *)
(* the owners of handles, who receive as the broker's receiver tasks do.   *)
Progress ==
  \/ \E s \in SubscribeCalls : SubscribeStep(s) \/ Receive(s)
  \/ \E c \in CloseCalls : CloseStep(c)
  \/ ActorStep
  \/ \E q \in Queues : ConsumerStep(q)

(* While something under way can go on, something does.  That is enough:   *)
(* finitely many calls and messages leave nobody to starve the others.     *)
Fairness == WF_vars(Progress)

Safety == Init /\ [][Next]_vars
Spec == Safety /\ Fairness

-----------------------------------------------------------------------------
(* Types of the calls, the actor, the map and the consumers.               *)
TypeOK ==
  /\ pc \in [Calls -> {"idle", "locking", "registered", "sent", "joining",
                       "ok", "error", "never"}]
  /\ commands \in Seq(Calls)
  /\ accepting \in BOOLEAN
  /\ actor \in {"running", "stopped"}
  /\ handle \in {"spawned", "listed", "taken"}
  /\ joiner \in CloseCalls \cup {None}
  /\ subscribers \in [Queues -> Seq(SubscribeCalls)]
  /\ waiting \in Seq(SubscribeCalls \cup Queues)
  /\ readers \subseteq Queues
  /\ consumer \in [Queues -> {"absent", "receiving", "locking", "sending",
                              "ended"}]
  /\ pos \in [Queues -> Nat \ {0}]
  /\ inbox \in [SubscribeCalls -> Seq(Nat)]
  /\ \A s \in SubscribeCalls : Len(inbox[s]) <= Capacity
  /\ alive \in [SubscribeCalls -> BOOLEAN]
  /\ taken \in [Queues -> Nat]
  /\ \A q \in Queues : taken[q] <= MaxMessages[q]
  /\ offered \in [Queues -> Seq(Nat)]
  /\ since \in [SubscribeCalls -> Nat]
  /\ received \in [SubscribeCalls -> Seq(Nat)]

Delivered(s) == received[s] \o inbox[s]
Owed(s) == SubSeq(offered[Queue[s]], since[s] + 1, Len(offered[Queue[s]]))

(* The fan-out under way has not come to s yet.                            *)
Awaits(s) ==
  LET q == Queue[s] IN
  consumer[q] = "sending" /\ \E i \in pos[q] .. Len(subscribers[q]) :
                               subscribers[q][i] = s

(* From the moment its sender is in the map, a subscriber that keeps its   *)
(* handle gets every message that is fanned out on its queue, once and in  *)
(* order, however full its inbox and whoever else subscribes: no copy of   *)
(* the map goes stale.  Only close() can cost it a message, the one in the *)
(* consumer's hand.                                                        *)
FanoutIsComplete ==
  \A s \in SubscribeCalls :
    pc[s] \in {"registered", "sent", "ok"} /\ alive[s] =>
      \/ Delivered(s) = Owed(s) /\ ~Awaits(s)
      \/ /\ Awaits(s) \/ actor # "running"
         /\ Owed(s) # <<>>
         /\ Delivered(s) = Front(Owed(s))

(* Every call returns, the calls being finitely many: a subscribe() that   *)
(* waits for the lock behind a consumer that waits for room, the commands  *)
(* queued behind a Close, concurrent calls of close().  And no queue is    *)
(* blocked for ever by the inboxes of another: no consumer is left waiting *)
(* for the lock or for room.                                               *)
EverythingSettles ==
  <>[](/\ \A x \in Calls : pc[x] \in {"idle", "ok", "error", "never"}
       /\ \A q \in Queues : consumer[q] \notin {"locking", "sending"})
=============================================================================

----------------------------- MODULE RedisActor -----------------------------
(***************************************************************************)
(* The Redis transport (src/transport/redis/redis.rs): publish(),          *)
(* subscribe() and close() send commands to an actor that owns both        *)
(* connections to the server.  The actor serves one command at a time,     *)
(* awaiting the server's answer, and hands each message of the Pub/Sub     *)
(* stream to the local inboxes before it does anything else: the fan-out   *)
(* is that of module Fanout, whose steps are steps of this actor.          *)
(***************************************************************************)
EXTENDS Naturals, Sequences

CONSTANTS
  PublishCalls, SubscribeCalls, CloseCalls, \* the calls of the trait's methods
  TopicOf,     \* TopicOf[s]: the topic of subscribe() call s
  Capacity,    \* of an inbox: mpsc::channel(16)
  MaxMessages, \* bound: messages that arrive on each topic
  None

Calls == PublishCalls \cup SubscribeCalls \cup CloseCalls
Topics == {TopicOf[s] : s \in SubscribeCalls}

VARIABLES
  pc,         \* pc[x]: where call x stands
  commands,   \* the actor's command channel
  actor,      \* what the actor task is doing
  current,    \* the subscribe() whose confirmation it awaits
  subscribe_pending, \* a subscribe is in flight
  reconnect,  \* the flag that the end of the stream sets
  stream,     \* the Pub/Sub connection: "up" or "ended"
  serverSubs, \* what the server has this connection subscribed to
  subscribers, state, inbox, arrived, topic, senders, survivors, original,
  received, since \* the variables of Fanout

F == INSTANCE Fanout WITH Subscribers <- SubscribeCalls

ASSUME CallsAssumption ==
  /\ PublishCalls \cap SubscribeCalls = {}
  /\ CloseCalls \cap (PublishCalls \cup SubscribeCalls) = {}
  /\ None \notin Calls
ASSUME FanoutAssumption == F!ConstantsOK

callVars == <<pc, commands>>
actorVars == <<actor, current, subscribe_pending, reconnect>>
serverVars == <<stream, serverSubs>>
fanoutVars == <<subscribers, state, inbox, arrived, topic, senders, survivors,
                original, received, since>>
vars == <<callVars, actorVars, serverVars, fanoutVars>>

(* create_transport() has made both connections.                           *)
Init ==
  /\ F!Init
  /\ pc = [x \in Calls |-> "idle"]
  /\ commands = <<>>
  /\ actor = "selecting"
  /\ current = None
  /\ subscribe_pending = FALSE
  /\ reconnect = FALSE
  /\ stream = "up"
  /\ serverSubs = {}

-----------------------------------------------------------------------------
(* The callers.                                                            *)

Goes(x, place) == pc' = [pc EXCEPT ![x] = place]

(* subscribe() enters its sender in the map, whatever becomes of the rest. *)
Subscribe(s) ==
  /\ pc[s] = "idle"
  /\ Goes(s, "registered")
  /\ F!Subscribe(s)
  /\ UNCHANGED <<commands, actorVars, serverVars>>

(* A call that finds the channel closed, or its responder dropped, fails,  *)
(* and the receiver that a subscribe() made is dropped.  close() ignores   *)
(* both.                                                                   *)
GivesUp(x) ==
  \/ x \in CloseCalls /\ Goes(x, "ok") /\ UNCHANGED fanoutVars
  \/ x \in PublishCalls /\ Goes(x, "error") /\ UNCHANGED fanoutVars
  \/ x \in SubscribeCalls /\ Goes(x, "error") /\ F!DropHandle(x)

(* A command is sent; that of a subscribe() again after Ack::Retry and a   *)
(* sleep.                                                                  *)
SendCommand(x) ==
  /\ pc[x] \in IF x \in SubscribeCalls THEN {"registered", "retrying"}
               ELSE {"idle"}
  /\ \/ /\ actor # "stopped"
        /\ commands' = Append(commands, x)
        /\ Goes(x, "sent")
        /\ UNCHANGED fanoutVars
     \/ actor = "stopped" /\ GivesUp(x) /\ UNCHANGED commands
  /\ UNCHANGED <<actorVars, serverVars>>

(* The actor has ended with the command of x, or its responder, unserved.  *)
Orphaned(x) ==
  /\ pc[x] = "sent"
  /\ actor = "stopped"
  /\ GivesUp(x)
  /\ UNCHANGED <<commands, actorVars, serverVars>>

Receive(s) ==
  /\ pc[s] = "ok"
  /\ F!Receive(s)
  /\ UNCHANGED <<callVars, actorVars, serverVars>>

DropHandle(s) ==
  /\ pc[s] = "ok"
  /\ F!DropHandle(s)
  /\ UNCHANGED <<callVars, actorVars, serverVars>>

-----------------------------------------------------------------------------
(* The actor serves commands.                                              *)

(* It is in its select!, and not in the middle of a fan-out.               *)
Selecting == actor = "selecting" /\ topic = None

Serve(x) ==
  /\ Selecting
  /\ commands # <<>> /\ Head(commands) = x

(* PUBLISH goes over a connection of its own, which may have been lost or  *)
(* not whatever became of the other.                                       *)
ServePublish(x) ==
  /\ Serve(x)
  /\ commands' = Tail(commands)
  /\ \E answer \in {"ok", "error"} : Goes(x, answer)
  /\ UNCHANGED <<actorVars, serverVars, fanoutVars>>

(* handle_subscribe: if a subscribe is in flight the caller has to retry.  *)
(* Otherwise SUBSCRIBE is sent, and the actor awaits the confirmation.     *)
ServeSubscribe(s) ==
  /\ Serve(s)
  /\ commands' = Tail(commands)
  /\ IF subscribe_pending
     THEN Goes(s, "retrying") /\ UNCHANGED <<actor, current, subscribe_pending>>
     ELSE /\ subscribe_pending' = TRUE
          /\ actor' = "subscribing"
          /\ current' = s
          /\ UNCHANGED pc
  /\ UNCHANGED <<reconnect, serverVars, fanoutVars>>

SubscribeEnds ==
  /\ subscribe_pending' = FALSE
  /\ actor' = "selecting"
  /\ current' = None

Confirmed ==
  /\ actor = "subscribing"
  /\ stream = "up"
  /\ serverSubs' = serverSubs \cup {TopicOf[current]}
  /\ SubscribeEnds
  /\ Goes(current, "ok")
  /\ UNCHANGED <<commands, reconnect, stream, fanoutVars>>

(* An error that forgets to take the flag back.                            *)
Refused_keepsPending ==
  /\ actor = "subscribing"
  /\ actor' = "selecting"
  /\ current' = None
  /\ GivesUp(current)
  /\ UNCHANGED <<commands, reconnect, subscribe_pending, serverVars>>

(* The server refuses, or the connection is lost while the actor awaits.   *)
Refused ==
  /\ actor = "subscribing"
  /\ SubscribeEnds
  /\ GivesUp(current)
  /\ UNCHANGED <<commands, reconnect, serverVars>>

(* The actor ends: commands, responders and connections are dropped.       *)
Stops ==
  /\ actor' = "stopped"
  /\ commands' = <<>>
  /\ stream' = "ended"
  /\ serverSubs' = {}
  /\ UNCHANGED <<current, subscribe_pending, reconnect, fanoutVars>>

(* Close is answered and the actor ends, in one go; close() then awaits a  *)
(* task that has ended.  The Notify of handle_close() wakes nobody: only   *)
(* the actor itself waits for it, in the select! it has just left.         *)
ServeClose(c) ==
  /\ Serve(c)
  /\ Goes(c, "ok")
  /\ Stops

(* The transport is dropped: with its last sender the command channel      *)
(* ends, and the actor with it.  Calls borrow the transport, so none is    *)
(* under way and none will begin.                                          *)
Abandon ==
  /\ Selecting
  /\ commands = <<>>
  /\ \A x \in Calls : pc[x] \in {"idle", "ok", "error"}
  /\ pc' = [x \in Calls |-> IF pc[x] = "idle" THEN "never" ELSE pc[x]]
  /\ Stops

-----------------------------------------------------------------------------
(* The actor and the Pub/Sub stream.                                       *)

(* A message of the stream that decodes; others are skipped.               *)
Incoming(t) ==
  /\ Selecting
  /\ stream = "up"
  /\ t \in serverSubs
  /\ F!Incoming(t)
  /\ UNCHANGED <<callVars, actorVars, serverVars>>

FanOut ==
  /\ F!TrySend \/ F!WriteBack
  /\ UNCHANGED <<callVars, actorVars, serverVars>>

(* The connection is lost, and what was left in the stream is taken.       *)
LoseConnection ==
  /\ stream = "up"
  /\ stream' = "ended"
  /\ serverSubs' = {}
  /\ UNCHANGED <<callVars, actorVars, fanoutVars>>

(* Every poll of an ended stream gives None, and every time the actor      *)
(* sleeps for RECONNECT_DELAY.  Nothing reads the flag it sets.            *)
StreamEnded ==
  /\ Selecting
  /\ stream = "ended"
  /\ reconnect' = TRUE
  /\ actor' = "sleeping"
  /\ UNCHANGED <<callVars, current, subscribe_pending, serverVars, fanoutVars>>

WakeUp ==
  /\ actor = "sleeping"
  /\ actor' = "selecting"
  /\ UNCHANGED <<callVars, current, subscribe_pending, reconnect, serverVars,
                 fanoutVars>>

-----------------------------------------------------------------------------
ServeCommand ==
  \/ \E x \in PublishCalls : ServePublish(x)
  \/ \E s \in SubscribeCalls : ServeSubscribe(s)
  \/ \E c \in CloseCalls : ServeClose(c)

Next ==
  \/ \E s \in SubscribeCalls : Subscribe(s) \/ Receive(s) \/ DropHandle(s)
  \/ \E x \in Calls : SendCommand(x) \/ Orphaned(x)
  \/ ServeCommand
  \/ Confirmed
  \/ Refused
  \/ Abandon
  \/ \E t \in Topics : Incoming(t)
  \/ FanOut
  \/ LoseConnection
  \/ StreamEnded
  \/ WakeUp

(* tokio::select! picks among its ready branches at random, so the command *)
(* branch is taken although an ended stream is always ready.  The server   *)
(* answers, or the connection fails; timers fire; callers run on.          *)
Fairness ==
  /\ SF_vars(ServeCommand)
  /\ WF_vars(Confirmed \/ Refused)
  /\ WF_vars(FanOut)
  /\ WF_vars(WakeUp)
  /\ \A s \in SubscribeCalls : WF_vars(SendCommand(s))
  /\ \A x \in Calls : WF_vars(Orphaned(x))

Safety == Init /\ [][Next]_vars
Spec == Safety /\ Fairness

-----------------------------------------------------------------------------
(* Types of the calls, the actor and the server.                           *)
TypeOK ==
  /\ F!TypeOK
  /\ pc \in [Calls -> {"idle", "registered", "sent", "retrying", "ok", "error",
                       "never"}]
  /\ commands \in Seq(Calls)
  /\ actor \in {"selecting", "subscribing", "sleeping", "stopped"}
  /\ current \in SubscribeCalls \cup {None}
  /\ subscribe_pending \in BOOLEAN
  /\ reconnect \in BOOLEAN
  /\ stream \in {"up", "ended"}
  /\ serverSubs \subseteq Topics

(* Between two fan-outs the map is accurate: whoever keeps its handle and  *)
(* is in it has every message of its topic since it subscribed, each once  *)
(* and in order, and whoever is gone has gone since the last message.      *)
RegisteredIsUpToDate == F!RegisteredIsUpToDate

(* Also in the middle of one, and after an eviction: what a subscriber     *)
(* gets begins with the first message after it entered its sender and has  *)
(* no gap, although the actor confirms its subscription later.             *)
NoGaps == F!NoGaps

(* Every call returns, the calls being finitely many: behind a subscribe   *)
(* in flight, behind the two seconds that every turn of the loop may sleep *)
(* once the stream has ended, and when the actor ends with the command     *)
(* unserved.                                                               *)
EveryCallReturns ==
  <>[](\A x \in Calls : pc[x] \in {"idle", "ok", "error", "never"})

-----------------------------------------------------------------------------
(* Statements of the documentation that the code does not keep.            *)

(* docs/architecture.md: on connection error the actor reconnects after a  *)
(* delay and re-subscribes to all active topics.                           *)
Resubscribes ==
  \A s \in SubscribeCalls :
    pc[s] = "ok" /\ state[s] = "subscribed" /\ stream = "ended" ~>
      \/ actor = "stopped" \/ state[s] = "dropped"
      \/ stream = "up" /\ TopicOf[s] \in serverSubs
=============================================================================

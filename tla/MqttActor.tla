------------------------------ MODULE MqttActor ------------------------------
(***************************************************************************)
(* The MQTT transport's actor (src/transport/mqtt/rumqttc.rs): publish(),  *)
(* subscribe() and close() send it commands; it alone calls the rumqttc    *)
(* client and polls its event loop.  A subscribe() returns when a SUBACK   *)
(* arrives; SUBACKs name no topic, so one subscribe is in flight at a      *)
(* time.  After a lost connection the actor subscribes again, if one of    *)
(* the errors it has met was a disconnect to is_disconnect().              *)
(*                                                                         *)
(* Delivery of what the broker publishes to us is in module Fanout.        *)
(***************************************************************************)
EXTENDS Naturals, Sequences, SequencesExt

CONSTANTS
  PublishCalls, SubscribeCalls, CloseCalls, \* the calls of the trait's methods
  Topic,           \* Topic[x]: what subscribe() call x subscribes to
  Refusable,       \* topics the broker may refuse
  RequestCapacity, \* of the client's request channel: AsyncClient::new(_, 10)
  MaxLosses,       \* bound: connections that are lost
  MaxFailures,     \* bound: connection attempts that fail
  None

Calls == PublishCalls \cup SubscribeCalls \cup CloseCalls
Topics == {Topic[x] : x \in SubscribeCalls}

(* Whether is_disconnect() is true of an error of poll(): of I/O and       *)
(* protocol state errors it is, of a timeout of connecting or flushing not *)
(* (rumqttc's NetworkTimeout and FlushTimeout).  A flush that times out    *)
(* ends an established connection as an I/O error does.                    *)
ErrorKinds == {"disconnect", "other"}

ASSUME CallsAssumption ==
  /\ PublishCalls \cap SubscribeCalls = {}
  /\ CloseCalls \cap (PublishCalls \cup SubscribeCalls) = {}
  /\ None \notin Calls \cup Topics
  /\ Calls \cap Topics = {}
ASSUME LinkAssumption ==
  /\ Refusable \subseteq Topics
  /\ RequestCapacity \in Nat \ {0}
  /\ MaxLosses \in Nat /\ MaxFailures \in Nat

VARIABLES
  pc,        \* pc[x]: where call x stands
  topics,    \* the keys of the subscriber map
  commands,  \* the actor's command channel
  actor,     \* what the actor task is doing
  current,   \* the command it is handling
  pending_subscribe, \* the subscribe() call whose SUBACK is awaited
  reconnect, \* the flag that turns re-subscribing on
  todo,      \* topics still to re-subscribe
  requests,  \* the client's request channel
  backlog,   \* requests the event loop kept from a lost connection
  link,      \* "up" while connected to the broker
  subacks,   \* SUBACKs on their way to us
  brokerSubs,   \* what the broker has us subscribed to
  confirmed,    \* history: topics a successful SUBACK has named
  errors,       \* history: the kinds of error poll() has returned
  losses,       \* history: established connections lost, up to MaxLosses
  failures      \* what MaxFailures bounds

callVars == <<pc, topics, commands>>
actorVars == <<actor, current, pending_subscribe, reconnect, todo>>
clientVars == <<requests, backlog>>
brokerVars ==
  <<link, subacks, brokerSubs, confirmed, errors, losses, failures>>
vars == <<callVars, actorVars, clientVars, brokerVars>>

Init ==
  /\ pc = [x \in Calls |-> "idle"]
  /\ topics = {}
  /\ commands = <<>>
  /\ actor = "selecting"
  /\ current = None
  /\ pending_subscribe = None
  /\ reconnect = FALSE
  /\ todo = {}
  /\ requests = <<>>
  /\ backlog = <<>>
  /\ link = "down"
  /\ subacks = <<>>
  /\ brokerSubs = {}
  /\ confirmed = {}
  /\ errors = {}
  /\ losses = 0
  /\ failures = 0

-----------------------------------------------------------------------------
(* The callers.                                                            *)

(* A command goes into the channel, or finds it closed.  close() ignores   *)
(* both that error and a missing answer.                                   *)
SendCommand(x) ==
  IF actor = "stopped"
  THEN /\ pc' = [pc EXCEPT ![x] = IF x \in CloseCalls THEN "ok" ELSE "error"]
       /\ UNCHANGED commands
  ELSE /\ pc' = [pc EXCEPT ![x] = "sent"]
       /\ commands' = Append(commands, x)

Enrolled_late(x) == topics
Enrolled(x) == topics \cup {Topic[x]}

(* subscribe() enters its sender in the subscriber map and then sends its  *)
(* command.  The entry stays whatever becomes of the command.              *)
Subscribe(x) ==
  /\ pc[x] = "idle"
  /\ topics' = Enrolled(x)
  /\ SendCommand(x)
  /\ UNCHANGED <<actorVars, clientVars, brokerVars>>

(* After Ack::Retry subscribe() sleeps and sends its command again.        *)
RetrySubscribe(x) ==
  /\ pc[x] = "retrying"
  /\ SendCommand(x)
  /\ UNCHANGED <<topics, actorVars, clientVars, brokerVars>>

Publish(x) ==
  /\ pc[x] = "idle"
  /\ SendCommand(x)
  /\ UNCHANGED <<topics, actorVars, clientVars, brokerVars>>

(* close() waits for its answer and then for the actor's task, which has   *)
(* ended when it gives the answer.                                         *)
Close(x) ==
  /\ pc[x] = "idle"
  /\ SendCommand(x)
  /\ UNCHANGED <<topics, actorVars, clientVars, brokerVars>>

-----------------------------------------------------------------------------
(* The actor handles commands.                                             *)

Overlaps_never == FALSE
Overlaps == pending_subscribe # None

(* The select! of run() takes a command.  handle_subscribe() answers Retry *)
(* while another subscribe is in flight.  Otherwise the actor goes on to   *)
(* call the rumqttc client.                                                *)
ReceiveCommand ==
  /\ actor = "selecting"
  /\ commands # <<>>
  /\ commands' = Tail(commands)
  /\ LET x == Head(commands) IN
       \/ /\ x \in SubscribeCalls /\ Overlaps
          /\ pc' = [pc EXCEPT ![x] = "retrying"]
          /\ UNCHANGED <<actor, current, pending_subscribe>>
       \/ /\ x \in SubscribeCalls /\ ~Overlaps
          /\ pending_subscribe' = x
          /\ actor' = "calling" /\ current' = x
          /\ UNCHANGED pc
       \/ /\ x \notin SubscribeCalls
          /\ actor' = "calling" /\ current' = x
          /\ UNCHANGED <<pc, pending_subscribe>>
  /\ UNCHANGED <<topics, reconnect, todo, clientVars, brokerVars>>

Room == Len(requests) < RequestCapacity

(* Subscribing to something else than the topic of the call.               *)
RequestOf_wrongTopic(x) ==
  <<IF x \in PublishCalls THEN "publish" ELSE "subscribe", x>>

RequestOf(x) ==
  IF x \in PublishCalls THEN <<"publish", x>> ELSE <<"subscribe", Topic[x]>>

(* The client accepts the request when its channel has room; until then    *)
(* the actor waits here, and does not poll.                                *)
Call ==
  /\ actor = "calling"
  /\ current \notin CloseCalls
  /\ Room
  /\ requests' = Append(requests, RequestOf(current))
  /\ pc' = IF current \in PublishCalls
           THEN [pc EXCEPT ![current] = "ok"] ELSE pc
  /\ actor' = "selecting"
  /\ current' = None
  /\ UNCHANGED <<topics, commands, pending_subscribe, reconnect, todo,
                 backlog, brokerVars>>

(* The client rejects the topic: the call fails, and of a subscribe the    *)
(* pending entry is taken back.                                            *)
CallFails ==
  /\ actor = "calling"
  /\ current \notin CloseCalls
  /\ pc' = [pc EXCEPT ![current] = "error"]
  /\ pending_subscribe' =
       IF current \in SubscribeCalls THEN None ELSE pending_subscribe
  /\ actor' = "selecting"
  /\ current' = None
  /\ UNCHANGED <<topics, commands, reconnect, todo, clientVars, brokerVars>>

(* The calls whose answering channel goes with the actor.                  *)
Orphans_queued == ToSet(commands)
Orphans == ToSet(commands) \cup ({pending_subscribe} \ {None})

(* The task ends without another poll: commands, requests, a DISCONNECT    *)
(* among them, and the connection are dropped.                             *)
TaskEnds ==
  /\ actor' = "stopped"
  /\ commands' = <<>>
  /\ pending_subscribe' = None
  /\ current' = None
  /\ link' = "down"
  /\ requests' = <<>>
  /\ backlog' = <<>>
  /\ subacks' = <<>>
  /\ brokerSubs' = {}
  /\ UNCHANGED <<topics, reconnect, todo, confirmed, errors, losses, failures>>

(* Close: once DISCONNECT has found room in the request channel, the       *)
(* close() call gets its answer and the task ends.                         *)
Stop ==
  /\ actor = "calling"
  /\ current \in CloseCalls
  /\ Room
  /\ pc' = [x \in Calls |->
              IF x = current \/ (x \in Orphans /\ x \in CloseCalls) THEN "ok"
              ELSE IF x \in Orphans THEN "error" ELSE pc[x]]
  /\ TaskEnds

(* The transport is dropped, which ends the channel.  Calls borrow the     *)
(* transport, so none is under way and none will begin.                    *)
Abandon ==
  /\ actor = "selecting"
  /\ commands = <<>>
  /\ \A x \in Calls : pc[x] \in {"idle", "ok", "error"}
  /\ pc' = [x \in Calls |-> IF pc[x] = "idle" THEN "never" ELSE pc[x]]
  /\ TaskEnds

-----------------------------------------------------------------------------
(* The actor polls the event loop.                                         *)

Resubscribes == IF reconnect THEN topics ELSE {}

(* A ConnAck: the event loop may send what it kept, or forget it.  The     *)
(* actor re-subscribes to every topic if it has seen a disconnect.         *)
Connect ==
  /\ actor = "selecting"
  /\ link = "down"
  /\ link' = "up"
  /\ backlog' \in {backlog, <<>>}
  /\ todo' = Resubscribes
  /\ actor' = IF Resubscribes = {} THEN "selecting" ELSE "resubscribing"
  /\ UNCHANGED <<callVars, current, pending_subscribe, reconnect, requests,
                 subacks, brokerSubs, confirmed, errors, losses, failures>>

Resubscribe ==
  /\ actor = "resubscribing"
  /\ Room
  /\ \E t \in todo :
        /\ requests' = Append(requests, <<"subscribe", t>>)
        /\ todo' = todo \ {t}
        /\ actor' = IF todo = {t} THEN "selecting" ELSE "resubscribing"
  /\ UNCHANGED <<callVars, current, pending_subscribe, reconnect, backlog,
                 brokerVars>>

Reconnects_never(kind) == reconnect
Reconnects(kind) == reconnect \/ kind = "disconnect"

(* An error of poll(): the actor sleeps for RECONNECT_DELAY.               *)
PollError(kind) ==
  /\ actor = "selecting"
  /\ reconnect' = Reconnects(kind)
  /\ actor' = "sleeping"
  /\ errors' = errors \cup {kind}
  /\ UNCHANGED <<callVars, current, pending_subscribe, todo>>

ConnectFails(kind) ==
  /\ PollError(kind)
  /\ link = "down"
  /\ failures < MaxFailures
  /\ failures' = failures + 1
  /\ UNCHANGED <<clientVars, link, subacks, brokerSubs, confirmed, losses>>

(* What was on its way is lost, but for SUBACKs that the event loop has    *)
(* read already: it hands them out on the next connection.  The session is *)
(* a clean one, so the broker forgets our subscriptions; waiting requests  *)
(* move to the backlog.                                                    *)
LoseLink(kind) ==
  /\ PollError(kind)
  /\ link = "up"
  /\ losses < MaxLosses
  /\ losses' = losses + 1
  /\ link' = "down"
  /\ \E n \in 0 .. Len(subacks) : subacks' = SubSeq(subacks, 1, n)
  /\ brokerSubs' = {}
  /\ backlog' = backlog \o requests
  /\ requests' = <<>>
  /\ UNCHANGED <<confirmed, failures>>

WakeUp ==
  /\ actor = "sleeping"
  /\ actor' = "selecting"
  /\ UNCHANGED <<callVars, current, pending_subscribe, reconnect, todo,
                 clientVars, brokerVars>>

(* The event loop sends the next request, those it kept first.             *)
Flush ==
  /\ actor = "selecting"
  /\ link = "up"
  /\ backlog \o requests # <<>>
  /\ IF backlog # <<>>
     THEN backlog' = Tail(backlog) /\ UNCHANGED requests
     ELSE requests' = Tail(requests) /\ UNCHANGED backlog
  /\ LET r == Head(backlog \o requests) IN
       \/ /\ r[1] = "subscribe"
          /\ brokerSubs' = brokerSubs \cup {r[2]}
          /\ subacks' = Append(subacks, [topic |-> r[2], success |-> TRUE])
       \/ /\ r[1] = "subscribe"
          /\ r[2] \in Refusable
          /\ subacks' = Append(subacks, [topic |-> r[2], success |-> FALSE])
          /\ UNCHANGED brokerSubs
       \/ /\ r[1] = "publish"
          /\ UNCHANGED <<brokerSubs, subacks>>
  /\ UNCHANGED <<callVars, actorVars, link, confirmed, errors, losses,
                 failures>>

(* handle_suback: whatever topic the SUBACK is about, it completes the     *)
(* subscribe in flight; without one it is ignored.                         *)
HandleSuback ==
  /\ actor = "selecting"
  /\ link = "up"
  /\ subacks # <<>>
  /\ subacks' = Tail(subacks)
  /\ confirmed' = IF Head(subacks).success
                  THEN confirmed \cup {Head(subacks).topic} ELSE confirmed
  /\ pending_subscribe' = None
  /\ pc' = [x \in Calls |->
              IF x # pending_subscribe THEN pc[x]
              ELSE IF Head(subacks).success THEN "ok" ELSE "error"]
  /\ UNCHANGED <<topics, commands, actor, current, reconnect, todo, clientVars,
                 link, brokerSubs, errors, losses, failures>>

-----------------------------------------------------------------------------
Next ==
  \/ \E x \in SubscribeCalls : Subscribe(x) \/ RetrySubscribe(x)
  \/ \E x \in PublishCalls : Publish(x)
  \/ \E x \in CloseCalls : Close(x)
  \/ ReceiveCommand
  \/ Call
  \/ CallFails
  \/ Stop
  \/ Abandon
  \/ Connect
  \/ Resubscribe
  \/ \E kind \in ErrorKinds : ConnectFails(kind) \/ LoseLink(kind)
  \/ WakeUp
  \/ Flush
  \/ HandleSuback

(* tokio::select! picks among its ready branches at random, so a branch    *)
(* that is ready again and again is taken; connecting succeeds in the end; *)
(* timers fire and a client call with room in the channel returns.         *)
Fairness ==
  /\ SF_vars(ReceiveCommand)
  /\ SF_vars(Connect \/ Flush \/ HandleSuback)
  /\ WF_vars(Call \/ Stop \/ Resubscribe \/ WakeUp)
  /\ \A x \in SubscribeCalls : WF_vars(RetrySubscribe(x))

Safety == Init /\ [][Next]_vars
Spec == Safety /\ Fairness

-----------------------------------------------------------------------------
Requests ==
  ({"publish"} \X PublishCalls) \cup ({"subscribe"} \X Topics)

(* Types of the transport, its client and the connection.                  *)
TypeOK ==
  /\ pc \in [Calls -> {"idle", "sent", "retrying", "ok", "error", "never"}]
  /\ topics \subseteq Topics
  /\ commands \in Seq(Calls)
  /\ actor \in {"selecting", "calling", "resubscribing", "sleeping", "stopped"}
  /\ current \in Calls \cup {None}
  /\ pending_subscribe \in SubscribeCalls \cup {None}
  /\ reconnect \in BOOLEAN
  /\ todo \subseteq topics
  /\ requests \in Seq(Requests) /\ Len(requests) <= RequestCapacity
  /\ backlog \in Seq(Requests)
  /\ link \in {"up", "down"}
  /\ subacks \in Seq([topic : Topics, success : BOOLEAN])
  /\ brokerSubs \subseteq Topics
  /\ confirmed \subseteq Topics
  /\ errors \subseteq ErrorKinds
  /\ losses \in 0 .. MaxLosses
  /\ failures \in 0 .. MaxFailures

(* Until an error turns re-subscribing on, a subscribe() returns Ok only   *)
(* after the broker confirmed its topic: the SUBACK that completed it was  *)
(* its own, although SUBACKs name no topic.  It may have come from a       *)
(* connection that was lost before it was handled.                         *)
ConfirmedAtFirst ==
  ~reconnect =>
    \A x \in SubscribeCalls : pc[x] = "ok" => Topic[x] \in confirmed

(* A connection was lost, and no error so far was a disconnect: the actor  *)
(* does not know that the broker has forgotten its subscriptions.          *)
LostUnnoticed == losses > 0 /\ "disconnect" \notin errors

(* The subscribe in flight has a SUBACK coming: its SUBSCRIBE is on its    *)
(* way, or the SUBACK is, or a connection is about to be made that         *)
(* subscribes to its topic again.  Nothing else ever completes it, and     *)
(* every other subscribe() waits for that.  The code fails this while all  *)
(* losses have gone unnoticed; the first disconnect, be it that of a       *)
(* failed attempt to connect, puts it right.                               *)
PendingIsAnswerable ==
  pending_subscribe # None /\ ~LostUnnoticed =>
    LET t == Topic[pending_subscribe] IN
    \/ current = pending_subscribe
    \/ <<"subscribe", t>> \in ToSet(requests)
    \/ <<"subscribe", t>> \in ToSet(backlog) /\ link = "up"
    \/ \E a \in ToSet(subacks) : a.topic = t
    \/ t \in todo
    \/ link = "down" /\ reconnect /\ t \in topics

(* Whenever the connection is up and the actor has nothing left to send,   *)
(* the broker has us subscribed to the topic of every subscribe() that     *)
(* returned Ok, unless all losses so far have gone unnoticed: what the     *)
(* unnoticed ones took away the first disconnect brings back, and after it *)
(* no loss of either kind does harm.                                       *)
SubscriptionsRestored ==
  /\ link = "up" /\ actor = "selecting" /\ backlog \o requests = <<>>
  /\ ~LostUnnoticed
  => \A x \in SubscribeCalls :
       pc[x] = "ok" => Topic[x] \in brokerSubs \cup Refusable

Waiting(x) == pc[x] \in {"sent", "retrying"}

(* Every publish() and close() returns, the calls being finitely many,     *)
(* whatever it races with: a subscribe in flight, a lost connection, the   *)
(* close of the transport.  So does every subscribe(), unless a loss is    *)
(* left unnoticed for good: then a SUBACK may never come.                  *)
EveryCallReturns ==
  /\ <>[](\A x \in PublishCalls \cup CloseCalls : ~Waiting(x))
  /\ <>[]LostUnnoticed \/ <>[](\A x \in SubscribeCalls : ~Waiting(x))
=============================================================================

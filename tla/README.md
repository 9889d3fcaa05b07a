# A verification project for mom-rpc

mom-rpc is a Rust library for remote procedure calls over message brokers. A
program makes an `RpcBroker` for a node, in client, server or full-duplex mode,
over one of five transports (in-memory, MQTT, AMQP, Redis, DDS). These TLA+
modules model the library, TLC checks them on small instances, and TLAPS proves
the main theorems for every value of the constants.

Paths below are relative to the repository's root; `broker.rs` and the like
are files under `src/`.

## 1. Inventory: the system

### How a call travels

    request_to()  --StartAttempt-->  pending map of the client's broker
        |  Transport::publish("requests/<target>")
        v
    server's receiver task --> handler task --> Transport::publish("responses/<caller>")
                                                     |
    client's receiver task <-------------------------+
        |  removes the id from the pending map, sends into the attempt's oneshot channel
        v
    request_to() returns, or the timeout fires first and the retry loop sleeps and tries again

Everything runs in tokio tasks that share maps behind mutexes and talk over
bounded channels. There is no thread of control that sees a call from one end
to the other, and the transports promise best-effort delivery only.

### Components

| component | state it keeps | operations | talks to |
|---|---|---|---|
| RPC broker (`broker.rs`) | pending map (id to oneshot sender), handler registry, two detached receiver tasks, a shutdown channel | `request_to`, `register_rpc_handler`, the receiver and handler tasks, `run`, `spawn`, `shutdown`, `clone` | the transport trait; the retry loop wraps `request_to` |
| Retry loop (`retry.rs`) | attempt counter, current delay | `retry_with_backoff`, `apply_jitter` | calls back into the broker's attempt |
| Builders (`broker_builder.rs`, `transport_builder.rs`) | settings | setters, `build` | make the retry configuration, the transport and the broker |
| Transport contract (`domain/transport.rs`) | none | the trait `publish`, `subscribe`, `close`; envelopes | what brokers may assume of a transport |
| In-memory transport (`transport/memory.rs`) | a hub: subscriptions to bounded inboxes behind an RwLock | `publish`, `subscribe`, `close` | all transports of a hub share its map |
| MQTT transport (`transport/mqtt/rumqttc.rs`) | subscriber map, command channel, one pending subscribe, reconnect flag | the trait's calls as commands to an actor; the actor polls the event loop | the rumqttc client and event loop, the MQTT broker |
| Redis transport (`transport/redis/redis.rs`) | subscriber map, command channel, a subscribe-in-flight flag, two connections | the trait's calls as commands to an actor; the actor also polls the Pub/Sub stream | redis-rs |
| AMQP transport (`transport/amqp/lapin.rs`) | subscriber map, a consumer task per queue | commands to an actor; consumers run beside it | lapin |
| DDS transport (`transport/dds/dust_dds.rs`) | subscriber map, a writer per topic, a reader and its task per `subscribe()` | commands to an actor; readers run beside it | dust_dds |
| Errors, logging, crate root | none | | |

### What is hard in it, and what makes each part correct

* **RPC broker.** An answer can arrive before `publish()` returns, after its
  attempt expired, while a later attempt of the same call waits, twice, or after
  the caller dropped the future. Correct: a caller gets only replies to its own
  call; a waiting attempt can always be answered; the pending map grows by
  abandoned attempts and nothing else; every call returns.
* **Retry.** Off-by-one in the attempts, an incremental delay with a cap, jitter
  after the cap, the meaning of unset parameters. Correct: the documented
  schedule, a bound on the whole call.
* **Lifecycle.** `shutdown()` can come before the spawned tasks have subscribed,
  `run()` can be called on several clones, tasks hold the transport that holds
  their inboxes. Correct: a shutdown ends runs and tasks.
* **In-memory transport.** `publish()` holds the read lock while it waits for
  room in an inbox; `subscribe()` and `close()` queue behind. Correct: what is
  promised at `subscribe()` is delivered, once and in order; every call returns.
* **MQTT transport.** SUBACKs that name no topic, lost connections, commands
  behind a close, an actor that awaits its own client, errors that end a
  connection and are not taken for a disconnect. Correct: `Ok` means confirmed;
  subscriptions are restored; every call returns. The last two fail while all
  losses have gone unnoticed, and the properties say so.
* **Fan-out** (MQTT, Redis, DDS). A copy of the senders is tried without the
  lock and written back. Correct: no gaps, no duplicates, dead senders go.
* **AMQP transport.** Consumers that wait for room under the lock of the
  subscriber map, acknowledgement before delivery, commands behind a close.
  Correct: registered subscribers get everything; everything settles.
* **Redis transport.** A Pub/Sub stream that ends for good, commands that share
  a `select!` with it, an actor that awaits the server inside a command.
  Correct: what is delivered has no gaps; every call returns.
* **DDS transport.** Several readers of one topic that fan out side by side, an
  actor that waits for a reader to match and serves nothing else meanwhile, a
  shutdown that waits for tasks that are draining. Correct: a reader hands a
  sample on once; after `close()` nothing runs; everything settles.

`PROJECT.json` lists the hazards one by one at their lines.

## 2. The modules

| module | models | composed with |
|---|---|---|
| `RpcService` | the promise of the RPC layer: submit, execute, hear, return | abstract specification |
| `RpcBroker` | the RPC layer over any transport that keeps the contract | implements `RpcService` |
| `RpcBrokerProofs` | theorems about `RpcBroker`, its refinement among them | |
| `RetryTiming`, `RetryTimingProofs` | one call in time: configuration, backoff, jitter, timeout; theorems | refines what `RpcBroker` leaves open about time |
| `BrokerLifecycle`, `BrokerLifecycleProofs` | clones, `run`, `spawn`, `shutdown`, the detached tasks | the hub or an actor as transport |
| `TransportContract` | what the transport trait promises to the layers above | abstract specification |
| `MemoryHub`, `MemoryHubProofs` | the in-memory transport; theorems | implements `TransportContract` |
| `MqttActor`, `MqttActorProofs` | the MQTT transport's calls, actor and connection; theorems | |
| `AmqpActor`, `AmqpActorProofs` | the AMQP transport's calls, actor and consumer tasks; theorems | |
| `Fanout` | delivery of incoming messages to local inboxes by an actor | the receiving half of `MqttActor`; part of `RedisActor` |
| `RedisActor`, `RedisActorProofs` | the Redis transport's calls, actor and connections; theorems about it and about `Fanout` | `Fanout`, by INSTANCE: its steps are the actor's, as is proved |
| `DdsActor`, `DdsActorProofs` | the DDS transport's calls, actor, reader tasks and their fan-outs; theorems | |
| `...MC` | instances for TLC: functions and sets the .cfg files name | |

A definition whose name has a suffix after an underscore (`Overdue_racing`) is
the definition before the underscore with a plausible mistake. No other
definition uses it; it shows which property notices the mistake.

### RpcBroker

One behaviour is a set `Calls` of `request_to()` invocations between the brokers
of `Nodes`. `pc[c]` is where the call stands in
`request_to_inner_with_timeout` and the retry loop around it: publishing
(the await of `publish()`), waiting (the timeout around the channel), sleeping
(the backoff). `rid[c]` is the id of the attempt whose receiver is alive, and
`answer[c]` what its oneshot channel holds. The two are what the code keeps in
local variables of the future, which is why dropping them is part of the actions
that return (`PublishErr`, `Expire`, `Cancel`). `pending`, `handlers` and the
tasks' states are the fields of `Inner`.

`net` is the transport: a set of envelopes that may still be delivered. It only
grows, so an envelope can be delivered late, twice, out of order or never, to
whoever receives on its address. That is weaker than what any of the transports
does, and exactly what `domain/transport.rs` lets one assume. `publish()` is
three actions: `Transmit` (the transport takes the envelope), `PublishOk` and
`PublishErr`. `Transmit` may come before the return or never; an error may be
reported after the envelope went out.

`Strays` are envelopes of other programs on our addresses. Correlation ids are
128-bit random values; the assumption `StraysAssumption` says that nobody else
names one of ours.

`owner` and `replies` are history variables. Payloads are identified by the call
they are about and the value the handler computed.

### RetryTiming

Time is counted in ticks, and the multiplier is an integer. `Builders` is the
set of settings; `Init` picks one and `retry_config` is what `build()` makes of
it. An attempt takes up to `MaxPublish` for `publish()` and up to `timeout` for
the answer; `Jittered(d)` is the set of sleeps that `apply_jitter` can return
for delay `d`.

### BrokerLifecycle

`builder` is the `TransportBuilder` that the broker's transport came from: the
mode methods called or the queues set, of which `build()` infers the mode that
decides which receiver tasks there are. `Handles` are the values of type
`RpcBroker`. They share one `Inner`: the two
ends of the shutdown channel, each behind an `Option` that is taken once, and
the transport. `Abort` drops the future of a waiting `run()`, as `select!` does,
and the receiver with it. `builder` and `hub` are chosen in `Init`: every accepted
setting, over the in-memory hub or a transport with an actor. `open` says whose
inbox still has its sender in the transport's map. With the in-memory hub,
`close()` drops every sender and one may subscribe again; with an actor,
`close()` stops the actor and keeps the map, so that a later `subscribe()` fails.

### MemoryHub

`waiting`, `readers` and `writer` are tokio's fair RwLock. `publish()` is
`Publish` (it queues for the read lock), one `Send` per matching sender, and
`PublishReturns`; a `Send` to a full inbox is disabled, which is the await in
line 122 of `memory.rs`. `Subscribe`/`SubscribeReturns` and
`Close`/`CloseReturns` are the writers.

### TransportContract

The promises of `domain/transport.rs` (380-386, 336-340), whose reference
implementation the in-memory transport is said to be: `Begin` and `Return` are the
ends of `publish()`, `Deliver` what happens between them. `Return` waits for
everyone who was promised the message, which is more than the other transports
do: they hand it to a broker. That a message is delivered only after it was
published and on its own address is what `RpcBroker` assumes by `net`; that it is
delivered once, and to whom, it does not need.

### MqttActor

The calls of the trait, each with its place in `pc`; the command channel; the
actor's state (`selecting`, `calling` the client, `resubscribing`, `sleeping`
after an error, `stopped`); and the connection as rumqttc presents it: a bounded
request channel, a backlog of requests kept from a lost connection, SUBACKs in
flight. rumqttc decides at a reconnect whether the backlog is sent or forgotten;
the model allows both. The broker answers a SUBSCRIBE with a success or, for a
topic of `Refusable`, with a failure, and forgets our subscriptions with the
connection, as it must for a clean session. SUBACKs that the event loop had read
when the connection was lost are handed out on the next one.

An error of `poll()` is a `"disconnect"` or an `"other"`, as `is_disconnect()` has
it (rumqttc.rs:547), and both kinds end established connections: an I/O error
does, and so does a flush that times out (`FlushTimeout`), which is neither `Io`
nor `MqttState`. Only the first kind sets `reconnect`. `LostUnnoticed` describes
the state in between: a connection was lost and no error so far was a disconnect.
Its two history variables, `errors` and `losses`, are in no guard but the bounds',
so that it does not depend on how the code keeps `reconnect`.

### AmqpActor

`pc`, `commands` and `actor` are the calls, the command channel and the actor,
which serves one command after the other (`ServePublish`, `ServeSubscribe`,
`ServeClose`). Close is answered first; then the channel accepts nothing more,
what is in it is served, and the actor stops. `handle` and `joiner` are the task
list: a task of its own enters the actor's handle there, and `close()` awaits the
handle, if it finds one, with the list locked.

`waiting` and `readers` are the RwLock of the subscriber map, granted in order.
A consumer takes a delivery (`Take`; it is acknowledged whatever becomes of it),
asks for the read lock, and with it goes through the senders of its queue
(`StartFanout`, `Send`, `EndFanout`). A `Send` to a full inbox is disabled:
that is the await in line 372 of `lapin.rs`, and the lock is held through it.
`Register` is `subscribe()` with the write lock. Once the actor has stopped a
consumer is aborted at one of its awaits (`Abort`), or goes on until then.

What lapin and the message broker answer is nondeterministic: every declare,
consume and publish may fail and every stream may end. `offered` and `since` are
history variables that count what a subscriber is owed.

### Fanout

`Incoming` copies the senders of the topic (one read lock), `TrySend` tries the
next, `WriteBack` replaces the list if a sender was evicted (one write lock).
`Subscribe`, `Receive` and `DropHandle` interleave with all of them. The module
has one fan-out at a time, as the actors of `rumqttc.rs` and `redis.rs` do.
`handle_incoming` of `dust_dds.rs` (678-727) is the same code, but runs in
several tasks: `DdsActor` has fan-outs of its own.

### RedisActor

`commands`, `actor` and `pc` are as in the other actors. The actor awaits the
server inside a command (`ServeSubscribe`, then `Confirmed` or `Refused`), and
hands a message of the stream on before it looks at another (`Incoming`, then
`FanOut`). `F` is the instance of `Fanout` over this module's variables;
`subscribe()` enters its sender with `F!Subscribe` and drops its receiver, when
it fails, with `F!DropHandle`. `LoseConnection` ends the stream: from then on each
turn of the loop that does not take a command finds `None` and sleeps
(`StreamEnded`, `WakeUp`), and nothing makes a connection again. `Abandon` is the
end of the command channel when the last clone of the transport is dropped; the
same action is in `MqttActor`, `AmqpActor` and `DdsActor`.

### DdsActor

A reader goes by the name of the `subscribe()` call that made it. `reader[r]` is
where its task stands: waiting in the `select!`, draining, sending a sample to the
senders it copied, or ended. `unread[r]` is the one sample it holds (`KeepLast(1)`):
`Arrive` replaces it. The variables of the fan-out (`hand`, `senders`, `survivors`,
`original`) exist once per reader, and `WriteBack` writes to the list that all
readers of the topic share. `hand` and `got` relate who was handed what; `got` is
a history variable.

The actor's `ServePublish` makes a writer and then waits for a reader to match;
`Write` is a match in time, `MatchFails` the five seconds or an error. A match is
not tied to the readers of this process, because readers elsewhere come
and go. `ServeClose` or `Abandon` tell the readers to stop, and `Stop` comes when
every task has ended. `Join` is `close()` at the task list, as in `AmqpActor`; that
the handle may not be there yet is its second alternative.

## 3. The runs

A run that checks invariants only uses the specification without fairness,
where there is one. Deadlock checking is off throughout because every model is
of a finite set of calls: when all have returned and nothing is left in flight,
nothing can happen. That nobody is left waiting is the business of the
`EveryCallReturns` and `EverythingSettles` properties. The `TypeOK` of a
transport bounds its inboxes; that of `RpcBroker` is checked as a part of `IInv`.

| run | instance | shows |
|---|---|---|
| `RpcBroker_retry` | 2 concurrent calls of a client with 1 retry each, a call that a server-mode broker refuses, 4 ids, 2 malformed envelopes in flight | WaiterIsPending, OwnAnswer, RetryDiscipline, the inductive invariant IInv |
| `RpcBroker_service` | 1 call between full-duplex nodes, 1 retry, 2 values | LeakIsBounded, FirstAnswerWins, EveryCallReturns, ImplementsService |
| `RetryTiming` | 8 builder settings | BackoffSchedule, WorstCase, RetryIffAsked, CallEnds |
| `BrokerLifecycle` | 3 clones of a broker; every builder setting, hub or actor | OneRunWaits, ShutdownEndsRuns, ShutdownEndsTasks |
| `MemoryHub` | 2 publishers of 2 messages and a subscriber on one topic, a subscriber on another, a close, inboxes of 1 | OwedIsDelivered, InOrderOnce, StableWhilePublishing, ImplementsContract, EveryCallReturns |
| `MqttActor` | 2 subscribes, one to a topic the broker may refuse, a publish, a close, 1 lost connection and 1 failed attempt, by a disconnect or another error | ConfirmedAtFirst, PendingIsAnswerable, SubscriptionsRestored, EveryCallReturns |
| `AmqpActor` | the 2 subscriptions of a full-duplex broker, a publish, 2 closes, inboxes of 1, 2 and 1 messages | FanoutIsComplete, EverythingSettles |
| `RedisActor` | 2 subscribes to a topic, a publish, a close, a lost connection, inboxes of 1, 3 messages | RegisteredIsUpToDate, NoGaps, EveryCallReturns |
| `DdsActor` | 2 subscribes to a topic and so 2 readers, a publish to it, a sample from elsewhere, a close, inboxes of 1 | OncePerReader, RegisteredIsUpToDate, ClosedMeansEnded, EverythingSettles |

Why the bounds are enough.

* Two calls with a retry each are the smallest instance in which an answer to an
  expired attempt can meet a later attempt of the same call and an attempt of
  another. In `RpcBroker_service` the retried call can be cancelled or fail to
  publish after its first attempt expired, so that two abandoned entries
  coexist, and two values let a second answer differ from the first. Ids are
  symmetric: no definition or property distinguishes them; the run that uses the
  symmetry checks invariants only.
* The builder settings are: nothing set, each retry parameter alone, zero
  attempts, zero delay, zero timeout, multipliers 0 and 1, and a first delay
  above the cap. A tick is 25 ms, so that 4 ticks of delay can be shortened and
  lengthened by jitter.
* An inbox of one fills after one message as one of 16 does after 16, and with
  three messages a full inbox can miss one, be drained and miss what follows
  because its sender is gone. Two publishers
  are the fewest that can hold the hub's lock together; with a subscribe and a
  close behind them every kind of waiter queues behind every kind of holder.
* One lost connection lets a SUBACK and a SUBSCRIBE be lost; with a failed attempt
  before or after it, each by either kind of error, the flag that turns
  re-subscribing on is met set and unset, and a loss that went unnoticed is or is
  not put right by the failed attempt that follows it.
  `RequestCapacity` is 8, more than these calls can fill.
* In `AmqpActor` the second request finds the inbox of one full, so that its
  consumer waits with the lock while the response consumer, a subscribe and two
  closes come behind it. Two subscriptions to one queue are not in this instance;
  for them `FanoutIsComplete` rests on its theorem.
* In `RedisActor` the connection can be lost before, between and after all calls,
  under a subscribe in flight and in the middle of a fan-out. In `DdsActor` two
  readers are the fewest whose write-backs meet, and two samples the fewest that
  let an unread one be replaced, a full inbox miss one, or each reader carry
  another.
* Three clones: one to wait, one to be told that another waits, one to signal.

Three more runs state what the documentation says and the code does not do; TLC
finds a counterexample to each:

| run | statement | what happens |
|---|---|---|
| `MqttActor_stall` | a call ends within its timeout (broker.rs:361) | the actor waits for room that only its own poll would make |
| `Fanout_race` | a subscription is active until its handle is dropped (domain/transport.rs:338) | a subscribe during a fan-out is written over |
| `RedisActor_lost` | on connection error the actor reconnects and re-subscribes (docs/architecture.md:303) | the ended stream is polled for ever, the live handle receives nothing |

`MqttActor_stall` shrinks the request channel from 10 to 1: two publishes then
do what eleven do in the code. `MqttActor` checks the same property
with room enough. It is judged under fairness, so that the
counterexample is a state in which the actor is stuck, not one in which it
was never scheduled.

Other disagreements between code and documentation that the models show as they
are, without a run of their own:

* Pending entries are not removed when a call expires or is dropped, where
  docs/architecture.md:331 has them removed on completion; `LeakIsBounded` says
  by how many the map can grow.
* After a re-subscription has begun, a SUBACK that is about another topic can
  complete a `subscribe()` (rumqttc.rs:412), which rumqttc.rs:43 has wait for its
  own; `ConfirmedAtFirst` is what holds.
* Once a retry parameter is set, an expired call returns `TransportRetryable`
  (broker.rs:500), where broker.rs:361 says `Timeout` (`RetryDiscipline` states
  which is returned when).
* Every retry generates a new correlation id (broker.rs:468), so that a server
  cannot use it to recognise a repeated request as README.md:470 suggests.
* `request_total_timeout` bounds an attempt, not the call (broker.rs:493), where
  README.md:376 calls it the total; `WorstCase` is the bound that holds.
* `max_delay` caps neither the first sleep nor the jitter (retry.rs:113, 136);
  `SleepIsBounded` is the bound that holds.
* The hub's `publish()` waits for a full inbox with the lock held (memory.rs:122),
  where domain/transport.rs:384 says that it does not block on subscribers.
* `close()` of one in-memory transport ends the subscriptions of all transports
  on the hub (memory.rs:158); the hub keeps no closed state, so that a receiver
  task that subscribes after a shutdown is fed as before.
* A connection that MQTT loses by a flush that times out is not taken for a
  disconnect (rumqttc.rs:547-553), so that `reconnect` stays unset (306-311) and the
  next ConnAck re-subscribes nothing (285): confirmed subscriptions are gone, where
  domain/transport.rs:338 has them active until the handle is dropped or the
  transport closed, and a `subscribe()` in flight, with all that retry behind it,
  waits for a SUBACK that never comes. `PendingIsAnswerable`,
  `SubscriptionsRestored` and `EveryCallReturns` except exactly the states of
  `LostUnnoticed`; with that exception taken out TLC finds each of them violated.
  The first disconnect afterwards, a refused connection for instance, puts it right.
* The MQTT actor queues a DISCONNECT and ends without sending it (rumqttc.rs:473,
  168-170).
* A burst evicts a live subscriber whose inbox is full (rumqttc.rs:531), and the
  broker's receiver task ends without notice. `NoGaps` and
  `RegisteredIsUpToDate` are what is left of the contract.
* With an actor, receiver tasks outlive `shutdown()`: they hold the transport,
  whose subscriber map holds the senders of their inboxes (broker.rs:203).
* AMQP acknowledges a delivery before it decodes it (lapin.rs:349), where
  docs/architecture.md:236 says "after successful deserialization"; what
  fails to decode, or is in a consumer's hand at `close()`, is lost.
* AMQP's `subscribe()` returns `Ok` for a queue whose consumer task has ended
  (lapin.rs:312), where domain/transport.rs:382 has what is published afterwards
  deliverable: nothing consumes the queue any more.
* DDS: `publish()` logs the actor's answer and returns `Ok` whatever it is
  (dust_dds.rs:815-826), also when no reader matched within five seconds and
  nothing was written; dust_dds.rs:971 says "or an error on timeout", and
  dds/README.md:86 that requests "are never lost due to discovery timing races".
* DDS: a subscriber is handed a copy of each sample per reader of its topic, that
  is, per `subscribe()` that succeeded (dust_dds.rs:451-523). Two copies fill its
  inbox twice as fast, and what one fan-out evicts another can bring back.
* DDS: "No other task touches DDS entities directly" (docs/architecture.md:250), but
  each reader is owned and polled by its own task (dust_dds.rs:517).
* DDS: a sample that is not taken before the next is lost (`KeepLast(1)`), as
  dds/README.md:102 admits; `Reliability::Reliable` does not change that.
* Redis: `Ack::Retry` is never sent. The actor awaits the confirmation inside the
  command (redis.rs:353), so no second subscribe is met while one is in flight,
  where docs/architecture.md:307-310 says "without blocking the actor event loop".
* Redis: the `Notify` of the close (redis.rs:153-159) wakes nobody; the actor ends
  because it returns `Stop` itself.
* Queue names given to `request_queue()` and `response_queue()` only select the
  mode; the receiver tasks subscribe to names made from the node id
  (broker.rs:209, 261).
* A second `run()` returns at once (broker.rs:611), and `spawn()`'s handle never
  completes (broker.rs:581).

### Fairness

* `RpcBroker`: weak fairness of each call's own steps. It says that `publish()`
  returns and that tokio runs the caller's timers; nothing is assumed of the
  transport, the servers or the receiver tasks. That `publish()` returns is an
  assumption about the transport, and `MqttActor_stall` shows where it can fail.
* `RetryTiming`: timers fire, `publish()` returns.
* `BrokerLifecycle`: calls that have begun and spawned tasks run on. No call has
  to begin.
* `MemoryHub`: the lock is granted in its order, calls that hold it run on, and
  owners of handles receive, as the broker's receiver tasks do.
* `AmqpActor`: while something under way can go on, something does. Calls,
  messages and commands are finitely many, so nobody can starve the others for
  ever and no fairness towards a single task is needed. No call has to begin, no
  message has to arrive, no stream has to end.
* `DdsActor`: the same, for calls, the actor with its timer, and the tasks of the
  readers. `Write` is left out: no reader need ever match. The samples of the
  instance are finitely many; an endless stream of them can keep a task in
  `drain_reader()`, which does not look for the shutdown, and `close()` with it.
* `RedisActor`: strong fairness for the command branch, because an ended stream
  makes the other branch ready all the time and tokio picks at random; the server
  answers or the connection fails; timers fire, callers and fan-outs run on.
* `MqttActor`: strong fairness for the two branches of the actor's `select!`,
  because tokio picks among ready branches at random; weak fairness for what the
  actor does inside a branch and for the callers' retry timers. That a
  connection attempt succeeds in the end is part of it: `MaxFailures` and
  `MaxLosses` bound the connections that are not made or lost.

## 4. What is proved

Every safety property that a passing run checks is also a theorem, for every
number of nodes, calls, ids, builder settings, topics, subscribers, readers and
messages, and for every capacity. The assumptions are the named ASSUMEs of the
modules, which TLC evaluates in every run, and no others. Each invariant was
checked by TLC before it was proved. The proof that a step keeps an invariant has
a lemma per action, or per family of actions that change the same variables.

**RpcBroker** (`RpcBrokerProofs`). `Invariance`: `Safety => []IInv`. `OwnAnswer`
is not inductive: that the answer a call hears was computed for it depends on the
response in the transport, on the handler task that published it, on the request
the task was spawned for, and on the pending entry under its id. `IInv` says what
an id stands for in each of these places: `NetIsGenuine` (a well-formed envelope
belongs to the call that generated its id), `TasksAreGenuine`, `RepliesAreServed`,
`IdsAreOwned`, and `AttemptsFollowPc` ties receivers to the place of the call.
`TypeCorrect`, `OwnAnswerTheorem` and `WaiterIsPendingTheorem` follow.

`RetryDisciplineTheorem` and `LeakIsBoundedTheorem` rest on a second invariant,
`LoopInv`: while a call runs, the ids it has generated are as many as the retry
loop has counted, and one more when an attempt is under way, and the counter is at
most what the configuration allows. `FirstAnswerWinsTheorem` is an action property,
proved action by action from both invariants.

`Refinement`: every step of `RpcBroker` is a step of `RpcService` or leaves its
variables unchanged, using `IInv` in each state. The liveness half of
`RpcService` is checked by TLC in `RpcBroker_service`.

**RetryTiming** (`RetryTimingProofs`). `TimeInvariance`: `TimeInv` holds for
every builder setting; it strengthens `WorstCase` to a bound on the time so far
in terms of the attempts made and sleeps slept. `TypeCorrect`,
`SleepIsBoundedTheorem` and `WorstCaseTheorem` follow; `RetryIffAskedTheorem` adds
that `build()` makes a retry configuration exactly when it is asked for one.
`BackoffScheduleTheorem` compares the delays, computed one from the other and
capped each time, with `initial_delay * multiplier^n`, capped once. `DelayInv`
adds what the delay is while the call sleeps. `CappedProduct` is the arithmetic: a
cap met once is met from then on, unless the multiplier is zero, where the delays
are zero too. `Powers` is a recursive function; that it exists, and what it
computes, is proved by induction on sets of naturals (`InductiveSet`, from the
library's well-founded minimum), because the library's induction theorems take an
operator.

**BrokerLifecycle** (`BrokerLifecycleProofs`). `LifecycleInvariance`,
`OneRunWaitsTheorem` and `TypeCorrect`, for any number of clones: `OneRunWaits`
needs to know that the receiver, once taken, was taken by a `run()` that waits or
was dropped while nobody signals (`ReceiverIsTakenOnce`). `TasksFitQueues`, for the
typing: the mode inferred from the queues starts exactly their tasks.

**MemoryHub** (`MemoryHubProofs`). The invariant has the lock (a writer excludes
readers, everyone queues once), the lists (a subscriber is listed once, under its
own topic), and what a publisher has served so far: who holds the lock has handed
its message to the senders before `pos`, and messages of one publisher lie in an
inbox in the order of their numbers. `OwedIsDeliveredTheorem`,
`InOrderOnceTheorem` and, as an action property, `StableTheorem` follow.
`ContractRefinement`: every step of the hub is a step of `TransportContract` or one
that it does not see. A turn of the loop is a delivery, by `OnlyPublished` the first
of this message to this inbox; the return of `publish()` is allowed by
`OwedIsDelivered` in the next state; and the lock, the queue behind it and the
receiving from an inbox are invisible.

**RedisActor and Fanout** (`RedisActorProofs`). `FanoutInvariance` is a theorem
about `Fanout` alone: a copy of the senders names nobody twice, agrees with the
list it was made of except for what was subscribed or dropped meanwhile, and who
is registered, copied or survives has received, without a gap, all messages since
it was entered, but for the one in hand. `ImplementsFanout` shows that each step of
`RedisActor` is a step of `Fanout` or leaves its variables unchanged, so that
`RegisteredIsUpToDateTheorem` and `NoGapsTheorem` carry over.

**AmqpActor** (`AmqpActorProofs`). `FanoutIsComplete` needs that who is registered
is in the list of its queue and in no other, once; that nobody is registered while
a consumer goes through the list (the RwLock); that a consumer has served the
senders before `pos` and owes the rest; and that a `subscribe()` is served once.

**DdsActor** (`DdsActorProofs`). `Invariance`; `TypeCorrect`,
`OncePerReaderTheorem` and `ClosedMeansEndedTheorem` follow.
`OncePerReader` needs to know that what a reader still holds is newer than what it
has handed on (`SamplesInv`), that a list of senders names nobody twice however the
fan-outs of several readers write over it (`SendersInv`), which in turn needs every
command to be queued once (`CallsInv`), for a `subscribe()` served twice would make a
second reader of the same name. `ClosedMeansEnded` needs to know whose call awaits
the handle (`CloseInv`). `RegisteredIsUpToDateTheorem` rests on a second invariant,
`UpToDateInv`: a subscriber is missing from a reader's copy only because this
reader evicted it or it came after the copy was made, and every copy agrees with
the list in that sense.

**MqttActor** (`MqttActorProofs`). `Invariance` says who is entered in the
subscriber map, that a pending subscribe is a call that still waits for it, and, as
long as no re-subscription has begun, that every request and SUBACK under way is
about its topic (`SoleAnswer`); `ConfirmedAtFirstTheorem` follows.
`PendingIsAnswerableTheorem` and `SubscriptionsRestoredTheorem` need `KnownInv`:
unless every loss went unnoticed, the broker has each topic that was confirmed or
acknowledged, were it on an earlier connection, or a request for it is under way,
or the actor is about to make one. The step that matters is the first disconnect
after unnoticed losses, where nothing was known before: then the next ConnAck
repeats every topic of the map, and `EnrolledInv` and `MentionedInv` say that every
confirmed, pending or acknowledged topic is in the map. No kind of error is
excluded by a hypothesis.

Model-checked only:

* every liveness property, the fairness half of `ImplementsService` among them:
  liveness under fairness is out of the prover's reach;
* the counterexamples, which are what they are.

Proved and no longer checked by a run of their own, since their conclusions are:
`SleepIsBounded`, `TimeInv`, and the inductive invariants other than that of
`RpcBroker`.

## 5. What is not modelled

* Contents of payloads, JSON, log lines, URIs, credentials, QoS settings.
* Rounding of f64 durations, and the panic of `Duration::from_secs_f64` on a
  negative or huge multiplier.
* Panics of handlers (a handler task that panics is one that answers nothing).
* The choice of a transport by the builder (transport_builder.rs:276-312): a
  match over the explicit type that otherwise takes the first factory that
  succeeds. It keeps no state and meets no other step.
* The bound on the command channels (64, for AMQP 16), beyond the number of calls
  of an instance; queues shared with other programs.
* Transport calls whose future is dropped half-way: they leave a command whose
  answer nobody hears. (`RpcBroker` has the dropped `request_to()`.)
* Of DDS: discovery, the order in which samples of different writers arrive, the
  failing `take()` that is tried again (it leaves the state as it was).
* Of Redis: URLs, payloads that are no envelopes (they are skipped before the
  fan-out).

## 6. Plan

Done, in this order: `RpcService`, `RpcBroker`, its proofs and its refinement;
`RetryTiming` and its proofs; `MemoryHub`; `MqttActor`, `Fanout`;
`BrokerLifecycle` and its proofs; `AmqpActor`; `RedisActor` over `Fanout`;
`DdsActor` and its proofs; the proofs of every other safety property that a run
checks; `TransportContract` and its implementation by `MemoryHub`.

Next, modelling: `RpcOverMemory`, the broker composed with the hub, whose bounded
inboxes and closed lock replace `net`, shown to implement `RpcBroker`.

The runs stay few: an actor whose questions are those of `MqttActor` joins
it where a constant can tell the two apart, and each new run asks something that
no other does.

Next, proofs:

1. The weaker contract of a transport that hands its messages to a broker, as an
   abstract specification that `Fanout`, and with it `RedisActor`, implement.
2. For `DdsActor`, what several readers of a topic do to each other's lists beyond
   `RegisteredIsUpToDate`, which is about a reader that is alone.

--------------------------- MODULE BrokerLifecycle ---------------------------
(***************************************************************************)
(* The life of one RpcBroker (src/broker.rs): its clones, which share one  *)
(* Inner; run(), spawn() and shutdown() on any of them; and the detached   *)
(* receiver tasks that RpcBroker::new starts, which subscribe and end on   *)
(* their own.  Which tasks a broker has follows from the queues that its   *)
(* TransportBuilder (src/transport_builder.rs) was asked for.              *)
(***************************************************************************)

CONSTANTS
  Handles, \* the RpcBroker values: the one new() returns and its clones
  First    \* the one new() returns

ASSUME LifecycleAssumption == First \in Handles

(* TransportBuilder: the mode methods called, the queues set explicitly.   *)
Sugar ==
  [client_mode |-> {"response"}, server_mode |-> {"request"},
   full_duplex |-> {"request", "response"}]

TransportBuilder ==
  [sugar : SUBSET DOMAIN Sugar, queues : SUBSET {"request", "response"}]

(* build() wants one mode method or some queues, and not both.             *)
Accepted(b) ==
  /\ \A m, n \in b.sugar : m = n
  /\ b.sugar = {} <=> b.queues # {}

QueuesOf(b) == b.queues \cup UNION {Sugar[m] : m \in b.sugar}

(* build() infers the mode; RpcBrokerBuilder takes it over as BrokerMode.   *)
ModeOf(queues) ==
  IF queues = {"request", "response"} THEN "FullDuplex"
  ELSE IF queues = {"request"} THEN "Server" ELSE "Client"

Tasks == {"client", "server"}
TaskQueue == [client |-> "response", server |-> "request"]

VARIABLES
  builder,     \* the TransportBuilder the broker's transport came from
  hub,         \* the transport is the in-memory hub; the others talk to a
               \* message broker through an actor
  handle,      \* handle[h]: what became of the value h
  shutdown_tx, \* "held" or "sent": the sender of the shutdown signal
  shutdown_rx, \* "held" or "taken": its receiver
  task,        \* task[k]: the receiver task k
  open,        \* the tasks whose inbox still has its sender in the transport
  closed       \* the transport has been closed

vars == <<builder, hub, handle, shutdown_tx, shutdown_rx, task, open, closed>>

settings == <<builder, hub>>

mode == ModeOf(QueuesOf(builder))

Runs == mode \in {"Server", "FullDuplex"}
StartsTask(k) ==
  IF k = "client" THEN mode \in {"Client", "FullDuplex"} ELSE Runs

(* A broker that starts both tasks whatever its mode.                      *)
Init_bothTasks ==
  /\ builder \in {b \in TransportBuilder : Accepted(b)}
  /\ hub \in BOOLEAN
  /\ handle = [h \in Handles |-> IF h = First THEN "live" ELSE "none"]
  /\ shutdown_tx = "held"
  /\ shutdown_rx = "held"
  /\ task = [k \in Tasks |-> "subscribing"]
  /\ open = {}
  /\ closed = FALSE

Init ==
  /\ builder \in {b \in TransportBuilder : Accepted(b)}
  /\ hub \in BOOLEAN
  /\ handle = [h \in Handles |-> IF h = First THEN "live" ELSE "none"]
  /\ shutdown_tx = "held"
  /\ shutdown_rx = "held"
  /\ task = [k \in Tasks |-> IF StartsTask(k) THEN "subscribing" ELSE "absent"]
  /\ open = {}
  /\ closed = FALSE

Becomes(h, s) == handle' = [handle EXCEPT ![h] = s]

Clone(g, h) ==
  /\ handle[g] \in {"live", "closing"}
  /\ handle[h] = "none"
  /\ Becomes(h, "live")
  /\ UNCHANGED <<settings, shutdown_tx, shutdown_rx, task, open, closed>>

(* A value is dropped, or consumed by spawn(), whose task never ends and   *)
(* does not keep the broker; in client mode spawn() and run() only fail.   *)
Drop(h) ==
  /\ handle[h] = "live"
  /\ Becomes(h, "dropped")
  /\ UNCHANGED <<settings, shutdown_tx, shutdown_rx, task, open, closed>>

(* A receiver that any number of run() calls can wait on.                  *)
Run_sharedReceiver(h) ==
  /\ Runs
  /\ handle[h] = "live"
  /\ Becomes(h, "running")
  /\ UNCHANGED <<settings, shutdown_tx, shutdown_rx, task, open, closed>>

(* run() takes the receiver and waits; it returns if there is none left.   *)
Run(h) ==
  /\ Runs
  /\ handle[h] = "live"
  /\ Becomes(h, IF shutdown_rx = "held" THEN "running" ELSE "returned")
  /\ shutdown_rx' = "taken"
  /\ UNCHANGED <<settings, shutdown_tx, task, open, closed>>

(* The signal, whenever it was given, ends the wait.                       *)
RunReturns(h) ==
  /\ handle[h] = "running"
  /\ shutdown_tx = "sent"
  /\ Becomes(h, "returned")
  /\ UNCHANGED <<settings, shutdown_tx, shutdown_rx, task, open, closed>>

(* The future of run() is dropped, and with it the receiver it took.       *)
Abort(h) ==
  /\ handle[h] = "running"
  /\ Becomes(h, "aborted")
  /\ UNCHANGED <<settings, shutdown_tx, shutdown_rx, task, open, closed>>

(* Only a receiver that already waits is told.                             *)
Signal_onlyWaiting(h) ==
  /\ handle[h] = "live"
  /\ Becomes(h, "closing")
  /\ shutdown_tx' = IF shutdown_rx = "taken" THEN "sent" ELSE shutdown_tx
  /\ UNCHANGED <<settings, shutdown_rx, task, open, closed>>

(* shutdown(): the signal, then the close of the transport.                *)
Signal(h) ==
  /\ handle[h] = "live"
  /\ Becomes(h, "closing")
  /\ shutdown_tx' = "sent"
  /\ UNCHANGED <<settings, shutdown_rx, task, open, closed>>

(* A hub that keeps its senders.                                           *)
Close_keepsSenders(h) ==
  /\ handle[h] = "closing"
  /\ Becomes(h, "live")
  /\ closed' = TRUE
  /\ UNCHANGED <<settings, shutdown_tx, shutdown_rx, task, open>>

(* The hub drops every sender; an actor stops, but the subscriber map      *)
(* keeps its senders, for the receiver tasks themselves hold the           *)
(* transport.                                                              *)
Close(h) ==
  /\ handle[h] = "closing"
  /\ Becomes(h, "live")
  /\ open' = IF hub THEN {} ELSE open
  /\ closed' = TRUE
  /\ UNCHANGED <<settings, shutdown_tx, shutdown_rx, task>>

Accepts == hub \/ ~closed

(* A receiver task subscribes; it ends if that fails, as it does when the  *)
(* actor has stopped.                                                      *)
TaskSubscribes(k) ==
  /\ task[k] = "subscribing"
  /\ \/ /\ Accepts
        /\ task' = [task EXCEPT ![k] = "receiving"]
        /\ open' = open \cup {k}
     \/ /\ task' = [task EXCEPT ![k] = "ended"]
        /\ UNCHANGED open
  /\ UNCHANGED <<settings, handle, shutdown_tx, shutdown_rx, closed>>

TaskEnds(k) ==
  /\ task[k] = "receiving"
  /\ k \notin open
  /\ task' = [task EXCEPT ![k] = "ended"]
  /\ UNCHANGED <<settings, handle, shutdown_tx, shutdown_rx, open, closed>>

Next ==
  \/ \E g, h \in Handles : Clone(g, h)
  \/ \E h \in Handles : Drop(h) \/ Run(h) \/ RunReturns(h) \/ Abort(h)
                          \/ Signal(h) \/ Close(h)
  \/ \E k \in Tasks : TaskSubscribes(k) \/ TaskEnds(k)

(* Calls that have begun run on, and so do the spawned tasks.              *)
Fairness ==
  /\ \A h \in Handles : WF_vars(RunReturns(h)) /\ WF_vars(Close(h))
  /\ \A k \in Tasks : WF_vars(TaskSubscribes(k)) /\ WF_vars(TaskEnds(k))

Spec == Init /\ [][Next]_vars /\ Fairness

-----------------------------------------------------------------------------
(* Types of the broker's shared state and of its handles.  A queue that    *)
(* was asked for, by a mode method or explicitly, has its receiver task,   *)
(* and no other queue has one.                                             *)
TypeOK ==
  /\ builder \in TransportBuilder
  /\ hub \in BOOLEAN
  /\ handle \in [Handles -> {"none", "live", "running", "closing",
                             "returned", "aborted", "dropped"}]
  /\ shutdown_tx \in {"held", "sent"}
  /\ shutdown_rx \in {"held", "taken"}
  /\ task \in [Tasks -> {"absent", "subscribing", "receiving", "ended"}]
  /\ \A k \in Tasks : task[k] = "absent" <=> TaskQueue[k] \notin QueuesOf(builder)
  /\ open \subseteq {k \in Tasks : task[k] # "absent"}
  /\ closed \in BOOLEAN

(* Of all the clones at most one is waiting in run(), and a run() that     *)
(* returned although nobody has called shutdown() came after another that  *)
(* waits, or that was dropped while it waited.                             *)
OneRunWaits ==
  /\ \A g, h \in Handles :
       handle[g] = "running" /\ handle[h] = "running" => g = h
  /\ shutdown_tx = "held" =>
       \A h \in Handles : handle[h] = "returned" =>
         \E g \in Handles : handle[g] \in {"running", "aborted"}

(* Who has the receiver: OneRunWaits holds because run() takes it once and *)
(* its taker, while nobody signals, goes on waiting or was dropped.        *)
ReceiverIsTakenOnce ==
  IF shutdown_rx = "held"
  THEN \A h \in Handles : handle[h] \notin {"running", "returned", "aborted"}
  ELSE shutdown_tx = "held" =>
         \E g \in Handles : handle[g] \in {"running", "aborted"}

IInv == TypeOK /\ ReceiverIsTakenOnce /\ OneRunWaits

(* Once shutdown() has begun on any clone every run() ends, also one that  *)
(* is called later.                                                        *)
ShutdownEndsRuns ==
  \A h \in Handles :
    handle[h] = "running" /\ (closed \/ \E g \in Handles : handle[g] = "closing")
      ~> handle[h] \in {"returned", "aborted"}

(* With the hub, a receiver task that is subscribed when shutdown() begins *)
(* ends.  With an actor it does not; and with the hub, a task that         *)
(* subscribes after the close lives until the next shutdown().             *)
ShutdownEndsTasks ==
  \A k \in Tasks :
    hub /\ task[k] = "receiving" /\ (\E h \in Handles : handle[h] = "closing")
      ~> task[k] = "ended"
=============================================================================

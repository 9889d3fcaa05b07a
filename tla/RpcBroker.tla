------------------------------ MODULE RpcBroker ------------------------------
(***************************************************************************)
(* The RPC layer of mom-rpc (src/broker.rs and the retry loop of           *)
(* src/retry.rs): every broker's pending map, its response receiver task   *)
(* (client side), its request receiver task and handler tasks (server      *)
(* side), and the request_to() calls that the program has in flight.       *)
(*                                                                         *)
(* The transport is any transport that keeps the contract of               *)
(* src/domain/transport.rs: an envelope handed to publish() may be         *)
(* delivered to whoever receives on its address, late, out of order, more  *)
(* than once or never, and publish() may report an error whether or not    *)
(* the envelope went out.  net therefore only grows: an envelope in it is  *)
(* one that may still be delivered, and a lost one is never delivered.     *)
(***************************************************************************)
EXTENDS Naturals, FiniteSets

CONSTANTS
  Nodes,         \* node ids; a broker per node
  Mode,          \* Mode[n]: the BrokerMode of n's broker
  Methods,       \* RPC method names
  Calls,         \* the request_to() invocations of a behaviour
  Caller,        \* Caller[c]: the node whose broker makes call c
  Target,        \* Target[c]: its target_node_id
  Method,        \* Method[c]: its method
  Values,        \* what handlers can compute
  Ids,           \* the correlation ids a behaviour can generate
  RetryConfigured, \* retry_config.is_some()
  MaxAttempts,   \* retry_config.max_attempts
  Strays,        \* envelopes that other programs left on our addresses
  None           \* the absent Option of every kind

BrokerMode == {"Client", "Server", "FullDuplex"}
Address == {"requests", "responses"} \X Nodes
RequestsOf(n) == <<"requests", n>>
ResponsesOf(n) == <<"responses", n>>

(* A payload is identified by the call it is about; a response's also by   *)
(* the value the handler computed.                                         *)
Envelope ==
  [to : Address, method : Methods \cup {None}, id : Ids \cup {None},
   reply_to : Address \cup {None}, call : Calls, value : Values \cup {None}]

Reply == [call : Calls, value : Values]

(* An envelope a receiver task skips: a field it needs is missing.         *)
Malformed(e) ==
  \/ e.id = None
  \/ e.to[1] = "requests" /\ (e.method = None \/ e.reply_to = None)

ClientSide(n) == Mode[n] \in {"Client", "FullDuplex"}
ServerSide(n) == Mode[n] \in {"Server", "FullDuplex"}

ASSUME ModeAssumption == Mode \in [Nodes -> BrokerMode]
ASSUME CallAssumption ==
  /\ Caller \in [Calls -> Nodes]
  /\ Target \in [Calls -> Nodes]
  /\ Method \in [Calls -> Methods]
ASSUME RetryAssumption == RetryConfigured \in BOOLEAN /\ MaxAttempts \in Nat
Results == {"Ok", "InvalidMode", "Serialization", "Transport", "Timeout",
            "TransportRetryable"}

ASSUME NoneAssumption ==
  None \notin Calls \cup Ids \cup Methods \cup Values \cup Address \cup Reply
            \cup Results
(* Other programs do not guess correlation ids: what they leave on our     *)
(* addresses that names one is malformed in another way.                   *)
ASSUME StraysAssumption ==
  /\ Strays \subseteq Envelope
  /\ \A e \in Strays : Malformed(e)

VARIABLES
  pc,         \* pc[c]: where call c stands
  attempt,    \* attempt[c]: the retry loop's counter
  rid,        \* rid[c]: correlation id of the attempt whose receiver lives
  answer,     \* answer[c]: what the attempt's oneshot channel holds
  result,     \* result[c]: what request_to() returned
  pending,    \* pending[n][id]: the call whose sender is stored under id
  rxTask,     \* rxTask[n]: the response receiver task of n
  serverTask, \* serverTask[n]: the request receiver task of n
  handlers,   \* handlers[n]: the methods registered at n
  net,        \* envelopes the transport may still deliver
  running,    \* handler tasks that have been spawned
  owner,      \* history: owner[id] is the call that generated id
  replies     \* history: the replies handlers have computed

callVars == <<pc, attempt, rid, answer, result, owner>>
serverVars == <<serverTask, handlers, running, replies>>
vars == <<pc, attempt, rid, answer, result, pending, rxTask, serverTask,
          handlers, net, running, owner, replies>>

PCs == {"idle", "publishing", "waiting", "sleeping", "done"}
TaskStates == {"absent", "subscribing", "receiving", "stopped"}
Task == [reply_to : Address, id : Ids, call : Calls]

(* RpcBroker::new: maps are empty and the tasks of the mode are spawned;   *)
(* they subscribe later, on their own.                                     *)
Init ==
  /\ pc = [c \in Calls |-> "idle"]
  /\ attempt = [c \in Calls |-> 0]
  /\ rid = [c \in Calls |-> None]
  /\ answer = [c \in Calls |-> None]
  /\ result = [c \in Calls |-> None]
  /\ pending = [n \in Nodes |-> [id \in Ids |-> None]]
  /\ rxTask = [n \in Nodes |->
                 IF ClientSide(n) THEN "subscribing" ELSE "absent"]
  /\ serverTask = [n \in Nodes |->
                     IF ServerSide(n) THEN "subscribing" ELSE "absent"]
  /\ handlers = [n \in Nodes |-> {}]
  /\ net = Strays
  /\ running = {}
  /\ owner = [id \in Ids |-> None]
  /\ replies = {}

-----------------------------------------------------------------------------
(* The caller.                                                             *)

(* A call on a server-mode broker, or one whose argument does not          *)
(* serialize, returns before the retry loop starts.                        *)
Reject(c) ==
  /\ pc[c] = "idle"
  /\ pc' = [pc EXCEPT ![c] = "done"]
  /\ \/ /\ ~ClientSide(Caller[c])
        /\ result' = [result EXCEPT ![c] = "InvalidMode"]
     \/ /\ ClientSide(Caller[c])
        /\ result' = [result EXCEPT ![c] = "Serialization"]
  /\ UNCHANGED <<attempt, rid, answer, owner, pending, rxTask, net>>
  /\ UNCHANGED serverVars

(* Definitions named X_bug, here and in the other modules, are X with a    *)
(* plausible mistake; they are used by no other definition and show that   *)
(* the properties notice the mistake.                                      *)

(* An attempt that replaces the map instead of adding to it.               *)
StartAttempt_replaces(c) ==
  /\ \E id \in {i \in Ids : owner[i] = None} :
        /\ owner' = [owner EXCEPT ![id] = c]
        /\ rid' = [rid EXCEPT ![c] = id]
        /\ pending' = [pending EXCEPT ![Caller[c]] =
                         [i \in Ids |-> IF i = id THEN c ELSE None]]
  /\ pc' = [pc EXCEPT ![c] = "publishing"]
  /\ UNCHANGED <<attempt, answer, result, rxTask, net>>
  /\ UNCHANGED serverVars

(* An attempt generates its correlation id, opens its oneshot channel and  *)
(* stores the sender under the id, all before it publishes.                *)
StartAttempt(c) ==
  /\ \E id \in {i \in Ids : owner[i] = None} :
        /\ owner' = [owner EXCEPT ![id] = c]
        /\ rid' = [rid EXCEPT ![c] = id]
        /\ pending' = [pending EXCEPT ![Caller[c]][id] = c]
  /\ pc' = [pc EXCEPT ![c] = "publishing"]
  /\ UNCHANGED <<attempt, answer, result, rxTask, net>>
  /\ UNCHANGED serverVars

Request(c) ==
  /\ pc[c] = "idle"
  /\ ClientSide(Caller[c])
  /\ StartAttempt(c)

Retry_needsTask(c) ==
  /\ pc[c] = "sleeping"
  /\ rxTask[Caller[c]] = "receiving"
  /\ StartAttempt(c)

(* The backoff sleep is over and the retry loop calls the operation again. *)
Retry(c) ==
  /\ pc[c] = "sleeping"
  /\ StartAttempt(c)

RequestEnvelope(c) ==
  [to |-> RequestsOf(Target[c]), method |-> Method[c], id |-> rid[c],
   reply_to |-> ResponsesOf(Caller[c]), call |-> c, value |-> None]

(* The transport takes the envelope while publish() is being awaited: the  *)
(* answer may come back before publish() returns.                          *)
Transmit(c) ==
  /\ pc[c] = "publishing"
  /\ net' = net \cup {RequestEnvelope(c)}
  /\ UNCHANGED <<callVars, pending, rxTask, serverVars>>

PublishOk(c) ==
  /\ pc[c] = "publishing"
  /\ pc' = [pc EXCEPT ![c] = "waiting"]
  /\ UNCHANGED <<attempt, rid, answer, result, owner, pending, rxTask, net>>
  /\ UNCHANGED serverVars

(* publish() failed: the ? returns at once.  The channel's receiver is     *)
(* dropped, with the answer if one came; the pending entry stays.          *)
PublishErr(c) ==
  /\ pc[c] = "publishing"
  /\ pc' = [pc EXCEPT ![c] = "done"]
  /\ result' = [result EXCEPT ![c] = "Transport"]
  /\ rid' = [rid EXCEPT ![c] = None]
  /\ answer' = [answer EXCEPT ![c] = None]
  /\ UNCHANGED <<attempt, owner, pending, rxTask, net>>
  /\ UNCHANGED serverVars

(* The program drops the future of request_to() at an await: the receiver, *)
(* and an answer it holds, go with it, and the pending entry stays.        *)
Cancel(c) ==
  /\ pc[c] \in {"publishing", "waiting", "sleeping"}
  /\ pc' = [pc EXCEPT ![c] = "done"]
  /\ rid' = [rid EXCEPT ![c] = None]
  /\ answer' = [answer EXCEPT ![c] = None]
  /\ UNCHANGED <<attempt, result, owner, pending, rxTask, net>>
  /\ UNCHANGED serverVars

(* The channel holds a response: the attempt succeeds and the call returns *)
(* it, or returns the error of decoding it.                                *)
TakeAnswer(c) ==
  /\ pc[c] = "waiting"
  /\ answer[c] # None
  /\ pc' = [pc EXCEPT ![c] = "done"]
  /\ \E r \in {"Ok", "Serialization"} : result' = [result EXCEPT ![c] = r]
  /\ rid' = [rid EXCEPT ![c] = None]
  /\ UNCHANGED <<attempt, answer, owner, pending, rxTask, net>>
  /\ UNCHANGED serverVars

(* time::timeout expires with the channel still empty: the receiver is     *)
(* dropped and the pending entry stays.  What the retry loop does with the *)
(* error depends on the retry configuration.                               *)
Overdue_racing(c) == pc[c] = "waiting"
Overdue(c) == pc[c] = "waiting" /\ answer[c] = None

Exhausted_offByOne(c) == attempt[c] > MaxAttempts
Exhausted(c) == attempt[c] + 1 > MaxAttempts

GiveUp(c, error) ==
  /\ pc' = [pc EXCEPT ![c] = "done"]
  /\ result' = [result EXCEPT ![c] = error]

Expire(c) ==
  /\ Overdue(c)
  /\ rid' = [rid EXCEPT ![c] = None]
  /\ \/ /\ ~RetryConfigured
        /\ GiveUp(c, "Timeout")
        /\ UNCHANGED attempt
     \/ /\ RetryConfigured
        /\ attempt' = [attempt EXCEPT ![c] = @ + 1]
        /\ \/ Exhausted(c) /\ GiveUp(c, "TransportRetryable")
           \/ /\ ~Exhausted(c)
              /\ pc' = [pc EXCEPT ![c] = "sleeping"]
              /\ UNCHANGED result
  /\ UNCHANGED <<answer, owner, pending, rxTask, net>>
  /\ UNCHANGED serverVars

-----------------------------------------------------------------------------
(* The receiver tasks.                                                     *)

(* The client task subscribes, or logs the error and ends.                 *)
SubscribeClient(n) ==
  /\ rxTask[n] = "subscribing"
  /\ \E s \in {"receiving", "stopped"} : rxTask' = [rxTask EXCEPT ![n] = s]
  /\ UNCHANGED <<callVars, pending, net, serverVars>>

(* The client task's inbox is closed.  pending is left as it is.           *)
StopClient(n) ==
  /\ rxTask[n] = "receiving"
  /\ rxTask' = [rxTask EXCEPT ![n] = "stopped"]
  /\ UNCHANGED <<callVars, pending, net, serverVars>>

Hears_byNode(c, n, id) == Caller[c] = n /\ rid[c] # None
Hears_unlisted(c, n, id) == rid[c] = id

(* The call whose receiver is still there for a response with this id.     *)
Hears(c, n, id) == pending[n][id] = c /\ rid[c] = id

Removed_kept(n, id) == pending
Removed(n, id) == [pending EXCEPT ![n][id] = None]

(* The client task removes the entry of the response's id and sends the    *)
(* payload; the send fails, unnoticed, when the attempt has ended.         *)
ClientReceive(n, e) ==
  /\ rxTask[n] = "receiving"
  /\ e.to = ResponsesOf(n)
  /\ \/ /\ e.id = None
        /\ UNCHANGED <<pending, answer>>
     \/ /\ e.id # None
        /\ pending' = Removed(n, e.id)
        /\ answer' = [c \in Calls |->
                        IF Hears(c, n, e.id)
                        THEN [call |-> e.call, value |-> e.value]
                        ELSE answer[c]]
  /\ UNCHANGED <<pc, attempt, rid, result, owner, rxTask, net, serverVars>>

SubscribeServer(n) ==
  /\ serverTask[n] = "subscribing"
  /\ \E s \in {"receiving", "stopped"} :
        serverTask' = [serverTask EXCEPT ![n] = s]
  /\ UNCHANGED <<callVars, pending, rxTask, net, handlers, running, replies>>

StopServer(n) ==
  /\ serverTask[n] = "receiving"
  /\ serverTask' = [serverTask EXCEPT ![n] = "stopped"]
  /\ UNCHANGED <<callVars, pending, rxTask, net, handlers, running, replies>>

(* register_rpc_handler: allowed at any time, on any clone of the broker;  *)
(* a second handler for a method takes the place of the first.             *)
RegisterHandler(n, m) ==
  /\ ServerSide(n)
  /\ handlers' = [handlers EXCEPT ![n] = @ \cup {m}]
  /\ UNCHANGED <<callVars, pending, rxTask, net, serverTask, running, replies>>

(* The server task drops a request it cannot serve (a missing field, no    *)
(* handler for the method) and answers nothing; otherwise it spawns a      *)
(* handler task and goes on receiving.                                     *)
CanServe_unregistered(n, e) == ~Malformed(e)
CanServe(n, e) == ~Malformed(e) /\ e.method \in handlers[n]

ServerReceive(n, e) ==
  /\ serverTask[n] = "receiving"
  /\ e.to = RequestsOf(n)
  /\ \/ /\ ~CanServe(n, e)
        /\ UNCHANGED running
     \/ /\ CanServe(n, e)
        /\ running' = running \cup
             {[reply_to |-> e.reply_to, id |-> e.id, call |-> e.call]}
  /\ UNCHANGED <<callVars, pending, rxTask, net, serverTask, handlers, replies>>

ResponseEnvelope(t, v) ==
  [to |-> t.reply_to, method |-> None, id |-> t.id, reply_to |-> None,
   call |-> t.call, value |-> v]

(* A handler task ends: with a reply that it publishes (a failed publish   *)
(* is logged and is a loss like any other), or with a handler error, which *)
(* nobody is told about.                                                   *)
HandlerReturn(t) ==
  /\ running' = running \ {t}
  /\ \/ \E v \in Values :
          /\ replies' = replies \cup {[call |-> t.call, value |-> v]}
          /\ net' = net \cup {ResponseEnvelope(t, v)}
     \/ UNCHANGED <<replies, net>>
  /\ UNCHANGED <<callVars, pending, rxTask, serverTask, handlers>>

-----------------------------------------------------------------------------
CallerStep(c) ==
  \/ Retry(c)
  \/ PublishOk(c)
  \/ PublishErr(c)
  \/ TakeAnswer(c)
  \/ Expire(c)

Next ==
  \/ \E c \in Calls :
        \/ Reject(c)
        \/ Request(c)
        \/ Transmit(c)
        \/ Cancel(c)
        \/ CallerStep(c)
  \/ \E n \in Nodes :
        \/ SubscribeClient(n)
        \/ StopClient(n)
        \/ SubscribeServer(n)
        \/ StopServer(n)
        \/ \E m \in Methods : RegisterHandler(n, m)
        \/ \E e \in net : ClientReceive(n, e) \/ ServerReceive(n, e)
  \/ \E t \in running : HandlerReturn(t)

(* Nothing is assumed of the transport, the servers or the receiver tasks: *)
(* only that publish() returns and that tokio runs the caller's timers.    *)
Fairness == \A c \in Calls : WF_vars(CallerStep(c))

Safety == Init /\ [][Next]_vars
Spec == Safety /\ Fairness

-----------------------------------------------------------------------------
(* Types of all the state of the RPC layer.                                *)
TypeOK ==
  /\ pc \in [Calls -> PCs]
  /\ attempt \in [Calls -> Nat]
  /\ rid \in [Calls -> Ids \cup {None}]
  /\ answer \in [Calls -> Reply \cup {None}]
  /\ result \in [Calls -> Results \cup {None}]
  /\ pending \in [Nodes -> [Ids -> Calls \cup {None}]]
  /\ rxTask \in [Nodes -> TaskStates]
  /\ serverTask \in [Nodes -> TaskStates]
  /\ handlers \in [Nodes -> SUBSET Methods]
  /\ net \subseteq Envelope
  /\ running \subseteq Task
  /\ owner \in [Ids -> Calls \cup {None}]
  /\ replies \subseteq Reply

(* The ids call c has generated, one per attempt.                          *)
Attempts(c) == {id \in Ids : owner[id] = c}

(* An attempt that can still be answered has its sender in the pending map *)
(* of its own broker, and an answered one has not: a response can never    *)
(* find the map empty under a waiting caller, however fast it comes, and   *)
(* no second response finds the entry again.  It also says the "response   *)
(* channel closed" error of request_to is unreachable.                     *)
WaiterIsPending ==
  \A c \in Calls : rid[c] # None =>
    pending[Caller[c]][rid[c]] = IF answer[c] = None THEN c ELSE None

(* What reaches a caller is a reply a handler computed for this very call, *)
(* on the node and for the method it was addressed to, whatever other      *)
(* calls, earlier attempts and duplicates are in flight.                   *)
OwnAnswer ==
  \A c \in Calls : answer[c] # None =>
    /\ answer[c].call = c
    /\ answer[c] \in replies
    /\ Method[c] \in handlers[Target[c]]

(* What an id on the wire means.  A well-formed request in the transport   *)
(* was published by the call that generated its id, and a response was     *)
(* computed for that call.                                                 *)
Genuine(e) ==
  /\ owner[e.id] = e.call
  /\ e.to[1] = "requests" =>
       /\ e.to = RequestsOf(Target[e.call])
       /\ e.method = Method[e.call]
       /\ e.reply_to = ResponsesOf(Caller[e.call])
  /\ e.to[1] = "responses" => [call |-> e.call, value |-> e.value] \in replies

NetIsGenuine == \A e \in net : Malformed(e) \/ Genuine(e)

TasksAreGenuine ==
  \A t \in running :
    /\ owner[t.id] = t.call
    /\ t.reply_to = ResponsesOf(Caller[t.call])
    /\ Method[t.call] \in handlers[Target[t.call]]

RepliesAreServed ==
  \A r \in replies : /\ Method[r.call] \in handlers[Target[r.call]]
                     /\ Attempts(r.call) # {}

(* Senders and receivers belong to the call that generated the id.         *)
IdsAreOwned ==
  /\ \A c \in Calls : rid[c] # None => owner[rid[c]] = c
  /\ \A n \in Nodes, id \in Ids : pending[n][id] # None =>
       /\ owner[id] = pending[n][id]
       /\ Caller[pending[n][id]] = n

(* An attempt has a receiver exactly while it publishes or waits, and only *)
(* then, or at the end, can the call hold an answer.                       *)
AttemptsFollowPc ==
  \A c \in Calls :
    /\ pc[c] \in {"publishing", "waiting"} <=> rid[c] # None
    /\ pc[c] \in {"idle", "sleeping"} => answer[c] = None
    /\ pc[c] = "idle" => Attempts(c) = {}
    /\ pc[c] \in {"publishing", "waiting", "sleeping"} => Attempts(c) # {}

(* The inductive invariant: OwnAnswer and WaiterIsPending hold because of  *)
(* what the ids in the transport, in the handler tasks and in the pending  *)
(* maps stand for.                                                         *)
IInv ==
  /\ TypeOK
  /\ NetIsGenuine
  /\ TasksAreGenuine
  /\ RepliesAreServed
  /\ IdsAreOwned
  /\ AttemptsFollowPc
  /\ WaiterIsPending
  /\ OwnAnswer

(* The retry loop sends a request max_attempts + 1 times at most, once     *)
(* without a retry configuration, gives up with TransportRetryable only    *)
(* after all of them, never when no retry is configured, and a broker in   *)
(* server mode sends nothing.                                              *)
RetryDisciplined(c) ==
  /\ Cardinality(Attempts(c)) <= IF RetryConfigured THEN MaxAttempts + 1 ELSE 1
  /\ result[c] = "TransportRetryable" =>
       RetryConfigured /\ Cardinality(Attempts(c)) = MaxAttempts + 1
  /\ result[c] = "Timeout" => ~RetryConfigured
  /\ ~ClientSide(Caller[c]) => Attempts(c) = {}

RetryDiscipline == \A c \in Calls : RetryDisciplined(c)

(* Entries of the pending map that no receiver will ever use.              *)
Abandoned(c) ==
  {id \in Attempts(c) : rid[c] # id /\ pending[Caller[c]][id] # None}

Cancelled(c) == pc[c] = "done" /\ result[c] = None

(* The pending map grows by the attempts that were abandoned and by        *)
(* nothing else: one entry per expired attempt, one more if publish        *)
(* failed or the call was cancelled.  An answered attempt leaves nothing.  *)
LeakBounded(c) ==
  Cardinality(Abandoned(c)) <=
    IF result[c] = "Transport" \/ Cancelled(c) THEN attempt[c] + 1
    ELSE IF result[c] = "Timeout" THEN 1 ELSE attempt[c]

LeakIsBounded == \A c \in Calls : LeakBounded(c)

(* The inductive form of both: while a call runs, its ids count the        *)
(* attempts of the retry loop, the one under way included.                 *)
Loop(c) ==
  /\ IsFiniteSet(Attempts(c))
  /\ RetryDisciplined(c)
  /\ LeakBounded(c)
  /\ pc[c] # "done" =>
       /\ result[c] = None
       /\ attempt[c] <= IF RetryConfigured THEN MaxAttempts ELSE 0
       /\ Cardinality(Attempts(c)) =
            IF rid[c] = None THEN attempt[c] ELSE attempt[c] + 1

LoopInv == \A c \in Calls : Loop(c)

(* Of several responses to one attempt the first wins: what the channel    *)
(* holds is never replaced, and is dropped only when the call ends with a  *)
(* failed publish or is cancelled.                                         *)
FirstAnswerWins ==
  [][\A c \in Calls :
       answer[c] # None /\ answer'[c] # answer[c] =>
         /\ answer'[c] = None
         /\ pc'[c] = "done" /\ result'[c] \in {"Transport", None}]_vars

(* Every call that passes the checks of request_to returns, if publish()   *)
(* does, with nothing assumed of the transport or of the other side.       *)
EveryCallReturns ==
  \A c \in Calls : pc[c] = "publishing" ~> pc[c] = "done"

(* The RPC layer keeps the promise of RpcService.                          *)
Phase ==
  [c \in Calls |-> IF pc[c] = "idle" THEN "idle"
                   ELSE IF pc[c] = "done" THEN "returned" ELSE "active"]
Submitted == {c \in Calls : Attempts(c) # {}}

Service == INSTANCE RpcService WITH phase <- Phase, submitted <- Submitted

ImplementsService == Service!Spec
=============================================================================

--------------------------- MODULE RpcBrokerProofs ---------------------------
(***************************************************************************)
(* Proofs about RpcBroker, for every set of nodes, calls, methods and ids, *)
(* with and without a retry configuration.                                 *)
(***************************************************************************)
EXTENDS RpcBroker, FiniteSetTheorems, TLAPS

USE DEF ClientSide, RequestsOf, ResponsesOf

(* An address is a pair, and its first half tells requests from responses. *)
LEMMA AddressForm ==
  /\ \A n \in Nodes : RequestsOf(n) \in Address /\ ResponsesOf(n) \in Address
  /\ \A n \in Nodes : RequestsOf(n)[1] = "requests"
  /\ \A n \in Nodes : ResponsesOf(n)[1] = "responses"
BY DEF Address

(* Nothing is in flight at first but what other programs left behind.      *)
LEMMA InitIInv == Init => IInv
<1> SUFFICES ASSUME Init PROVE IInv
  OBVIOUS
<1> USE NoneAssumption, CallAssumption, RetryAssumption, StraysAssumption
<1>1. TypeOK
  BY DEF Init, TypeOK, PCs, TaskStates
<1>2. NetIsGenuine /\ TasksAreGenuine /\ RepliesAreServed
  BY DEF Init, NetIsGenuine, TasksAreGenuine, RepliesAreServed
<1>3. IdsAreOwned /\ WaiterIsPending /\ OwnAnswer
  BY DEF Init, IdsAreOwned, WaiterIsPending, OwnAnswer
<1>4. AttemptsFollowPc
  BY DEF Init, AttemptsFollowPc, Attempts
<1> QED
  BY <1>1, <1>2, <1>3, <1>4 DEF IInv

LEMMA StartAttemptIInv ==
  ASSUME IInv, NEW c \in Calls, StartAttempt(c), pc[c] \in {"idle", "sleeping"}
  PROVE  IInv'
<1> USE NoneAssumption, CallAssumption
<1>0. PICK id \in {i \in Ids : owner[i] = None} :
        /\ owner' = [owner EXCEPT ![id] = c]
        /\ rid' = [rid EXCEPT ![c] = id]
        /\ pending' = [pending EXCEPT ![Caller[c]][id] = c]
  BY DEF StartAttempt
<1>1. TypeOK'
  BY <1>0 DEF StartAttempt, serverVars, IInv, TypeOK, PCs
<1>2. NetIsGenuine'
  <2> SUFFICES ASSUME NEW e \in net, ~Malformed(e)
               PROVE  Genuine(e)'
    BY DEF StartAttempt, NetIsGenuine, Malformed
  <2>1. Genuine(e) /\ e.id \in Ids /\ e.call \in Calls
    BY DEF IInv, TypeOK, NetIsGenuine, Malformed, Envelope
  <2>2. owner'[e.id] = owner[e.id]
    BY <1>0, <2>1 DEF IInv, TypeOK, Genuine
  <2> QED
    BY <2>1, <2>2 DEF Genuine, StartAttempt, serverVars
<1>3. TasksAreGenuine'
  BY <1>0 DEF StartAttempt, serverVars, IInv, TypeOK, TasksAreGenuine, Task
<1>4. RepliesAreServed'
  BY <1>0
     DEF StartAttempt, serverVars, IInv, TypeOK, RepliesAreServed, Attempts,
         Reply
<1>5. IdsAreOwned'
  BY <1>0 DEF StartAttempt, serverVars, IInv, TypeOK, IdsAreOwned
<1>6. AttemptsFollowPc'
  BY <1>0
     DEF StartAttempt, serverVars, IInv, TypeOK, AttemptsFollowPc, Attempts,
         PCs
<1>7. WaiterIsPending'
  <2> SUFFICES ASSUME NEW d \in Calls, rid'[d] # None
               PROVE  pending'[Caller[d]][rid'[d]] =
                        IF answer'[d] = None THEN d ELSE None
    BY DEF WaiterIsPending
  <2>1. CASE d = c
    BY <1>0, <2>1 DEF StartAttempt, IInv, TypeOK, AttemptsFollowPc
  <2>2. CASE d # c
    <3>1. rid'[d] = rid[d] /\ rid[d] \in Ids /\ owner[rid[d]] = d
      BY <1>0, <2>2 DEF IInv, TypeOK, IdsAreOwned
    <3>2. pending'[Caller[d]][rid[d]] = pending[Caller[d]][rid[d]]
      BY <1>0, <3>1 DEF IInv, TypeOK
    <3> QED
      BY <3>1, <3>2 DEF StartAttempt, IInv, WaiterIsPending
  <2> QED
    BY <2>1, <2>2
<1>8. OwnAnswer'
  BY <1>0 DEF StartAttempt, serverVars, IInv, TypeOK, OwnAnswer
<1> QED
  BY <1>1, <1>2, <1>3, <1>4, <1>5, <1>6, <1>7, <1>8 DEF IInv

(* A refused call sends nothing.                                           *)
LEMMA RejectIInv ==
  ASSUME IInv, NEW c \in Calls, Reject(c)
  PROVE  IInv'
<1> USE NoneAssumption, CallAssumption, RetryAssumption DEF Reject, callVars, serverVars
<1>1. TypeOK'
  BY DEF IInv, TypeOK, PCs, Results
<1>2. NetIsGenuine'
  BY DEF IInv, TypeOK, NetIsGenuine, Genuine, Malformed
<1>3. TasksAreGenuine'
  BY DEF IInv, TypeOK, TasksAreGenuine
<1>4. RepliesAreServed'
  BY DEF IInv, RepliesAreServed, Attempts
<1>5. IdsAreOwned'
  BY DEF IInv, TypeOK, IdsAreOwned
<1>6. AttemptsFollowPc'
  BY DEF IInv, TypeOK, AttemptsFollowPc, Attempts, PCs
<1>7. WaiterIsPending'
  BY DEF IInv, TypeOK, WaiterIsPending, AttemptsFollowPc
<1>8. OwnAnswer'
  BY DEF IInv, TypeOK, OwnAnswer
<1> QED
  BY <1>1, <1>2, <1>3, <1>4, <1>5, <1>6, <1>7, <1>8 DEF IInv

(* The attempt goes from publishing to waiting with its receiver.          *)
LEMMA PublishOkIInv ==
  ASSUME IInv, NEW c \in Calls, PublishOk(c)
  PROVE  IInv'
<1> USE NoneAssumption, CallAssumption, RetryAssumption DEF PublishOk, callVars, serverVars
<1>1. TypeOK'
  BY DEF IInv, TypeOK, PCs, Results
<1>2. NetIsGenuine'
  BY DEF IInv, TypeOK, NetIsGenuine, Genuine, Malformed
<1>3. TasksAreGenuine'
  BY DEF IInv, TypeOK, TasksAreGenuine
<1>4. RepliesAreServed'
  BY DEF IInv, RepliesAreServed, Attempts
<1>5. IdsAreOwned'
  BY DEF IInv, TypeOK, IdsAreOwned
<1>6. AttemptsFollowPc'
  BY DEF IInv, TypeOK, AttemptsFollowPc, Attempts, PCs
<1>7. WaiterIsPending'
  BY DEF IInv, TypeOK, WaiterIsPending, AttemptsFollowPc
<1>8. OwnAnswer'
  BY DEF IInv, TypeOK, OwnAnswer
<1> QED
  BY <1>1, <1>2, <1>3, <1>4, <1>5, <1>6, <1>7, <1>8 DEF IInv

(* A failed publish drops the receiver and what it holds.                  *)
LEMMA PublishErrIInv ==
  ASSUME IInv, NEW c \in Calls, PublishErr(c)
  PROVE  IInv'
<1> USE NoneAssumption, CallAssumption, RetryAssumption DEF PublishErr, callVars, serverVars
<1>1. TypeOK'
  BY DEF IInv, TypeOK, PCs, Results
<1>2. NetIsGenuine'
  BY DEF IInv, TypeOK, NetIsGenuine, Genuine, Malformed
<1>3. TasksAreGenuine'
  BY DEF IInv, TypeOK, TasksAreGenuine
<1>4. RepliesAreServed'
  BY DEF IInv, RepliesAreServed, Attempts
<1>5. IdsAreOwned'
  BY DEF IInv, TypeOK, IdsAreOwned
<1>6. AttemptsFollowPc'
  BY DEF IInv, TypeOK, AttemptsFollowPc, Attempts, PCs
<1>7. WaiterIsPending'
  BY DEF IInv, TypeOK, WaiterIsPending, AttemptsFollowPc
<1>8. OwnAnswer'
  BY DEF IInv, TypeOK, OwnAnswer
<1> QED
  BY <1>1, <1>2, <1>3, <1>4, <1>5, <1>6, <1>7, <1>8 DEF IInv

(* A cancelled call: whatever its state, its receiver and answer are gone. *)
LEMMA CancelIInv ==
  ASSUME IInv, NEW c \in Calls, Cancel(c)
  PROVE  IInv'
<1> USE NoneAssumption, CallAssumption, RetryAssumption DEF Cancel, callVars, serverVars
<1>1. TypeOK'
  BY DEF IInv, TypeOK, PCs, Results
<1>2. NetIsGenuine'
  BY DEF IInv, TypeOK, NetIsGenuine, Genuine, Malformed
<1>3. TasksAreGenuine'
  BY DEF IInv, TypeOK, TasksAreGenuine
<1>4. RepliesAreServed'
  BY DEF IInv, RepliesAreServed, Attempts
<1>5. IdsAreOwned'
  BY DEF IInv, TypeOK, IdsAreOwned
<1>6. AttemptsFollowPc'
  BY DEF IInv, TypeOK, AttemptsFollowPc, Attempts, PCs
<1>7. WaiterIsPending'
  BY DEF IInv, TypeOK, WaiterIsPending, AttemptsFollowPc
<1>8. OwnAnswer'
  BY DEF IInv, TypeOK, OwnAnswer
<1> QED
  BY <1>1, <1>2, <1>3, <1>4, <1>5, <1>6, <1>7, <1>8 DEF IInv

(* The call returns with what its channel holds.                           *)
LEMMA TakeAnswerIInv ==
  ASSUME IInv, NEW c \in Calls, TakeAnswer(c)
  PROVE  IInv'
<1> USE NoneAssumption, CallAssumption, RetryAssumption DEF TakeAnswer, callVars, serverVars
<1>1. TypeOK'
  BY DEF IInv, TypeOK, PCs, Results
<1>2. NetIsGenuine'
  BY DEF IInv, TypeOK, NetIsGenuine, Genuine, Malformed
<1>3. TasksAreGenuine'
  BY DEF IInv, TypeOK, TasksAreGenuine
<1>4. RepliesAreServed'
  <2>1. UNCHANGED <<replies, handlers, owner>>
    OBVIOUS
  <2> HIDE DEF TakeAnswer
  <2> QED
    BY <2>1 DEF IInv, RepliesAreServed, Attempts
<1>5. IdsAreOwned'
  BY DEF IInv, TypeOK, IdsAreOwned
<1>6. AttemptsFollowPc'
  BY DEF IInv, TypeOK, AttemptsFollowPc, Attempts, PCs
<1>7. WaiterIsPending'
  BY DEF IInv, TypeOK, WaiterIsPending, AttemptsFollowPc
<1>8. OwnAnswer'
  BY DEF IInv, TypeOK, OwnAnswer
<1> QED
  BY <1>1, <1>2, <1>3, <1>4, <1>5, <1>6, <1>7, <1>8 DEF IInv

(* An expired attempt drops its receiver; the call sleeps or returns.      *)
LEMMA ExpireIInv ==
  ASSUME IInv, NEW c \in Calls, Expire(c)
  PROVE  IInv'
<1> USE NoneAssumption, CallAssumption, RetryAssumption DEF Expire, Overdue, GiveUp, callVars, serverVars
<1>1. TypeOK'
  <2>1. UNCHANGED <<answer, owner, pending, rxTask, net, serverTask, handlers,
                    running, replies>>
    OBVIOUS
  <2>2. attempt' \in [Calls -> Nat]
    BY DEF IInv, TypeOK
  <2>3. pc' \in [Calls -> PCs] /\ result' \in [Calls -> Results \cup {None}]
    BY DEF IInv, TypeOK, PCs, Results
  <2>4. rid' \in [Calls -> Ids \cup {None}]
    BY DEF IInv, TypeOK
  <2> QED
    BY <2>1, <2>2, <2>3, <2>4 DEF IInv, TypeOK
<1>2. NetIsGenuine'
  BY DEF IInv, TypeOK, NetIsGenuine, Genuine, Malformed
<1>3. TasksAreGenuine'
  BY DEF IInv, TypeOK, TasksAreGenuine
<1>4. RepliesAreServed'
  BY DEF IInv, RepliesAreServed, Attempts
<1>5. IdsAreOwned'
  BY DEF IInv, TypeOK, IdsAreOwned
<1>6. AttemptsFollowPc'
  BY DEF IInv, TypeOK, AttemptsFollowPc, Attempts, PCs
<1>7. WaiterIsPending'
  BY DEF IInv, TypeOK, WaiterIsPending, AttemptsFollowPc
<1>8. OwnAnswer'
  BY DEF IInv, TypeOK, OwnAnswer
<1> QED
  BY <1>1, <1>2, <1>3, <1>4, <1>5, <1>6, <1>7, <1>8 DEF IInv

(* A transmitted request is genuine.                                       *)
LEMMA TransmitIInv ==
  ASSUME IInv, NEW c \in Calls, Transmit(c)
  PROVE  IInv'
<1> USE NoneAssumption, CallAssumption, RetryAssumption DEF Transmit, callVars, serverVars
<1>1. TypeOK'
  <2>1. rid[c] \in Ids
    BY DEF IInv, TypeOK, AttemptsFollowPc
  <2>2. RequestEnvelope(c) \in Envelope
    BY <2>1, AddressForm DEF RequestEnvelope, Envelope
  <2> QED
    BY <2>2 DEF IInv, TypeOK
<1>2. NetIsGenuine'
  <2>1. rid[c] # None /\ owner[rid[c]] = c
    BY DEF IInv, TypeOK, AttemptsFollowPc, IdsAreOwned
  <2>2. Genuine(RequestEnvelope(c))
    BY <2>1, AddressForm DEF Genuine, RequestEnvelope
  <2>3. \A e \in net' : Malformed(e) \/ Genuine(e)
    BY <2>2 DEF IInv, NetIsGenuine
  <2> QED
    BY <2>3 DEF NetIsGenuine, Genuine, Malformed
<1>3. TasksAreGenuine'
  BY DEF IInv, TypeOK, TasksAreGenuine
<1>4. RepliesAreServed'
  BY DEF IInv, RepliesAreServed, Attempts
<1>5. IdsAreOwned'
  BY DEF IInv, TypeOK, IdsAreOwned
<1>6. AttemptsFollowPc'
  BY DEF IInv, TypeOK, AttemptsFollowPc, Attempts, PCs
<1>7. WaiterIsPending'
  BY DEF IInv, TypeOK, WaiterIsPending, AttemptsFollowPc
<1>8. OwnAnswer'
  BY DEF IInv, TypeOK, OwnAnswer
<1> QED
  BY <1>1, <1>2, <1>3, <1>4, <1>5, <1>6, <1>7, <1>8 DEF IInv

(* The sender removed with an id belongs to the call that generated the id, *)
(* and so does the genuine response that names it.                         *)
LEMMA ClientReceiveIInv ==
  ASSUME IInv, NEW n \in Nodes, NEW e \in net, ClientReceive(n, e)
  PROVE  IInv'
<1> USE NoneAssumption, CallAssumption, RetryAssumption DEF ClientReceive, Removed, callVars, serverVars
<1>0. ASSUME e.id # None
      PROVE  /\ e.id \in Ids
             /\ owner[e.id] = e.call
             /\ [call |-> e.call, value |-> e.value] \in replies
  <2>1. e.to[1] = "responses"
    BY AddressForm DEF ClientReceive
  <2>2. e \in Envelope /\ Genuine(e)
    BY <1>0, <2>1 DEF IInv, TypeOK, NetIsGenuine, Malformed
  <2> QED
    BY <1>0, <2>1, <2>2 DEF Envelope, Genuine
<1>a. ASSUME NEW d \in Calls, e.id # None, Hears(d, n, e.id)
      PROVE  d = e.call /\ rid[d] = e.id /\ Caller[d] = n
  BY <1>0, <1>a DEF Hears, IInv, IdsAreOwned
<1>1. TypeOK'
  <2>1. answer' \in [Calls -> Reply \cup {None}]
    BY <1>0 DEF IInv, TypeOK
  <2>2. \/ pending' = pending
        \/ e.id # None /\ pending' = [pending EXCEPT ![n][e.id] = None]
    BY Zenon
  <2>3. pending' \in [Nodes -> [Ids -> Calls \cup {None}]]
    <3> HIDE DEF ClientReceive
    <3>1. pending \in [Nodes -> [Ids -> Calls \cup {None}]]
      BY DEF IInv, TypeOK
    <3>2. CASE /\ e.id # None
               /\ pending' = [pending EXCEPT ![n][e.id] = None]
      <4>1. [pending[n] EXCEPT ![e.id] = None] \in [Ids -> Calls \cup {None}]
        BY <3>1
      <4> QED
        BY <3>1, <3>2, <4>1
    <3> QED
      BY <2>2, <3>1, <3>2
  <2> QED
    BY <2>1, <2>3 DEF IInv, TypeOK
<1>2. NetIsGenuine'
  BY DEF IInv, TypeOK, NetIsGenuine, Genuine, Malformed
<1>3. TasksAreGenuine'
  BY DEF IInv, TypeOK, TasksAreGenuine
<1>4. RepliesAreServed'
  BY DEF IInv, RepliesAreServed, Attempts
<1>5. IdsAreOwned'
  <2>1. ASSUME NEW m \in Nodes, NEW id \in Ids, pending'[m][id] # None
        PROVE  pending'[m][id] = pending[m][id]
    BY <1>0, <2>1 DEF IInv, TypeOK
  <2> QED
    BY <2>1 DEF IInv, IdsAreOwned
<1>6. AttemptsFollowPc'
  <2>1. ASSUME NEW d \in Calls, pc[d] \in {"idle", "sleeping"}
        PROVE  answer'[d] = None
    <3>1. rid[d] = None /\ answer[d] = None
      BY <2>1 DEF IInv, TypeOK, AttemptsFollowPc
    <3>2. e.id # None => ~Hears(d, n, e.id)
      BY <3>1 DEF Hears
    <3> QED
      BY <3>1, <3>2
  <2> QED
    BY <2>1 DEF IInv, AttemptsFollowPc, Attempts
<1>7. WaiterIsPending'
  <2> SUFFICES ASSUME NEW d \in Calls, rid[d] # None
               PROVE  pending'[Caller[d]][rid[d]] =
                        IF answer'[d] = None THEN d ELSE None
    BY DEF WaiterIsPending
  <2>0. /\ rid[d] \in Ids /\ owner[rid[d]] = d
        /\ pending[Caller[d]][rid[d]] = IF answer[d] = None THEN d ELSE None
    BY DEF IInv, TypeOK, WaiterIsPending, IdsAreOwned
  <2>1. CASE e.id = None
    BY <2>0, <2>1
  <2>2. CASE e.id # None /\ Hears(d, n, e.id)
    <3>1. answer'[d] \in Reply
      BY <1>0, <2>2 DEF IInv, TypeOK
    <3>2. pending'[Caller[d]][rid[d]] = None
      BY <1>0, <1>a, <2>2 DEF IInv, TypeOK
    <3>3. None \notin Reply
      OBVIOUS
    <3> QED
      BY <3>1, <3>2, <3>3
  <2>3. CASE e.id # None /\ ~Hears(d, n, e.id)
    <3>1. answer'[d] = answer[d]
      BY <2>3
    <3>2. CASE Caller[d] = n /\ rid[d] = e.id
      BY <2>0, <2>3, <3>1, <3>2 DEF Hears, IInv, TypeOK
    <3>3. CASE ~(Caller[d] = n /\ rid[d] = e.id)
      BY <2>0, <2>3, <3>1, <3>3 DEF IInv, TypeOK
    <3> QED
      BY <3>2, <3>3
  <2> QED
    BY <2>1, <2>2, <2>3
<1>8. OwnAnswer'
  <2> SUFFICES ASSUME NEW d \in Calls, answer'[d] # None
               PROVE  /\ answer'[d].call = d
                      /\ answer'[d] \in replies
                      /\ Method[d] \in handlers[Target[d]]
    BY DEF OwnAnswer
  <2>1. CASE e.id # None /\ Hears(d, n, e.id)
    <3>1. answer'[d] = [call |-> d, value |-> e.value] /\ answer'[d] \in replies
      BY <1>0, <1>a, <2>1
    <3> QED
      BY <3>1 DEF IInv, RepliesAreServed
  <2>2. CASE ~(e.id # None /\ Hears(d, n, e.id))
    BY <2>2 DEF IInv, TypeOK, OwnAnswer
  <2> QED
    BY <2>1, <2>2
<1> QED
  BY <1>1, <1>2, <1>3, <1>4, <1>5, <1>6, <1>7, <1>8 DEF IInv

(* Handlers are only added.                                                *)
LEMMA RegisterHandlerIInv ==
  ASSUME IInv, NEW n \in Nodes, NEW m \in Methods, RegisterHandler(n, m)
  PROVE  IInv'
<1> USE NoneAssumption, CallAssumption, RetryAssumption DEF RegisterHandler, callVars, serverVars
<1>1. TypeOK'
  BY DEF IInv, TypeOK, PCs, Results
<1>2. NetIsGenuine'
  BY DEF IInv, TypeOK, NetIsGenuine, Genuine, Malformed
<1>3. TasksAreGenuine'
  BY DEF IInv, TypeOK, TasksAreGenuine
<1>4. RepliesAreServed'
  BY DEF IInv, RepliesAreServed, Attempts
<1>5. IdsAreOwned'
  BY DEF IInv, TypeOK, IdsAreOwned
<1>6. AttemptsFollowPc'
  BY DEF IInv, TypeOK, AttemptsFollowPc, Attempts, PCs
<1>7. WaiterIsPending'
  BY DEF IInv, TypeOK, WaiterIsPending, AttemptsFollowPc
<1>8. OwnAnswer'
  BY DEF IInv, TypeOK, OwnAnswer
<1> QED
  BY <1>1, <1>2, <1>3, <1>4, <1>5, <1>6, <1>7, <1>8 DEF IInv

(* A spawned handler task stands for a genuine request to this node.       *)
LEMMA ServerReceiveIInv ==
  ASSUME IInv, NEW n \in Nodes, NEW e \in net, ServerReceive(n, e)
  PROVE  IInv'
<1> USE NoneAssumption, CallAssumption, RetryAssumption DEF ServerReceive, CanServe, callVars, serverVars
<1>0. ASSUME CanServe(n, e)
      PROVE  /\ e \in Envelope /\ Genuine(e)
             /\ e.to[1] = "requests" /\ e.reply_to # None /\ e.id # None
             /\ Target[e.call] = n
  <2>1. e \in Envelope /\ e.to[1] = "requests"
    BY AddressForm DEF ServerReceive, IInv, TypeOK
  <2>2. Genuine(e) /\ e.reply_to # None /\ e.id # None
    BY <1>0, <2>1 DEF CanServe, IInv, NetIsGenuine, Malformed
  <2>3. Target[e.call] = n
    BY <2>1, <2>2 DEF ServerReceive, Genuine, Envelope
  <2> QED
    BY <2>1, <2>2, <2>3
<1>1. TypeOK'
  <2>1. running' \subseteq Task
    BY <1>0 DEF IInv, TypeOK, Task, Envelope
  <2> QED
    BY <2>1 DEF IInv, TypeOK
<1>2. NetIsGenuine'
  BY DEF IInv, TypeOK, NetIsGenuine, Genuine, Malformed
<1>3. TasksAreGenuine'
  <2>1. ASSUME CanServe(n, e)
        PROVE  /\ owner[e.id] = e.call
               /\ e.reply_to = ResponsesOf(Caller[e.call])
               /\ Method[e.call] \in handlers[Target[e.call]]
    BY <1>0, <2>1 DEF CanServe, Genuine
  <2> QED
    BY <2>1 DEF IInv, TasksAreGenuine
<1>4. RepliesAreServed'
  BY DEF IInv, RepliesAreServed, Attempts
<1>5. IdsAreOwned'
  BY DEF IInv, TypeOK, IdsAreOwned
<1>6. AttemptsFollowPc'
  BY DEF IInv, TypeOK, AttemptsFollowPc, Attempts, PCs
<1>7. WaiterIsPending'
  BY DEF IInv, TypeOK, WaiterIsPending, AttemptsFollowPc
<1>8. OwnAnswer'
  BY DEF IInv, TypeOK, OwnAnswer
<1> QED
  BY <1>1, <1>2, <1>3, <1>4, <1>5, <1>6, <1>7, <1>8 DEF IInv

(* A response carries the id and the return address of its request.        *)
LEMMA HandlerReturnIInv ==
  ASSUME IInv, NEW t \in running, HandlerReturn(t)
  PROVE  IInv'
<1> USE NoneAssumption, CallAssumption, RetryAssumption DEF HandlerReturn, callVars, serverVars
<1>1. TypeOK'
  <2>1. t \in Task
    BY DEF IInv, TypeOK
  <2>2. \A v \in Values : /\ ResponseEnvelope(t, v) \in Envelope
                         /\ [call |-> t.call, value |-> v] \in Reply
    BY <2>1 DEF ResponseEnvelope, Envelope, Task, Reply
  <2>3. net' \subseteq Envelope /\ replies' \subseteq Reply
    BY <2>2 DEF IInv, TypeOK
  <2> QED
    BY <2>3 DEF IInv, TypeOK
<1>2. NetIsGenuine'
  <2>1. owner[t.id] = t.call /\ t.reply_to[1] = "responses"
    BY AddressForm DEF IInv, TypeOK, Task, TasksAreGenuine
  <2>2. \A e \in net : Genuine(e) => Genuine(e)'
    BY DEF Genuine
  <2>3. ASSUME NEW v \in Values,
               replies' = replies \cup {[call |-> t.call, value |-> v]}
        PROVE  Genuine(ResponseEnvelope(t, v))'
    BY <2>1, <2>3 DEF Genuine, ResponseEnvelope
  <2> QED
    BY <2>2, <2>3 DEF IInv, NetIsGenuine, Malformed
<1>3. TasksAreGenuine'
  BY DEF IInv, TypeOK, TasksAreGenuine
<1>4. RepliesAreServed'
  <2>1. /\ t.id \in Ids /\ owner[t.id] = t.call
        /\ Method[t.call] \in handlers[Target[t.call]]
    BY DEF IInv, TypeOK, Task, TasksAreGenuine
  <2>2. Attempts(t.call) # {}
    BY <2>1 DEF Attempts
  <2> QED
    BY <2>1, <2>2 DEF IInv, RepliesAreServed, Attempts
<1>5. IdsAreOwned'
  BY DEF IInv, TypeOK, IdsAreOwned
<1>6. AttemptsFollowPc'
  BY DEF IInv, TypeOK, AttemptsFollowPc, Attempts, PCs
<1>7. WaiterIsPending'
  BY DEF IInv, TypeOK, WaiterIsPending, AttemptsFollowPc
<1>8. OwnAnswer'
  BY DEF IInv, TypeOK, OwnAnswer
<1> QED
  BY <1>1, <1>2, <1>3, <1>4, <1>5, <1>6, <1>7, <1>8 DEF IInv

(* Starting and stopping the receiver tasks changes nothing else.          *)
LEMMA ReceiverTaskIInv ==
  ASSUME IInv, NEW n \in Nodes,
         SubscribeClient(n) \/ StopClient(n) \/ SubscribeServer(n) \/ StopServer(n)
  PROVE  IInv'
<1> USE NoneAssumption, CallAssumption, RetryAssumption DEF SubscribeClient, StopClient, SubscribeServer, StopServer, callVars, serverVars
<1>1. TypeOK'
  <2>1. rxTask' \in [Nodes -> TaskStates]
    BY DEF IInv, TypeOK, TaskStates
  <2>2. serverTask' \in [Nodes -> TaskStates]
    BY DEF IInv, TypeOK, TaskStates
  <2> QED
    BY <2>1, <2>2 DEF IInv, TypeOK
<1>2. NetIsGenuine'
  BY DEF IInv, TypeOK, NetIsGenuine, Genuine, Malformed
<1>3. TasksAreGenuine'
  BY DEF IInv, TypeOK, TasksAreGenuine
<1>4. RepliesAreServed'
  BY DEF IInv, RepliesAreServed, Attempts
<1>5. IdsAreOwned'
  BY DEF IInv, TypeOK, IdsAreOwned
<1>6. AttemptsFollowPc'
  BY DEF IInv, TypeOK, AttemptsFollowPc, Attempts, PCs
<1>7. WaiterIsPending'
  BY DEF IInv, TypeOK, WaiterIsPending, AttemptsFollowPc
<1>8. OwnAnswer'
  BY DEF IInv, TypeOK, OwnAnswer
<1> QED
  BY <1>1, <1>2, <1>3, <1>4, <1>5, <1>6, <1>7, <1>8 DEF IInv

(* IInv is inductive.                                                      *)
LEMMA NextIInv == IInv /\ [Next]_vars => IInv'
<1> SUFFICES ASSUME IInv, [Next]_vars
             PROVE  IInv'
  OBVIOUS
<1>1. ASSUME NEW c \in Calls, Reject(c)
      PROVE  IInv'
  BY <1>1, RejectIInv
<1>2. ASSUME NEW c \in Calls, Request(c) \/ Retry(c)
      PROVE  IInv'
  BY <1>2, StartAttemptIInv DEF Request, Retry
<1>3. ASSUME NEW c \in Calls, Transmit(c)
      PROVE  IInv'
  BY <1>3, TransmitIInv
<1>4. ASSUME NEW c \in Calls,
             \/ PublishOk(c) \/ PublishErr(c) \/ TakeAnswer(c)
             \/ Expire(c) \/ Cancel(c)
      PROVE  IInv'
  BY <1>4, PublishOkIInv, PublishErrIInv, TakeAnswerIInv, ExpireIInv,
      CancelIInv
<1>5. ASSUME NEW n \in Nodes,
             \/ SubscribeClient(n) \/ StopClient(n)
             \/ SubscribeServer(n) \/ StopServer(n)
      PROVE  IInv'
  BY <1>5, ReceiverTaskIInv
<1>6. ASSUME NEW n \in Nodes, NEW m \in Methods, RegisterHandler(n, m)
      PROVE  IInv'
  BY <1>6, RegisterHandlerIInv
<1>7. ASSUME NEW n \in Nodes, NEW e \in net,
             ClientReceive(n, e) \/ ServerReceive(n, e)
      PROVE  IInv'
  BY <1>7, ClientReceiveIInv, ServerReceiveIInv
<1>8. ASSUME NEW t \in running, HandlerReturn(t)
      PROVE  IInv'
  BY <1>8, HandlerReturnIInv
<1>9. CASE UNCHANGED vars
  BY <1>9 DEF vars, IInv, TypeOK, NetIsGenuine, Genuine, TasksAreGenuine,
              RepliesAreServed, IdsAreOwned, AttemptsFollowPc, Attempts,
              WaiterIsPending, OwnAnswer
<1> QED
  BY <1>1, <1>2, <1>3, <1>4, <1>5, <1>6, <1>7, <1>8, <1>9 DEF Next, CallerStep

(* The strengthened invariant holds in every behaviour.                    *)
THEOREM Invariance == Safety => []IInv
BY InitIInv, NextIInv, PTL DEF Safety

(* Every variable keeps its type.                                          *)
THEOREM TypeCorrect == Safety => []TypeOK
<1>1. IInv => TypeOK
  BY DEF IInv
<1> QED
  BY <1>1, Invariance, PTL

(* Whatever the transport loses, repeats, delays or reorders, and however  *)
(* many calls share a broker, a caller hears only a reply that was         *)
(* computed for its own call by a handler registered for its method.       *)
THEOREM OwnAnswerTheorem == Safety => []OwnAnswer
<1>1. IInv => OwnAnswer
  BY DEF IInv
<1> QED
  BY <1>1, Invariance, PTL

(* While an attempt can be answered its sender is in the pending map, and  *)
(* once it is answered it is not: no answer is missed, none comes twice.   *)
THEOREM WaiterIsPendingTheorem == Safety => []WaiterIsPending
<1>1. IInv => WaiterIsPending
  BY DEF IInv
<1> QED
  BY <1>1, Invariance, PTL

-----------------------------------------------------------------------------
(* The retry loop and what it leaves behind.                               *)

(* Results is a set of strings that does not contain None.                 *)
LEMMA NoResult == \A r \in Results : r # None
BY NoneAssumption

(* Of n + 1 attempts at most n are neither answered nor under way when one *)
(* of them is.                                                             *)
LEMMA OtherAttempts ==
  ASSUME NEW A, IsFiniteSet(A), NEW id \in A, NEW B, B \subseteq A \ {id}
  PROVE  Cardinality(B) \in Nat /\ Cardinality(B) <= Cardinality(A) - 1
<1>1. /\ IsFiniteSet(A \ {id})
      /\ Cardinality(A \ {id}) = Cardinality(A) - 1
  BY FS_RemoveElement
<1>2. /\ IsFiniteSet(B)
      /\ Cardinality(B) <= Cardinality(A \ {id})
  BY <1>1, FS_Subset
<1> QED
  BY <1>1, <1>2, FS_CardinalityType

(* The cardinalities a call's bounds are about.                            *)
LEMMA Counts ==
  ASSUME NEW c \in Calls, IsFiniteSet(Attempts(c))
  PROVE  /\ Cardinality(Attempts(c)) \in Nat
         /\ Cardinality(Abandoned(c)) \in Nat
         /\ Cardinality(Abandoned(c)) <= Cardinality(Attempts(c))
<1>1. Abandoned(c) \in SUBSET Attempts(c)
  BY DEF Abandoned
<1> QED
  BY <1>1, FS_Subset, FS_CardinalityType

(* A step that leaves the state of call d alone keeps its bounds: entries  *)
(* of the pending map only go.                                             *)
LEMMA LoopKept ==
  ASSUME TypeOK, NEW d \in Calls, Loop(d),
         pc'[d] = pc[d], attempt'[d] = attempt[d], rid'[d] = rid[d],
         result'[d] = result[d], Attempts(d)' = Attempts(d),
         \A id \in Attempts(d) :
           pending'[Caller[d]][id] \in {pending[Caller[d]][id], None}
  PROVE  Loop(d)'
<1>1. IsFiniteSet(Attempts(d)) /\ IsFiniteSet(Attempts(d))'
  BY DEF Loop
<1>2. Abandoned(d)' \subseteq Abandoned(d)
  BY DEF Abandoned
<1>3. Abandoned(d) \subseteq Attempts(d)
  BY DEF Abandoned
<1>4. /\ Cardinality(Abandoned(d))' <= Cardinality(Abandoned(d))
      /\ Cardinality(Abandoned(d))' \in Nat
      /\ Cardinality(Abandoned(d)) \in Nat
  BY <1>1, <1>2, <1>3, FS_Subset, FS_CardinalityType
<1>5. LeakBounded(d)'
  BY <1>4 DEF Loop, LeakBounded, Cancelled, TypeOK
<1>6. RetryDisciplined(d)'
  BY DEF Loop, RetryDisciplined
<1> QED
  BY <1>1, <1>5, <1>6 DEF Loop

(* The steps of the receiver tasks, of the servers and of the transport.   *)
LEMMA LoopElsewhere ==
  ASSUME TypeOK, LoopInv, UNCHANGED <<pc, attempt, rid, result, owner>>,
         \A n \in Nodes, id \in Ids : pending'[n][id] \in {pending[n][id], None}
  PROVE  LoopInv'
<1> SUFFICES ASSUME NEW d \in Calls PROVE Loop(d)'
  BY DEF LoopInv
<1>1. Loop(d) /\ Caller[d] \in Nodes
  BY CallAssumption DEF LoopInv
<1>2. Attempts(d)' = Attempts(d) /\ Attempts(d) \subseteq Ids
  BY DEF Attempts
<1> QED
  BY <1>1, <1>2, LoopKept

(* The steps of a call that leave the pending map alone and generate no id *)
(* do not touch the other calls.                                           *)
LEMMA LoopOthers ==
  ASSUME TypeOK, LoopInv, NEW c \in Calls, UNCHANGED <<owner, pending>>,
         \A d \in Calls \ {c} :
           /\ pc'[d] = pc[d] /\ attempt'[d] = attempt[d]
           /\ rid'[d] = rid[d] /\ result'[d] = result[d],
         Loop(c)'
  PROVE  LoopInv'
<1> SUFFICES ASSUME NEW d \in Calls \ {c} PROVE Loop(d)'
  BY DEF LoopInv
<1>1. Loop(d) /\ Attempts(d)' = Attempts(d)
  BY DEF LoopInv, Attempts
<1> QED
  BY <1>1, LoopKept

(* An attempt adds one id, and its own entry is not an abandoned one.      *)
LEMMA StartAttemptLoop ==
  ASSUME IInv, LoopInv, NEW c \in Calls, StartAttempt(c),
         pc[c] \in {"idle", "sleeping"}, ClientSide(Caller[c])
  PROVE  LoopInv'
<1> USE NoneAssumption, CallAssumption, RetryAssumption
<1>0. PICK id \in {i \in Ids : owner[i] = None} :
        /\ owner' = [owner EXCEPT ![id] = c]
        /\ rid' = [rid EXCEPT ![c] = id]
        /\ pending' = [pending EXCEPT ![Caller[c]][id] = c]
  BY DEF StartAttempt
<1>1. /\ UNCHANGED <<attempt, result>>
      /\ pc' = [pc EXCEPT ![c] = "publishing"]
  BY DEF StartAttempt
<1>2. Loop(c) /\ rid[c] = None /\ pc[c] # "done"
  BY DEF LoopInv, IInv, TypeOK, AttemptsFollowPc
<1>3. Attempts(c)' = Attempts(c) \cup {id} /\ id \notin Attempts(c)
  BY <1>0 DEF IInv, TypeOK, Attempts
<1>4. /\ IsFiniteSet(Attempts(c))'
      /\ Cardinality(Attempts(c))' = attempt[c] + 1
  <2>1. IsFiniteSet(Attempts(c)) /\ Cardinality(Attempts(c)) = attempt[c]
    BY <1>2 DEF Loop
  <2>2. /\ IsFiniteSet(Attempts(c) \cup {id})
        /\ Cardinality(Attempts(c) \cup {id}) = Cardinality(Attempts(c)) + 1
    BY <1>3, <2>1, FS_AddElement
  <2> QED
    BY <1>3, <2>1, <2>2
<1>5. Abandoned(c)' \subseteq Attempts(c)' \ {id}
  BY <1>0 DEF Abandoned, IInv, TypeOK
<1>6. Cardinality(Abandoned(c))' \in Nat /\ Cardinality(Abandoned(c))' <= attempt[c]
  <2>1. id \in Attempts(c)' /\ attempt[c] \in Nat
    BY <1>3 DEF IInv, TypeOK
  <2>2. /\ Cardinality(Abandoned(c)') \in Nat
        /\ Cardinality(Abandoned(c)') <= Cardinality(Attempts(c)') - 1
    BY <1>4, <1>5, <2>1, OtherAttempts
  <2> QED
    BY <1>4, <2>1, <2>2
<1>7. Loop(c)'
  <2>1. result'[c] = None /\ pc'[c] = "publishing" /\ rid'[c] # None
    BY <1>0, <1>1, <1>2 DEF IInv, TypeOK, Loop
  <2>2. attempt[c] \in Nat /\ attempt[c] <= IF RetryConfigured THEN MaxAttempts ELSE 0
    BY <1>2 DEF IInv, TypeOK, Loop
  <2>3. RetryDisciplined(c)'
    BY <1>4, <2>1, <2>2, NoResult DEF RetryDisciplined, Results
  <2>4. LeakBounded(c)'
    BY <1>1, <1>6, <2>1, NoResult DEF LeakBounded, Cancelled, Results
  <2> QED
    BY <1>1, <1>4, <2>1, <2>2, <2>3, <2>4 DEF Loop
<1>8. ASSUME NEW d \in Calls, d # c
      PROVE  Loop(d)'
  <2>1. Loop(d) /\ Attempts(d)' = Attempts(d) /\ id \notin Attempts(d)
    BY <1>0, <1>8 DEF IInv, TypeOK, LoopInv, Attempts
  <2>2. /\ pc'[d] = pc[d] /\ attempt'[d] = attempt[d]
        /\ rid'[d] = rid[d] /\ result'[d] = result[d]
    BY <1>0, <1>1, <1>8 DEF IInv, TypeOK
  <2>3. \A i \in Attempts(d) : pending'[Caller[d]][i] = pending[Caller[d]][i]
    BY <1>0, <2>1 DEF IInv, TypeOK, Attempts
  <2> QED
    BY <2>1, <2>2, <2>3, LoopKept DEF IInv
<1> QED
  BY <1>7, <1>8 DEF LoopInv

(* A refused call has generated no id.                                     *)
LEMMA RejectLoop ==
  ASSUME IInv, LoopInv, NEW c \in Calls, Reject(c)
  PROVE  LoopInv'
<1> USE RetryAssumption
<1>1. Attempts(c) = {} /\ Attempts(c)' = {} /\ Abandoned(c)' = {}
  BY DEF Reject, IInv, AttemptsFollowPc, Attempts, Abandoned
<1>2. /\ pc'[c] = "done" /\ attempt'[c] \in Nat
      /\ result'[c] \in {"InvalidMode", "Serialization"}
  BY DEF Reject, IInv, TypeOK
<1>3. Loop(c)'
  BY <1>1, <1>2, FS_EmptySet, NoResult
     DEF Loop, RetryDisciplined, LeakBounded, Cancelled, Results
<1> QED
  BY <1>3, LoopOthers DEF Reject, IInv, TypeOK

(* How a call ends does not change what it has sent.                       *)
LEMMA EndDisciplined ==
  ASSUME IInv, NEW c \in Calls, Loop(c), pc[c] # "done", UNCHANGED owner,
         \/ result'[c] \in {None, "Ok", "Serialization", "Transport"}
         \/ result'[c] = "Timeout" /\ ~RetryConfigured
         \/ /\ result'[c] = "TransportRetryable"
            /\ RetryConfigured /\ Exhausted(c) /\ rid[c] # None
  PROVE  RetryDisciplined(c)'
<1> USE RetryAssumption
<1>1. Attempts(c)' = Attempts(c)
  BY DEF Attempts
<1>2. attempt[c] \in Nat
  BY DEF IInv, TypeOK
<1>3. /\ attempt[c] <= IF RetryConfigured THEN MaxAttempts ELSE 0
      /\ Cardinality(Attempts(c)) =
           IF rid[c] = None THEN attempt[c] ELSE attempt[c] + 1
      /\ ~ClientSide(Caller[c]) => Attempts(c) = {}
  BY DEF Loop, RetryDisciplined
<1>4. /\ Cardinality(Attempts(c)) <= IF RetryConfigured THEN MaxAttempts + 1 ELSE 1
      /\ result'[c] = "TransportRetryable" =>
           RetryConfigured /\ Cardinality(Attempts(c)) = MaxAttempts + 1
  BY <1>2, <1>3, NoResult DEF Exhausted, Results
<1>5. result'[c] = "Timeout" => ~RetryConfigured
  BY NoResult DEF Results
<1> QED
  BY <1>1, <1>3, <1>4, <1>5 DEF RetryDisciplined

(* publish() returns and the attempt waits: nothing is abandoned.          *)
LEMMA PublishOkLoop ==
  ASSUME IInv, LoopInv, NEW c \in Calls, PublishOk(c)
  PROVE  LoopInv'
<1>1. Loop(c) /\ pc[c] = "publishing" /\ pc'[c] = "waiting"
  BY DEF LoopInv, PublishOk, IInv, TypeOK
<1>2. /\ Attempts(c)' = Attempts(c) /\ Abandoned(c)' = Abandoned(c)
      /\ UNCHANGED <<attempt, rid, result>>
  BY DEF PublishOk, Attempts, Abandoned
<1>3. Loop(c)'
  BY <1>1, <1>2 DEF Loop, RetryDisciplined, LeakBounded, Cancelled
<1> QED
  BY <1>2, <1>3, LoopOthers DEF PublishOk, IInv, TypeOK

(* A call that ends in the middle of an attempt, or while it sleeps, leaves *)
(* one entry for each attempt at most.                                     *)
LEMMA BreakOffLoop ==
  ASSUME IInv, LoopInv, NEW c \in Calls, PublishErr(c) \/ Cancel(c)
  PROVE  LoopInv'
<1>1. /\ Loop(c) /\ pc[c] # "done" /\ pc'[c] = "done"
      /\ UNCHANGED <<attempt, owner, pending>>
      /\ attempt[c] \in Nat
  BY DEF LoopInv, PublishErr, Cancel, IInv, TypeOK
<1>2. result'[c] \in {None, "Transport"}
  BY <1>1 DEF Loop, PublishErr, Cancel, IInv, TypeOK
<1>3. RetryDisciplined(c)'
  BY <1>1, <1>2, EndDisciplined
<1>4. Attempts(c)' = Attempts(c) /\ IsFiniteSet(Attempts(c))'
  BY <1>1 DEF Attempts, Loop
<1>5. /\ Cardinality(Attempts(c))' \in Nat
      /\ Cardinality(Abandoned(c))' \in Nat
      /\ Cardinality(Abandoned(c))' <= Cardinality(Attempts(c))'
  <2>1. Abandoned(c)' \in SUBSET Attempts(c)'
    BY DEF Abandoned
  <2> QED
    BY <1>4, <2>1, FS_Subset, FS_CardinalityType
<1>6. Cardinality(Attempts(c))' <= attempt[c] + 1
  BY <1>1, <1>4 DEF Loop
<1>7. LeakBounded(c)'
  BY <1>1, <1>2, <1>5, <1>6 DEF LeakBounded, Cancelled
<1>8. Loop(c)'
  BY <1>1, <1>3, <1>4, <1>7 DEF Loop
<1> QED
  BY <1>1, <1>8, LoopOthers DEF PublishErr, Cancel, IInv, TypeOK

(* The answered attempt's entry is gone when its call returns.             *)
LEMMA TakeAnswerLoop ==
  ASSUME IInv, LoopInv, NEW c \in Calls, TakeAnswer(c)
  PROVE  LoopInv'
<1>1. /\ Loop(c) /\ pc[c] = "waiting" /\ pc'[c] = "done"
      /\ UNCHANGED <<attempt, owner, pending>>
      /\ attempt[c] \in Nat
      /\ result'[c] \in {"Ok", "Serialization"}
  BY DEF LoopInv, TakeAnswer, IInv, TypeOK
<1>2. RetryDisciplined(c)'
  BY <1>1, EndDisciplined
<1>3. Attempts(c)' = Attempts(c) /\ IsFiniteSet(Attempts(c))'
  BY <1>1 DEF Attempts, Loop
<1>4. /\ rid[c] # None /\ rid[c] \in Attempts(c)
      /\ pending[Caller[c]][rid[c]] = None
  BY <1>1 DEF IInv, TypeOK, AttemptsFollowPc, IdsAreOwned, WaiterIsPending,
              Attempts, TakeAnswer
<1>5. Abandoned(c)' \subseteq Attempts(c)' \ {rid[c]}
  BY <1>1, <1>3, <1>4 DEF Abandoned
<1>6. /\ Cardinality(Abandoned(c)') \in Nat
      /\ Cardinality(Abandoned(c)') <= Cardinality(Attempts(c)') - 1
  BY <1>3, <1>4, <1>5, OtherAttempts
<1>7. Cardinality(Attempts(c)') = attempt[c] + 1
  BY <1>1, <1>3, <1>4 DEF Loop
<1>8. LeakBounded(c)'
  BY <1>1, <1>6, <1>7, NoResult DEF LeakBounded, Cancelled, Results
<1>9. Loop(c)'
  BY <1>1, <1>2, <1>3, <1>8 DEF Loop
<1> QED
  BY <1>1, <1>9, LoopOthers DEF TakeAnswer, IInv, TypeOK

(* An expired attempt is counted, and its entry is the one that is added   *)
(* to the abandoned ones.                                                  *)
LEMMA ExpireLoop ==
  ASSUME IInv, LoopInv, NEW c \in Calls, Expire(c)
  PROVE  LoopInv'
<1> USE RetryAssumption
<1>1. /\ Loop(c) /\ pc[c] = "waiting" /\ rid[c] # None /\ rid'[c] = None
      /\ UNCHANGED <<owner, pending>>
      /\ attempt[c] \in Nat
  BY DEF LoopInv, Expire, Overdue, IInv, TypeOK, AttemptsFollowPc
<1>2. Attempts(c)' = Attempts(c) /\ IsFiniteSet(Attempts(c))'
  BY <1>1 DEF Attempts, Loop
<1>3. /\ Cardinality(Attempts(c))' = attempt[c] + 1
      /\ result[c] = None
      /\ attempt[c] <= IF RetryConfigured THEN MaxAttempts ELSE 0
  BY <1>1, <1>2 DEF Loop
<1>4. /\ Cardinality(Abandoned(c))' \in Nat
      /\ Cardinality(Abandoned(c))' <= attempt[c] + 1
  <2>1. Abandoned(c)' \in SUBSET Attempts(c)'
    BY DEF Abandoned
  <2> QED
    BY <1>2, <1>3, <2>1, FS_Subset, FS_CardinalityType
<1>5. CASE ~RetryConfigured
  <2>1. /\ pc'[c] = "done" /\ result'[c] = "Timeout" /\ attempt'[c] = attempt[c]
    BY <1>5 DEF Expire, GiveUp, IInv, TypeOK
  <2>2. RetryDisciplined(c)'
    BY <1>1, <1>5, <2>1, EndDisciplined
  <2>3. LeakBounded(c)'
    <3>1. attempt[c] = 0 /\ Cardinality(Abandoned(c))' <= 1
      BY <1>1, <1>3, <1>4, <1>5
    <3>2. result'[c] # None
      BY <2>1, NoResult DEF Results
    <3> QED
      BY <2>1, <3>1, <3>2 DEF LeakBounded, Cancelled
  <2>4. Loop(c)'
    BY <1>2, <2>1, <2>2, <2>3 DEF Loop
  <2> QED
    BY <1>1, <2>4, LoopOthers DEF Expire, GiveUp, IInv, TypeOK
<1>6. CASE RetryConfigured /\ pc'[c] = "done"
  <2>1. /\ Exhausted(c) /\ result'[c] = "TransportRetryable"
        /\ attempt'[c] = attempt[c] + 1
    BY <1>6 DEF Expire, GiveUp, IInv, TypeOK
  <2>2. RetryDisciplined(c)'
    BY <1>1, <1>6, <2>1, EndDisciplined
  <2>3. LeakBounded(c)'
    BY <1>4, <2>1, NoResult DEF LeakBounded, Cancelled, Results
  <2>4. Loop(c)'
    BY <1>2, <1>6, <2>2, <2>3 DEF Loop
  <2> QED
    BY <1>1, <2>4, LoopOthers DEF Expire, GiveUp, IInv, TypeOK
<1>7. CASE RetryConfigured /\ pc'[c] # "done"
  <2>1. /\ ~Exhausted(c) /\ pc'[c] = "sleeping" /\ result'[c] = result[c]
        /\ attempt'[c] = attempt[c] + 1
    BY <1>7 DEF Expire, GiveUp, IInv, TypeOK
  <2>2. RetryDisciplined(c)'
    BY <1>1, <1>3, <2>1, EndDisciplined
  <2>3. LeakBounded(c)'
    BY <1>3, <1>4, <2>1, NoResult DEF LeakBounded, Cancelled, Results
  <2>4. attempt'[c] <= MaxAttempts
    BY <1>1, <2>1 DEF Exhausted
  <2>5. Loop(c)'
    BY <1>1, <1>2, <1>3, <1>7, <2>1, <2>2, <2>3, <2>4 DEF Loop
  <2> QED
    BY <1>1, <2>5, LoopOthers DEF Expire, GiveUp, IInv, TypeOK
<1> QED
  BY <1>5, <1>6, <1>7

LEMMA InitLoop == Init => LoopInv
<1> SUFFICES ASSUME Init, NEW c \in Calls PROVE Loop(c)
  BY DEF LoopInv
<1> USE RetryAssumption
<1>1. Attempts(c) = {} /\ Abandoned(c) = {}
  BY NoneAssumption DEF Init, Attempts, Abandoned
<1>2. result[c] = None /\ rid[c] = None /\ attempt[c] = 0 /\ pc[c] = "idle"
  BY DEF Init
<1> QED
  BY <1>1, <1>2, FS_EmptySet, NoResult
     DEF Loop, RetryDisciplined, LeakBounded, Cancelled, Results

(* With IInv, which knows whose the ids are, LoopInv is inductive.         *)
LEMMA NextLoop == IInv /\ LoopInv /\ [Next]_vars => LoopInv'
<1> SUFFICES ASSUME IInv, LoopInv, [Next]_vars
             PROVE  LoopInv'
  OBVIOUS
<1>0. TypeOK
  BY DEF IInv
<1>1. ASSUME NEW c \in Calls, Request(c) \/ Retry(c)
      PROVE  LoopInv'
  <2>1. pc[c] = "sleeping" => ClientSide(Caller[c])
    BY DEF IInv, AttemptsFollowPc, LoopInv, Loop, RetryDisciplined
  <2> QED
    BY <1>1, <2>1, StartAttemptLoop DEF Request, Retry
<1>2. ASSUME NEW c \in Calls,
             \/ Reject(c) \/ Cancel(c) \/ PublishOk(c) \/ PublishErr(c)
             \/ TakeAnswer(c) \/ Expire(c)
      PROVE  LoopInv'
  BY <1>2, RejectLoop, BreakOffLoop, PublishOkLoop, TakeAnswerLoop, ExpireLoop
<1>3. ASSUME NEW c \in Calls, Transmit(c)
      PROVE  LoopInv'
  BY <1>0, <1>3, LoopElsewhere DEF Transmit, callVars
<1>4. ASSUME NEW n \in Nodes,
             \/ SubscribeClient(n) \/ StopClient(n)
             \/ SubscribeServer(n) \/ StopServer(n)
             \/ \E m \in Methods : RegisterHandler(n, m)
             \/ \E e \in net : ServerReceive(n, e)
      PROVE  LoopInv'
  <2>1. UNCHANGED <<pc, attempt, rid, result, owner, pending>>
    BY <1>4 DEF SubscribeClient, StopClient, SubscribeServer, StopServer,
                RegisterHandler, ServerReceive, callVars
  <2> QED
    BY <1>0, <2>1, LoopElsewhere
<1>5. ASSUME NEW n \in Nodes, NEW e \in net, ClientReceive(n, e)
      PROVE  LoopInv'
  <2>1. UNCHANGED <<pc, attempt, rid, result, owner>>
    BY <1>5 DEF ClientReceive
  <2>2. \/ pending' = pending
        \/ e.id \in Ids /\ pending' = [pending EXCEPT ![n][e.id] = None]
    BY <1>0, <1>5 DEF ClientReceive, Removed, TypeOK, Envelope
  <2>3. ASSUME NEW m \in Nodes, NEW id \in Ids
        PROVE  pending'[m][id] \in {pending[m][id], None}
    BY <1>0, <2>2 DEF TypeOK
  <2> QED
    BY <1>0, <2>1, <2>3, LoopElsewhere
<1>6. ASSUME NEW t \in running, HandlerReturn(t)
      PROVE  LoopInv'
  BY <1>0, <1>6, LoopElsewhere DEF HandlerReturn, callVars
<1>7. CASE UNCHANGED vars
  BY <1>0, <1>7, LoopElsewhere DEF vars
<1> QED
  BY <1>1, <1>2, <1>3, <1>4, <1>5, <1>6, <1>7 DEF Next, CallerStep

(* The loop invariant holds in every behaviour.                            *)
THEOREM LoopInvariance == Safety => []LoopInv
BY InitLoop, NextLoop, Invariance, PTL DEF Safety

(* However its attempts end and whatever arrives late, a call is sent at   *)
(* most max_attempts + 1 times, once without a retry configuration, and    *)
(* gives up as retryable only after all of them.                           *)
THEOREM RetryDisciplineTheorem == Safety => []RetryDiscipline
<1>1. LoopInv => RetryDiscipline
  BY DEF LoopInv, Loop, RetryDiscipline
<1> QED
  BY <1>1, LoopInvariance, PTL

(* What a call leaves in the pending map for good is at most an entry for  *)
(* each attempt that expired, and one for an attempt that was broken off.  *)
THEOREM LeakIsBoundedTheorem == Safety => []LeakIsBounded
<1>1. LoopInv => LeakIsBounded
  BY DEF LoopInv, Loop, LeakIsBounded
<1> QED
  BY <1>1, LoopInvariance, PTL

(* What a channel holds changes only when an answer finds it empty, or     *)
(* when its call is broken off.                                            *)
LEMMA AnswerSteps ==
  ASSUME IInv, LoopInv, [Next]_vars, NEW c \in Calls,
         answer[c] # None, answer'[c] # answer[c]
  PROVE  /\ answer'[c] = None
         /\ pc'[c] = "done" /\ result'[c] \in {"Transport", None}
<1>1. ASSUME NEW d \in Calls, PublishErr(d) \/ Cancel(d)
      PROVE  /\ answer'[c] = None
             /\ pc'[c] = "done" /\ result'[c] \in {"Transport", None}
  <2>1. d = c /\ answer'[c] = None /\ pc'[c] = "done" /\ pc[c] # "done"
    BY <1>1 DEF PublishErr, Cancel, IInv, TypeOK
  <2>2. result[c] = None
    BY <2>1 DEF LoopInv, Loop
  <2> QED
    BY <1>1, <2>1, <2>2 DEF PublishErr, Cancel, IInv, TypeOK
<1>2. ASSUME NEW n \in Nodes, NEW e \in net, ClientReceive(n, e)
      PROVE  FALSE
  <2>1. e.id \in Ids /\ Hears(c, n, e.id)
    BY <1>2 DEF ClientReceive, IInv, TypeOK, Envelope
  <2>2. rid[c] = e.id /\ rid[c] # None /\ pending[n][rid[c]] = c
    BY <2>1, NoneAssumption DEF Hears
  <2>3. Caller[c] = n
    BY <2>1, <2>2, NoneAssumption DEF IInv, IdsAreOwned
  <2> QED
    BY <2>2, <2>3, NoneAssumption DEF IInv, WaiterIsPending
<1>3. ASSUME UNCHANGED answer
      PROVE  FALSE
  BY <1>3
<1>4. ASSUME NEW d \in Calls,
             \/ Reject(d) \/ Request(d) \/ Retry(d) \/ Transmit(d)
             \/ PublishOk(d) \/ TakeAnswer(d) \/ Expire(d)
      PROVE  UNCHANGED answer
  BY <1>4 DEF Reject, Request, Retry, StartAttempt, Transmit, PublishOk,
              TakeAnswer, Expire, callVars
<1>5. ASSUME NEW n \in Nodes,
             \/ SubscribeClient(n) \/ StopClient(n)
             \/ SubscribeServer(n) \/ StopServer(n)
             \/ \E m \in Methods : RegisterHandler(n, m)
             \/ \E e \in net : ServerReceive(n, e)
      PROVE  UNCHANGED answer
  BY <1>5 DEF SubscribeClient, StopClient, SubscribeServer, StopServer,
              RegisterHandler, ServerReceive, callVars
<1>6. ASSUME NEW t \in running, HandlerReturn(t)
      PROVE  UNCHANGED answer
  BY <1>6 DEF HandlerReturn, callVars
<1> QED
  BY <1>1, <1>2, <1>3, <1>4, <1>5, <1>6 DEF Next, CallerStep, vars

(* Of several responses to one attempt, in whatever order they come, the   *)
(* first is the one the caller gets.                                       *)
THEOREM FirstAnswerWinsTheorem == Safety => FirstAnswerWins
<1>1. IInv /\ LoopInv /\ [Next]_vars =>
        [\A c \in Calls :
           answer[c] # None /\ answer'[c] # answer[c] =>
             /\ answer'[c] = None
             /\ pc'[c] = "done" /\ result'[c] \in {"Transport", None}]_vars
  BY AnswerSteps
<1> QED
  BY <1>1, Invariance, LoopInvariance, PTL DEF Safety, FirstAnswerWins


-----------------------------------------------------------------------------
(* The RPC layer implements the abstract service: every step of RpcBroker  *)
(* is a step of RpcService or changes nothing a program can see.           *)

(* The parts of the service's state a step leaves alone.                   *)
LEMMA SameOwners ==
  ASSUME UNCHANGED owner
  PROVE  UNCHANGED Submitted
BY DEF Submitted, Attempts

LEMMA SamePcs ==
  ASSUME UNCHANGED pc
  PROVE  UNCHANGED Phase
BY DEF Phase

(* A step of one call's pc is a step of its phase.                         *)
LEMMA PhaseStep ==
  ASSUME TypeOK, NEW c \in Calls, NEW s \in PCs, pc' = [pc EXCEPT ![c] = s]
  PROVE  Phase' = [Phase EXCEPT ![c] = IF s = "idle" THEN "idle"
                                       ELSE IF s = "done" THEN "returned"
                                       ELSE "active"]
BY DEF TypeOK, Phase

LEMMA InitRefines == Init => Service!Init
BY NoneAssumption
   DEF Init, Service!Init, Phase, Submitted, Attempts

LEMMA RejectRefines ==
  ASSUME IInv, NEW c \in Calls, Reject(c)
  PROVE  Service!Refuse(c)
<1>1. Phase' = [Phase EXCEPT ![c] = "returned"]
  BY PhaseStep DEF Reject, IInv, PCs
<1>2. UNCHANGED <<Submitted, replies, answer>>
  BY SameOwners DEF Reject, serverVars
<1>3. Phase[c] = "idle"
  BY DEF Reject, Phase
<1>4. \E e \in Service!Refusals : result' = [result EXCEPT ![c] = e]
  BY DEF Reject, Service!Refusals
<1> QED
  BY <1>1, <1>2, <1>3, <1>4 DEF Service!Refuse

(* The first attempt submits the call; later ones change nothing.          *)
LEMMA StartAttemptRefines ==
  ASSUME IInv, NEW c \in Calls, StartAttempt(c), pc[c] \in {"idle", "sleeping"}
  PROVE  Service!Submit(c) \/ UNCHANGED Service!vars
<1>1. Phase' = [Phase EXCEPT ![c] = "active"]
  BY PhaseStep DEF StartAttempt, IInv, PCs
<1>2. UNCHANGED <<replies, result, answer>>
  BY DEF StartAttempt, serverVars
<1>3. PICK id \in Ids : owner[id] = None /\ owner' = [owner EXCEPT ![id] = c]
  BY DEF StartAttempt
<1>4. Submitted' = Submitted \cup {c}
  <2>1. \A d \in Calls : Attempts(d)' =
          IF d = c THEN Attempts(d) \cup {id} ELSE Attempts(d)
    BY <1>3, NoneAssumption DEF IInv, TypeOK, Attempts
  <2> QED
    BY <2>1 DEF Submitted
<1>5. CASE pc[c] = "idle"
  BY <1>1, <1>2, <1>4, <1>5 DEF Service!Submit, Phase
<1>6. CASE pc[c] = "sleeping"
  <2>1. c \in Submitted
    BY <1>6 DEF IInv, AttemptsFollowPc, Submitted
  <2>2. Phase[c] = "active" /\ Phase \in [Calls -> {"idle", "returned", "active"}]
    BY <1>6 DEF Phase
  <2>3. Phase' = Phase
    BY <1>1, <2>2
  <2> QED
    BY <1>2, <1>4, <2>1, <2>3 DEF Service!vars
<1> QED
  BY <1>5, <1>6

LEMMA PublishOkRefines ==
  ASSUME IInv, NEW c \in Calls, PublishOk(c)
  PROVE  UNCHANGED Service!vars
<1>1. Phase' = Phase
  BY DEF PublishOk, IInv, TypeOK, Phase
<1> QED
  BY <1>1, SameOwners DEF PublishOk, serverVars, Service!vars

LEMMA PublishErrRefines ==
  ASSUME IInv, NEW c \in Calls, PublishErr(c)
  PROVE  Service!ReturnError(c)
<1>1. Phase' = [Phase EXCEPT ![c] = "returned"] /\ Phase[c] = "active"
  BY PhaseStep DEF PublishErr, IInv, PCs, Phase
<1>2. UNCHANGED <<Submitted, replies>>
  BY SameOwners DEF PublishErr, serverVars
<1> QED
  BY <1>1, <1>2 DEF PublishErr, Service!ReturnError, Service!Failures

LEMMA CancelRefines ==
  ASSUME IInv, NEW c \in Calls, Cancel(c)
  PROVE  Service!Abandon(c)
<1>1. Phase' = [Phase EXCEPT ![c] = "returned"] /\ Phase[c] = "active"
  BY PhaseStep DEF Cancel, IInv, PCs, Phase
<1>2. UNCHANGED <<Submitted, replies>>
  BY SameOwners DEF Cancel, serverVars
<1> QED
  BY <1>1, <1>2 DEF Cancel, Service!Abandon

LEMMA TakeAnswerRefines ==
  ASSUME IInv, NEW c \in Calls, TakeAnswer(c)
  PROVE  Service!ReturnOk(c) \/ Service!ReturnError(c)
<1>1. Phase' = [Phase EXCEPT ![c] = "returned"] /\ Phase[c] = "active"
  BY PhaseStep DEF TakeAnswer, IInv, PCs, Phase
<1>2. UNCHANGED <<Submitted, replies, answer>>
  BY SameOwners DEF TakeAnswer, serverVars
<1>3. CASE result' = [result EXCEPT ![c] = "Ok"]
  BY <1>1, <1>2, <1>3 DEF TakeAnswer, Service!ReturnOk
<1>4. CASE result' = [result EXCEPT ![c] = "Serialization"]
  <2>1. answer' = [answer EXCEPT ![c] = answer[c]]
    BY <1>2 DEF IInv, TypeOK
  <2> QED
    BY <1>1, <1>2, <1>4, <2>1
       DEF TakeAnswer, Service!ReturnError, Service!Failures
<1> QED
  BY <1>3, <1>4 DEF TakeAnswer

(* An expired attempt ends the call, unanswered, or is invisible.          *)
LEMMA ExpireRefines ==
  ASSUME IInv, NEW c \in Calls, Expire(c)
  PROVE  Service!ReturnError(c) \/ UNCHANGED Service!vars
<1>1. UNCHANGED <<Submitted, replies, answer>>
  BY SameOwners DEF Expire, serverVars
<1>2. Phase[c] = "active" /\ answer[c] = None
  BY DEF Expire, Overdue, Phase
<1>3. ASSUME NEW e \in {"Timeout", "TransportRetryable"}, GiveUp(c, e)
      PROVE  Service!ReturnError(c)
  <2>1. Phase' = [Phase EXCEPT ![c] = "returned"]
    BY <1>3, PhaseStep DEF GiveUp, IInv, PCs
  <2>2. answer' = [answer EXCEPT ![c] = None]
    BY <1>1, <1>2 DEF IInv, TypeOK
  <2> QED
    BY <1>1, <1>2, <1>3, <2>1, <2>2
       DEF GiveUp, Service!ReturnError, Service!Failures
<1>4. CASE pc' = [pc EXCEPT ![c] = "sleeping"] /\ UNCHANGED result
  <2>1. Phase' = Phase
    BY <1>4 DEF Expire, Overdue, IInv, TypeOK, Phase
  <2> QED
    BY <1>1, <1>4, <2>1 DEF Service!vars
<1> QED
  BY <1>3, <1>4 DEF Expire

(* A response is heard by at most one caller, the one that owns its id.    *)
LEMMA ClientReceiveRefines ==
  ASSUME IInv, IInv', NEW n \in Nodes, NEW e \in net, ClientReceive(n, e)
  PROVE  (\E c \in Calls : Service!Hear(c)) \/ UNCHANGED Service!vars
<1>1. UNCHANGED <<Phase, Submitted, replies, result>>
  BY SameOwners, SamePcs DEF ClientReceive, serverVars
<1>2. CASE e.id # None /\ \E c \in Calls : Hears(c, n, e.id)
  <2>1. PICK c \in Calls : Hears(c, n, e.id)
    BY <1>2
  <2>2. \A d \in Calls : Hears(d, n, e.id) => d = c
    BY <2>1 DEF Hears
  <2>3. rid[c] # None /\ pending[Caller[c]][rid[c]] = c
    <3>1. rid[c] = e.id /\ rid[c] \in Ids /\ pending[n][e.id] = c
      BY <1>2, <2>1 DEF Hears, IInv, TypeOK
    <3>2. Caller[c] = n
      BY <3>1, NoneAssumption DEF IInv, IdsAreOwned
    <3> QED
      BY <1>2, <3>1, <3>2
  <2>4. answer[c] = None /\ Phase[c] = "active"
    <3>1. answer[c] = None
      BY <2>3, NoneAssumption DEF IInv, WaiterIsPending
    <3>2. pc[c] \in {"publishing", "waiting"}
      BY <2>3 DEF IInv, AttemptsFollowPc
    <3> QED
      BY <3>1, <3>2 DEF Phase
  <2>5. answer' = [answer EXCEPT ![c] = [call |-> e.call, value |-> e.value]]
    BY <1>2, <2>1, <2>2 DEF ClientReceive, IInv, TypeOK
  <2>6. answer'[c] = [call |-> e.call, value |-> e.value]
    BY <2>5 DEF IInv, TypeOK
  <2>7. answer'[c] # None
    BY <1>2, <2>6, NoneAssumption, AddressForm DEF ClientReceive, IInv,
       TypeOK, NetIsGenuine, Genuine, Malformed
  <2>8. answer'[c] \in replies /\ answer'[c].call = c
    BY <1>1, <2>7 DEF IInv, OwnAnswer
  <2> QED
    BY <1>1, <2>4, <2>5, <2>6, <2>8 DEF Service!Hear
<1>3. CASE ~(e.id # None /\ \E c \in Calls : Hears(c, n, e.id))
  <2>1. answer' = answer
    BY <1>3 DEF ClientReceive, IInv, TypeOK
  <2> QED
    BY <1>1, <2>1 DEF Service!vars
<1> QED
  BY <1>2, <1>3

(* A handler's reply is an execution of a call that was submitted.         *)
LEMMA HandlerReturnRefines ==
  ASSUME IInv, NEW t \in running, HandlerReturn(t)
  PROVE  (\E c \in Calls : Service!Execute(c)) \/ UNCHANGED Service!vars
<1>1. UNCHANGED <<Phase, Submitted, result, answer>>
  BY SameOwners, SamePcs DEF HandlerReturn, callVars
<1>2. t.call \in Calls /\ t.call \in Submitted
  BY DEF IInv, TypeOK, Task, TasksAreGenuine, Submitted, Attempts
<1>3. CASE \E v \in Values : replies' = replies \cup {[call |-> t.call, value |-> v]}
  BY <1>1, <1>2, <1>3 DEF Service!Execute
<1>4. CASE UNCHANGED replies
  BY <1>1, <1>4 DEF Service!vars
<1> QED
  BY <1>3, <1>4 DEF HandlerReturn

LEMMA NextRefines ==
  IInv /\ IInv' /\ [Next]_vars => [Service!Next]_(Service!vars)
<1> SUFFICES ASSUME IInv, IInv', [Next]_vars
             PROVE  Service!Next \/ UNCHANGED Service!vars
  OBVIOUS
<1>1. ASSUME NEW c \in Calls, Reject(c)
      PROVE  Service!Next
  BY <1>1, RejectRefines DEF Service!Next
<1>2. ASSUME NEW c \in Calls, Request(c) \/ Retry(c)
      PROVE  Service!Next \/ UNCHANGED Service!vars
  BY <1>2, StartAttemptRefines DEF Request, Retry, Service!Next
<1>3. ASSUME NEW c \in Calls, PublishOk(c) \/ PublishErr(c) \/ Cancel(c)
      PROVE  Service!Next \/ UNCHANGED Service!vars
  BY <1>3, PublishOkRefines, PublishErrRefines, CancelRefines
     DEF Service!Next
<1>4. ASSUME NEW c \in Calls, TakeAnswer(c) \/ Expire(c)
      PROVE  Service!Next \/ UNCHANGED Service!vars
  BY <1>4, TakeAnswerRefines, ExpireRefines DEF Service!Next
<1>5. ASSUME NEW n \in Nodes, NEW e \in net, ClientReceive(n, e)
      PROVE  Service!Next \/ UNCHANGED Service!vars
  BY <1>5, ClientReceiveRefines DEF Service!Next
<1>6. ASSUME NEW t \in running, HandlerReturn(t)
      PROVE  Service!Next \/ UNCHANGED Service!vars
  BY <1>6, HandlerReturnRefines DEF Service!Next
<1>7. CASE UNCHANGED <<pc, owner, replies, result, answer>>
  BY <1>7, SameOwners, SamePcs DEF Service!vars
<1>8. ASSUME NEW c \in Calls, Transmit(c)
      PROVE  UNCHANGED <<pc, owner, replies, result, answer>>
  BY <1>8 DEF Transmit, callVars, serverVars
<1>9. ASSUME NEW n \in Nodes,
             \/ SubscribeClient(n) \/ StopClient(n)
             \/ SubscribeServer(n) \/ StopServer(n)
             \/ \E m \in Methods : RegisterHandler(n, m)
             \/ \E e \in net : ServerReceive(n, e)
      PROVE  UNCHANGED <<pc, owner, replies, result, answer>>
  BY <1>9 DEF SubscribeClient, StopClient, SubscribeServer, StopServer,
              RegisterHandler, ServerReceive, callVars, serverVars
<1> QED
  BY <1>1, <1>2, <1>3, <1>4, <1>5, <1>6, <1>7, <1>8, <1>9
     DEF Next, CallerStep, vars

(* Every behaviour of the RPC layer is one of the service: a call returns  *)
(* at most once, with a reply computed for it if it returns Ok, and with   *)
(* no timeout error once it was answered.                                  *)
THEOREM Refinement == Safety => Service!Safety
BY InitRefines, NextRefines, Invariance, PTL DEF Safety, Service!Safety
=============================================================================

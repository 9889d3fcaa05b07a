-------------------------- MODULE MqttActorProofs --------------------------
(***************************************************************************)
(* Theorems about MqttActor, for any number of calls, topics, lost         *)
(* connections and places in the request channel.                          *)
(***************************************************************************)
EXTENDS MqttActor, SequenceTheorems, TLAPS

(* What the actor has in hand goes with what it is doing; a stopped actor  *)
(* has no connection.                                                      *)
ActorInv ==
  /\ actor = "calling" <=> current # None
  /\ actor = "resubscribing" <=> todo # {}
  /\ actor = "stopped" => pending_subscribe = None /\ link = "down"
  /\ current \in SubscribeCalls => current = pending_subscribe
  /\ ~reconnect => todo = {}
  /\ reconnect <=> "disconnect" \in errors

(* A subscribe() that is queued, in flight, told to retry or confirmed has *)
(* entered its topic in the map, and the map forgets nothing.              *)
EnrolledInv ==
  \A x \in SubscribeCalls :
    \/ x \in ToSet(commands)
    \/ x = pending_subscribe
    \/ pc[x] \in {"retrying", "ok"}
    => Topic[x] \in topics

(* A queue of requests without a SUBSCRIBE, and one that has at most one,  *)
(* for topic t.                                                            *)
Quiet(q) == \A i \in DOMAIN q : q[i][1] # "subscribe"
OnlyFor(q, t) ==
  \A i, j \in DOMAIN q :
    q[i][1] = "subscribe" /\ q[j][1] = "subscribe" => i = j /\ q[i][2] = t

(* While re-subscribing is off, one SUBSCRIBE or SUBACK at most is on its  *)
(* way: that of the subscribe in flight, which has left the actor.         *)
SoleAnswer ==
  ~reconnect =>
    LET t == Topic[pending_subscribe] IN
    /\ OnlyFor(requests, t) /\ OnlyFor(backlog, t)
    /\ Quiet(requests) \/ Quiet(backlog)
    /\ subacks # <<>> =>
         /\ Quiet(requests) /\ Quiet(backlog)
         /\ Len(subacks) = 1 /\ Head(subacks).topic = t
    /\ pending_subscribe = None \/ current = pending_subscribe =>
         Quiet(requests) /\ Quiet(backlog) /\ subacks = <<>>

(* The inductive invariant behind what a SUBACK confirms.                  *)
IInv ==
  /\ TypeOK
  /\ ActorInv
  /\ EnrolledInv
  /\ SoleAnswer
  /\ ConfirmedAtFirst

(* Only topics in the map are subscribed to.                               *)
MentionedInv ==
  /\ \A t : <<"subscribe", t>> \in ToSet(requests) \cup ToSet(backlog)
            => t \in topics
  /\ \A a \in ToSet(subacks) : a.topic \in topics

(* The broker knows topic t, or will be told of it.                        *)
Known(t) ==
  \/ link = "up" /\ t \in brokerSubs \cup Refusable
  \/ <<"subscribe", t>> \in ToSet(requests)
  \/ link = "up" /\ <<"subscribe", t>> \in ToSet(backlog)
  \/ t \in todo
  \/ link = "down" /\ reconnect /\ t \in topics

(* The second inductive invariant: unless every loss went unnoticed, the   *)
(* broker knows what was acknowledged, were it on an earlier connection,   *)
(* and what was confirmed.                                                 *)
KnownInv ==
  /\ MentionedInv
  /\ PendingIsAnswerable
  /\ ~LostUnnoticed =>
       /\ \A a \in ToSet(subacks) : Known(a.topic)
       /\ actor # "stopped" =>
            \A x \in SubscribeCalls : pc[x] = "ok" => Known(Topic[x])

-----------------------------------------------------------------------------
(* Queues.                                                                 *)

(* The empty queue.                                                        *)
LEMMA EmptyQueue ==
  ASSUME NEW S
  PROVE  /\ <<>> \in Seq(S) /\ ToSet(<<>>) = {} /\ Len(<<>>) = 0
         /\ Quiet(<<>>)
BY DEF ToSet, Quiet

(* What joins a queue.                                                     *)
LEMMA AppendQueue ==
  ASSUME NEW S, NEW q \in Seq(S), NEW x \in S
  PROVE  /\ Append(q, x) \in Seq(S)
         /\ Len(Append(q, x)) = Len(q) + 1
         /\ ToSet(Append(q, x)) = ToSet(q) \cup {x}
<1>1. /\ Append(q, x) \in Seq(S)
      /\ Len(q) \in Nat
      /\ Len(Append(q, x)) = Len(q) + 1
      /\ DOMAIN Append(q, x) = 1 .. Len(q) + 1
      /\ DOMAIN q = 1 .. Len(q)
      /\ \A i \in 1 .. Len(q) : Append(q, x)[i] = q[i]
      /\ Append(q, x)[Len(q) + 1] = x
  OBVIOUS
<1>2. \A y : y \in ToSet(Append(q, x)) <=> y \in ToSet(q) \cup {x}
  BY <1>1 DEF ToSet
<1> QED BY <1>1, <1>2

(* What is left of a queue without its first.                              *)
LEMMA TailQueue ==
  ASSUME NEW S, NEW q \in Seq(S), q # <<>>
  PROVE  /\ Tail(q) \in Seq(S) /\ Head(q) \in S
         /\ Len(q) \in Nat /\ Len(Tail(q)) = Len(q) - 1
         /\ ToSet(q) = ToSet(Tail(q)) \cup {Head(q)}
<1>1. /\ Tail(q) \in Seq(S) /\ Head(q) \in S /\ Head(q) = q[1]
      /\ Len(q) \in Nat \ {0}
      /\ Len(Tail(q)) = Len(q) - 1
      /\ DOMAIN Tail(q) = 1 .. Len(q) - 1
      /\ DOMAIN q = 1 .. Len(q)
      /\ \A i \in 1 .. Len(q) - 1 : Tail(q)[i] = q[i + 1]
  OBVIOUS
<1>2. ASSUME NEW i \in DOMAIN q
      PROVE  q[i] \in ToSet(Tail(q)) \cup {Head(q)}
  <2>1. CASE i = 1
    BY <1>1, <2>1
  <2>2. CASE i # 1
    <3>1. i - 1 \in DOMAIN Tail(q) /\ Tail(q)[i - 1] = q[i]
      BY <1>1, <2>2
    <3> QED BY <3>1 DEF ToSet
  <2> QED BY <2>1, <2>2
<1>3. ASSUME NEW i \in DOMAIN Tail(q)
      PROVE  Tail(q)[i] \in ToSet(q)
  <2>1. i + 1 \in DOMAIN q /\ Tail(q)[i] = q[i + 1]
    BY <1>1
  <2> QED BY <2>1 DEF ToSet
<1>4. Head(q) \in ToSet(q)
  BY <1>1 DEF ToSet
<1> QED BY <1>1, <1>2, <1>3, <1>4 DEF ToSet

(* What a queue begins with.                                               *)
LEMMA PrefixQueue ==
  ASSUME NEW S, NEW q \in Seq(S), NEW n \in 0 .. Len(q)
  PROVE  /\ SubSeq(q, 1, n) \in Seq(S) /\ Len(q) \in Nat
         /\ ToSet(SubSeq(q, 1, n)) \subseteq ToSet(q)
         /\ SubSeq(q, 1, n) # <<>> =>
              q # <<>> /\ Head(SubSeq(q, 1, n)) = Head(q)
         /\ Len(q) = 1 => SubSeq(q, 1, n) \in {<<>>, q}
<1> DEFINE p == SubSeq(q, 1, n)
<1>1. /\ Len(q) \in Nat /\ n \in Nat
      /\ DOMAIN q = 1 .. Len(q)
      /\ p \in Seq(S) /\ Len(p) = n /\ DOMAIN p = 1 .. n
      /\ \A i \in 1 .. n : p[i] = q[i]
  OBVIOUS
<1>2. ToSet(p) \subseteq ToSet(q)
  BY <1>1 DEF ToSet
<1>3. ASSUME p # <<>> PROVE q # <<>> /\ Head(p) = Head(q)
  <2>1. n # 0
    BY <1>1, <1>3
  <2>2. p[1] = q[1] /\ Len(q) # 0
    BY <1>1, <2>1
  <2> QED BY <1>1, <1>3, <2>2
<1>4. ASSUME Len(q) = 1 PROVE p \in {<<>>, q}
  <2>1. CASE n = 0
    BY <1>1, <2>1
  <2>2. CASE n = 1
    BY <1>1, <1>4, <2>2
  <2> QED BY <1>1, <1>4, <2>1, <2>2
<1> QED BY <1>1, <1>2, <1>3, <1>4

(* What is in two queues, one after the other.                             *)
LEMMA ConcatQueue ==
  ASSUME NEW S, NEW p \in Seq(S), NEW q \in Seq(S)
  PROVE  /\ p \o q \in Seq(S)
         /\ ToSet(p \o q) = ToSet(p) \cup ToSet(q)
<1>1. /\ p \o q \in Seq(S)
      /\ Len(p) \in Nat /\ Len(q) \in Nat
      /\ Len(p \o q) = Len(p) + Len(q)
      /\ DOMAIN p = 1 .. Len(p) /\ DOMAIN q = 1 .. Len(q)
      /\ DOMAIN (p \o q) = 1 .. Len(p) + Len(q)
      /\ \A i \in 1 .. Len(p) + Len(q) :
           (p \o q)[i] = IF i <= Len(p) THEN p[i] ELSE q[i - Len(p)]
  BY ConcatProperties
<1>2. ASSUME NEW i \in DOMAIN (p \o q)
      PROVE  (p \o q)[i] \in ToSet(p) \cup ToSet(q)
  <2>1. CASE i <= Len(p)
    BY <1>1, <2>1 DEF ToSet
  <2>2. CASE ~(i <= Len(p))
    <3>1. i - Len(p) \in DOMAIN q /\ (p \o q)[i] = q[i - Len(p)]
      BY <1>1, <2>2
    <3> QED BY <3>1 DEF ToSet
  <2> QED BY <2>1, <2>2
<1>3. ASSUME NEW i \in DOMAIN p
      PROVE  p[i] \in ToSet(p \o q)
  <2>1. i \in DOMAIN (p \o q) /\ (p \o q)[i] = p[i]
    BY <1>1
  <2> QED BY <2>1 DEF ToSet
<1>4. ASSUME NEW i \in DOMAIN q
      PROVE  q[i] \in ToSet(p \o q)
  <2>1. /\ Len(p) + i \in DOMAIN (p \o q)
        /\ ~(Len(p) + i <= Len(p)) /\ (Len(p) + i) - Len(p) = i
    BY <1>1
  <2>2. (p \o q)[Len(p) + i] = q[i]
    BY <1>1, <2>1
  <2> QED BY <2>1, <2>2 DEF ToSet
<1> QED BY <1>1, <1>2, <1>3, <1>4 DEF ToSet

(* A queue without a SUBSCRIBE has at most one.                            *)
LEMMA QuietOnly == \A q, t : Quiet(q) => OnlyFor(q, t)
BY DEF Quiet, OnlyFor

(* A request joins a queue.                                                *)
LEMMA AppendQuiet ==
  ASSUME NEW S, NEW q \in Seq(S), NEW x \in S, NEW t
  PROVE  /\ x[1] # "subscribe" =>
              /\ Quiet(q) => Quiet(Append(q, x))
              /\ OnlyFor(q, t) => OnlyFor(Append(q, x), t)
         /\ Quiet(q) /\ x[2] = t => OnlyFor(Append(q, x), t)
<1>1. /\ Len(q) \in Nat
      /\ DOMAIN Append(q, x) = 1 .. Len(q) + 1
      /\ DOMAIN q = 1 .. Len(q)
      /\ \A i \in 1 .. Len(q) : Append(q, x)[i] = q[i]
      /\ Append(q, x)[Len(q) + 1] = x
      /\ \A i \in 1 .. Len(q) + 1 : i \in 1 .. Len(q) \/ i = Len(q) + 1
  OBVIOUS
<1> DEFINE r == Append(q, x)
           n == Len(q)
<1>2. /\ DOMAIN r = 1 .. n + 1 /\ DOMAIN q = 1 .. n
      /\ \A i \in 1 .. n : r[i] = q[i]
      /\ r[n + 1] = x
      /\ \A i \in 1 .. n + 1 : i \in 1 .. n \/ i = n + 1
  BY <1>1
<1> HIDE DEF r, n
<1>3. x[1] # "subscribe" => /\ Quiet(q) => Quiet(r)
                            /\ OnlyFor(q, t) => OnlyFor(r, t)
  BY <1>2 DEF Quiet, OnlyFor
<1>4. Quiet(q) /\ x[2] = t => OnlyFor(r, t)
  BY <1>2 DEF Quiet, OnlyFor
<1> QED BY <1>3, <1>4 DEF r

(* The first request leaves a queue.                                       *)
LEMMA TailQuiet ==
  ASSUME NEW S, NEW q \in Seq(S), q # <<>>, NEW t
  PROVE  /\ Quiet(q) => Quiet(Tail(q)) /\ Head(q)[1] # "subscribe"
         /\ OnlyFor(q, t) => OnlyFor(Tail(q), t)
         /\ OnlyFor(q, t) /\ Head(q)[1] = "subscribe" =>
              Quiet(Tail(q)) /\ Head(q)[2] = t
<1>1. /\ Head(q) = q[1]
      /\ Len(q) \in Nat \ {0}
      /\ DOMAIN Tail(q) = 1 .. Len(q) - 1
      /\ DOMAIN q = 1 .. Len(q)
      /\ \A i \in 1 .. Len(q) - 1 : Tail(q)[i] = q[i + 1]
  OBVIOUS
<1>2. /\ \A i \in DOMAIN Tail(q) :
           i \in Int /\ i + 1 \in DOMAIN q /\ i + 1 # 1 /\ Tail(q)[i] = q[i + 1]
      /\ 1 \in DOMAIN q
      /\ \A i, j \in DOMAIN Tail(q) : i + 1 = j + 1 => i = j
  BY <1>1
<1>3. Quiet(q) => Quiet(Tail(q)) /\ Head(q)[1] # "subscribe"
  BY <1>1, <1>2 DEF Quiet
<1>4. ASSUME OnlyFor(q, t) PROVE OnlyFor(Tail(q), t)
  <2> SUFFICES ASSUME NEW i \in DOMAIN Tail(q), NEW j \in DOMAIN Tail(q),
                      Tail(q)[i][1] = "subscribe", Tail(q)[j][1] = "subscribe"
               PROVE  i = j /\ Tail(q)[i][2] = t
    BY DEF OnlyFor
  <2>1. i + 1 = j + 1 /\ q[i + 1][2] = t
    BY <1>2, <1>4 DEF OnlyFor
  <2> QED BY <1>2, <2>1
<1>5. ASSUME OnlyFor(q, t), Head(q)[1] = "subscribe"
      PROVE  Quiet(Tail(q)) /\ Head(q)[2] = t
  <2>1. Head(q)[2] = t
    BY <1>1, <1>2, <1>5 DEF OnlyFor
  <2>2. ASSUME NEW i \in DOMAIN Tail(q), Tail(q)[i][1] = "subscribe"
        PROVE  FALSE
    <3>1. i + 1 = 1
      BY <1>1, <1>2, <1>5, <2>2 DEF OnlyFor
    <3> QED BY <1>2, <3>1
  <2> QED BY <2>1, <2>2 DEF Quiet
<1> QED BY <1>3, <1>4, <1>5

(* Two queues become one.                                                  *)
LEMMA ConcatQuiet ==
  ASSUME NEW S, NEW p \in Seq(S), NEW q \in Seq(S), NEW t
  PROVE  /\ Quiet(p) /\ Quiet(q) => Quiet(p \o q)
         /\ OnlyFor(p, t) /\ OnlyFor(q, t) /\ (Quiet(p) \/ Quiet(q))
              => OnlyFor(p \o q, t)
<1> DEFINE r == p \o q
           m == Len(p)
           n == Len(q)
<1>1. /\ m \in Nat /\ n \in Nat
      /\ DOMAIN p = 1 .. m /\ DOMAIN q = 1 .. n
      /\ DOMAIN r = 1 .. m + n
      /\ \A i \in 1 .. m + n : r[i] = IF i <= m THEN p[i] ELSE q[i - m]
  BY ConcatProperties
<1> HIDE DEF r, m, n
<1>2. \A i \in DOMAIN r :
        \/ i \in DOMAIN p /\ r[i] = p[i]
        \/ i \in Int /\ i - m \in DOMAIN q /\ r[i] = q[i - m]
  BY <1>1
<1>3. Quiet(p) /\ Quiet(q) => Quiet(r)
  BY <1>2 DEF Quiet
<1>4. ASSUME OnlyFor(p, t), Quiet(q)
      PROVE  OnlyFor(r, t)
  <2>1. \A i \in DOMAIN r :
          r[i][1] = "subscribe" => i \in DOMAIN p /\ r[i] = p[i]
    BY <1>2, <1>4 DEF Quiet
  <2> QED BY <1>4, <2>1 DEF OnlyFor
<1>5. ASSUME Quiet(p), OnlyFor(q, t)
      PROVE  OnlyFor(r, t)
  <2>1. \A i \in DOMAIN r :
          r[i][1] = "subscribe" =>
            i \in Int /\ i - m \in DOMAIN q /\ r[i] = q[i - m]
    BY <1>2, <1>5 DEF Quiet
  <2> SUFFICES ASSUME NEW i \in DOMAIN r, NEW j \in DOMAIN r,
                      r[i][1] = "subscribe", r[j][1] = "subscribe"
               PROVE  i = j /\ r[i][2] = t
    BY DEF OnlyFor
  <2>2. i \in Int /\ j \in Int /\ i - m = j - m /\ r[i][2] = t
    BY <1>5, <2>1 DEF OnlyFor
  <2> QED BY <1>1, <2>2
<1> QED BY <1>3, <1>4, <1>5 DEF r

(* The inductive invariant holds at first.                                 *)
LEMMA InitIInv == Init => IInv
<1> SUFFICES ASSUME Init PROVE IInv
  OBVIOUS
<1>1. TypeOK
  <2>1. /\ commands \in Seq(Calls)
        /\ requests \in Seq(Requests) /\ backlog \in Seq(Requests)
        /\ subacks \in Seq([topic : Topics, success : BOOLEAN])
        /\ Len(requests) = 0
    BY EmptyQueue DEF Init
  <2>2. losses \in 0 .. MaxLosses /\ failures \in 0 .. MaxFailures
        /\ Len(requests) <= RequestCapacity
    BY <2>1, LinkAssumption DEF Init
  <2> QED BY <2>1, <2>2 DEF Init, TypeOK
<1>2. ActorInv /\ EnrolledInv
  BY CallsAssumption, EmptyQueue DEF Init, ActorInv, EnrolledInv, Calls
<1>3. SoleAnswer /\ ConfirmedAtFirst
  BY EmptyQueue, QuietOnly DEF Init, SoleAnswer, ConfirmedAtFirst, Calls
<1> QED BY <1>1, <1>2, <1>3 DEF IInv

-----------------------------------------------------------------------------
(* Steps of the callers.                                                   *)

(* A call that sends its command, its topic being in the map, changes      *)
(* nothing the actor or the broker knows.                                  *)
LEMMA SendCommandFacts ==
  ASSUME IInv, NEW x \in Calls, SendCommand(x)
  PROVE  /\ pc' \in [Calls -> {"idle", "sent", "retrying", "ok", "error",
                               "never"}]
         /\ commands' \in Seq(Calls)
         /\ ToSet(commands') \subseteq ToSet(commands) \cup {x}
         /\ \A y \in SubscribeCalls : pc'[y] = "ok" => pc[y] = "ok"
         /\ \A y \in SubscribeCalls : pc'[y] = "retrying" => pc[y] = "retrying"
<1>1. pc \in [Calls -> {"idle", "sent", "retrying", "ok", "error", "never"}]
      /\ commands \in Seq(Calls)
  BY DEF IInv, TypeOK
<1>2. PICK p \in {"ok", "error", "sent"} :
        /\ pc' = [pc EXCEPT ![x] = p]
        /\ p = "ok" => x \in CloseCalls
  BY DEF SendCommand
<1>3. /\ commands' \in Seq(Calls)
      /\ ToSet(commands') \subseteq ToSet(commands) \cup {x}
  <2>1. CASE commands' = Append(commands, x)
    BY <1>1, <2>1, AppendQueue
  <2>2. CASE UNCHANGED commands
    BY <1>1, <2>2
  <2> QED BY <2>1, <2>2 DEF SendCommand
<1> QED BY <1>1, <1>2, <1>3, CallsAssumption DEF Calls

LEMMA SendCommandKeeps ==
  ASSUME IInv, NEW x \in Calls, SendCommand(x),
         topics' \subseteq Topics, topics \subseteq topics',
         x \in SubscribeCalls => Topic[x] \in topics',
         UNCHANGED <<actorVars, clientVars, brokerVars>>
  PROVE  IInv'
<1>1. UNCHANGED <<actor, current, pending_subscribe, reconnect, todo, requests,
                  backlog, link, subacks, brokerSubs, confirmed, errors,
                  losses, failures>>
  BY DEF actorVars, clientVars, brokerVars
<1>2. TypeOK'
  BY <1>1, SendCommandFacts DEF IInv, TypeOK
<1>3. ActorInv' /\ SoleAnswer'
  BY <1>1 DEF IInv, ActorInv, SoleAnswer, Quiet, OnlyFor
<1>4. EnrolledInv'
  BY <1>1, SendCommandFacts DEF IInv, EnrolledInv
<1>5. ConfirmedAtFirst'
  BY <1>1, SendCommandFacts DEF IInv, ConfirmedAtFirst
<1> QED BY <1>2, <1>3, <1>4, <1>5 DEF IInv

(* Calls that begin, and subscribe() calls that try again.                 *)
LEMMA CallerKeeps ==
  ASSUME IInv, NEW x \in Calls,
         \/ x \in SubscribeCalls /\ (Subscribe(x) \/ RetrySubscribe(x))
         \/ x \in PublishCalls /\ Publish(x)
         \/ x \in CloseCalls /\ Close(x)
  PROVE  IInv'
<1>1. SendCommand(x) /\ UNCHANGED <<actorVars, clientVars, brokerVars>>
  BY DEF Subscribe, RetrySubscribe, Publish, Close
<1>2. topics \subseteq Topics
  BY DEF IInv, TypeOK
<1>3. topics' \subseteq Topics /\ topics \subseteq topics'
  BY <1>2 DEF Subscribe, RetrySubscribe, Publish, Close, Enrolled, Topics
<1>4. x \in SubscribeCalls => Topic[x] \in topics'
  BY CallsAssumption DEF Subscribe, RetrySubscribe, Publish, Close, Enrolled,
     IInv, EnrolledInv
<1> QED BY <1>1, <1>3, <1>4, SendCommandKeeps

-----------------------------------------------------------------------------
(* Steps of the actor that handle commands.                                *)

(* A subscribe taken up is in flight from then on; nothing was before.     *)
LEMMA ReceiveCommandKeeps ==
  ASSUME IInv, ReceiveCommand
  PROVE  IInv'
<1> DEFINE x == Head(commands)
<1>1. /\ UNCHANGED <<topics, reconnect, todo, requests, backlog, link, subacks,
                     brokerSubs, confirmed, errors, losses, failures>>
      /\ actor = "selecting" /\ commands # <<>>
      /\ commands' = Tail(commands)
  BY DEF ReceiveCommand, clientVars, brokerVars
<1>2. /\ x \in Calls /\ x \in ToSet(commands) /\ x # None
      /\ Tail(commands) \in Seq(Calls)
      /\ ToSet(commands') \subseteq ToSet(commands)
  BY <1>1, TailQueue, CallsAssumption DEF IInv, TypeOK
<1>3. current = None /\ todo = {}
  BY <1>1 DEF IInv, ActorInv
<1>4. CASE /\ x \in SubscribeCalls
           /\ pc' = [pc EXCEPT ![x] = "retrying"]
           /\ UNCHANGED <<actor, current, pending_subscribe>>
  <2>1. TypeOK'
    BY <1>1, <1>2, <1>4 DEF IInv, TypeOK
  <2>2. ActorInv' /\ SoleAnswer'
    BY <1>1, <1>4 DEF IInv, ActorInv, SoleAnswer, Quiet, OnlyFor
  <2>3. EnrolledInv' /\ ConfirmedAtFirst'
    BY <1>1, <1>2, <1>4 DEF IInv, TypeOK, EnrolledInv, ConfirmedAtFirst, Calls
  <2> QED BY <2>1, <2>2, <2>3 DEF IInv
<1>5. CASE /\ x \in SubscribeCalls /\ pending_subscribe = None
           /\ pending_subscribe' = x
           /\ actor' = "calling" /\ current' = x
           /\ UNCHANGED pc
  <2>1. TypeOK'
    BY <1>1, <1>2, <1>5 DEF IInv, TypeOK
  <2>2. ActorInv'
    BY <1>1, <1>2, <1>3, <1>5 DEF IInv, ActorInv
  <2>3. EnrolledInv' /\ ConfirmedAtFirst'
    BY <1>1, <1>2, <1>5 DEF IInv, EnrolledInv, ConfirmedAtFirst
  <2>4. SoleAnswer'
    <3>1. ~reconnect => Quiet(requests) /\ Quiet(backlog) /\ subacks = <<>>
      BY <1>5 DEF IInv, SoleAnswer
    <3>2. ~reconnect => OnlyFor(requests, Topic[x]) /\ OnlyFor(backlog, Topic[x])
      BY <3>1, QuietOnly
    <3> QED BY <1>1, <1>5, <3>1, <3>2 DEF SoleAnswer, Quiet, OnlyFor
  <2> QED BY <2>1, <2>2, <2>3, <2>4 DEF IInv
<1>6. CASE /\ x \notin SubscribeCalls
           /\ actor' = "calling" /\ current' = x
           /\ UNCHANGED <<pc, pending_subscribe>>
  <2>1. TypeOK'
    BY <1>1, <1>2, <1>6 DEF IInv, TypeOK
  <2>2. ActorInv'
    BY <1>1, <1>2, <1>3, <1>6 DEF IInv, ActorInv
  <2>3. EnrolledInv' /\ ConfirmedAtFirst'
    BY <1>1, <1>2, <1>6 DEF IInv, EnrolledInv, ConfirmedAtFirst
  <2>4. SoleAnswer'
    <3>1. x # pending_subscribe
      BY <1>2, <1>6 DEF IInv, TypeOK
    <3> QED BY <1>1, <1>6, <3>1 DEF IInv, SoleAnswer, Quiet, OnlyFor
  <2> QED BY <2>1, <2>2, <2>3, <2>4 DEF IInv
<1> QED BY <1>4, <1>5, <1>6 DEF ReceiveCommand, Overlaps

(* The SUBSCRIBE of the subscribe in flight is the first on its way.       *)
LEMMA CallStepKeeps ==
  ASSUME IInv, Call
  PROVE  IInv'
<1> DEFINE x == current
<1>1. /\ UNCHANGED <<topics, commands, pending_subscribe, reconnect, todo,
                     backlog, link, subacks, brokerSubs, confirmed, errors,
                     losses, failures>>
      /\ actor = "calling" /\ current \notin CloseCalls
      /\ Len(requests) < RequestCapacity
      /\ requests' = Append(requests, RequestOf(current))
      /\ pc' = IF current \in PublishCalls
               THEN [pc EXCEPT ![current] = "ok"] ELSE pc
      /\ actor' = "selecting"
      /\ current' = None
  BY DEF Call, Room, brokerVars
<1>2. /\ x \in PublishCalls \cup SubscribeCalls
      /\ requests \in Seq(Requests) /\ Len(requests) \in Nat
  BY <1>1 DEF IInv, TypeOK, ActorInv, Calls
<1>3. RequestOf(x) \in Requests
  BY <1>2, CallsAssumption DEF RequestOf, Requests, Topics
<1>4. /\ requests' \in Seq(Requests)
      /\ Len(requests') = Len(requests) + 1
  BY <1>1, <1>2, <1>3, AppendQueue
<1>5. pc' \in [Calls -> {"idle", "sent", "retrying", "ok", "error", "never"}]
      /\ \A y \in SubscribeCalls : pc'[y] = pc[y]
  BY <1>1, <1>2, CallsAssumption DEF IInv, TypeOK, Calls
<1>6. TypeOK'
  <2>1. Len(requests') <= RequestCapacity
    BY <1>1, <1>2, <1>4, LinkAssumption
  <2> QED BY <1>1, <1>4, <1>5, <2>1 DEF IInv, TypeOK
<1>7. ActorInv'
  BY <1>1, <1>2, CallsAssumption DEF IInv, ActorInv, Calls
<1>8. EnrolledInv' /\ ConfirmedAtFirst'
  BY <1>1, <1>5 DEF IInv, EnrolledInv, ConfirmedAtFirst
<1>9. SoleAnswer'
  <2> SUFFICES ASSUME ~reconnect PROVE SoleAnswer'
    BY <1>1 DEF SoleAnswer
  <2> DEFINE t == Topic[pending_subscribe]
  <2>1. CASE x \in PublishCalls
    <3>1. RequestOf(x)[1] # "subscribe"
      BY <2>1 DEF RequestOf
    <3>2. /\ Quiet(requests) => Quiet(requests')
          /\ OnlyFor(requests, t) => OnlyFor(requests', t)
      BY <1>1, <1>2, <1>3, <3>1, AppendQuiet
    <3>3. pending_subscribe = None \/ current' = pending_subscribe =>
            pending_subscribe = None
      BY <1>1
    <3>4. /\ Quiet(backlog)' <=> Quiet(backlog)
          /\ OnlyFor(backlog, t)' <=> OnlyFor(backlog, t)
      BY <1>1 DEF Quiet, OnlyFor
    <3> QED BY <1>1, <3>2, <3>3, <3>4 DEF IInv, SoleAnswer, Quiet, OnlyFor
  <2>2. CASE x \in SubscribeCalls
    <3>1. x = pending_subscribe /\ x # None
      BY <2>2, CallsAssumption DEF IInv, ActorInv, Calls
    <3>2. Quiet(requests) /\ Quiet(backlog) /\ subacks = <<>>
      BY <3>1 DEF IInv, SoleAnswer
    <3>3. RequestOf(x)[2] = t
      BY <2>2, <3>1, CallsAssumption DEF RequestOf
    <3>4. OnlyFor(requests', t)
      BY <1>1, <1>2, <1>3, <3>2, <3>3, AppendQuiet
    <3>5. OnlyFor(backlog, t)
      BY <3>2, QuietOnly
    <3> QED BY <1>1, <3>1, <3>2, <3>4, <3>5 DEF SoleAnswer, Quiet, OnlyFor
  <2> QED BY <1>2, <2>1, <2>2
<1> QED BY <1>6, <1>7, <1>8, <1>9 DEF IInv

(* A subscribe whose SUBSCRIBE never left is not in flight any more.       *)
LEMMA CallFailsKeeps ==
  ASSUME IInv, CallFails
  PROVE  IInv'
<1>1. /\ UNCHANGED <<topics, commands, reconnect, todo, requests, backlog, link,
                     subacks, brokerSubs, confirmed, errors, losses, failures>>
      /\ actor = "calling"
      /\ pc' = [pc EXCEPT ![current] = "error"]
      /\ pending_subscribe' = IF current \in SubscribeCalls THEN None
                              ELSE pending_subscribe
      /\ actor' = "selecting"
      /\ current' = None
  BY DEF CallFails, clientVars, brokerVars
<1>2. TypeOK'
  BY <1>1 DEF IInv, TypeOK
<1>3. ActorInv'
  BY <1>1, CallsAssumption DEF IInv, ActorInv, Calls
<1>4. EnrolledInv' /\ ConfirmedAtFirst'
  BY <1>1, CallsAssumption
     DEF IInv, TypeOK, EnrolledInv, ConfirmedAtFirst, Calls
<1>5. SoleAnswer'
  <2> SUFFICES ASSUME ~reconnect PROVE SoleAnswer'
    BY <1>1 DEF SoleAnswer
  <2>1. CASE current \in SubscribeCalls
    <3>1. Quiet(requests) /\ Quiet(backlog) /\ subacks = <<>>
      BY <2>1 DEF IInv, ActorInv, SoleAnswer
    <3>2. \A t : OnlyFor(requests, t) /\ OnlyFor(backlog, t)
      BY <3>1, QuietOnly
    <3> QED BY <1>1, <3>1, <3>2 DEF SoleAnswer, Quiet, OnlyFor
  <2>2. CASE current \notin SubscribeCalls
    BY <1>1, <2>2 DEF IInv, SoleAnswer, Quiet, OnlyFor
  <2> QED BY <2>1, <2>2
<1> QED BY <1>2, <1>3, <1>4, <1>5 DEF IInv

(* Nothing is on its way to or from an actor that has stopped.             *)
LEMMA TaskEndsKeeps ==
  ASSUME IInv, TaskEnds, actor \in {"selecting", "calling"},
         pc' \in [Calls -> {"idle", "sent", "retrying", "ok", "error", "never"}],
         \A x \in SubscribeCalls : pc'[x] \in {"ok", "retrying"} => pc'[x] = pc[x]
  PROVE  IInv'
<1>1. TypeOK'
  BY LinkAssumption, EmptyQueue DEF IInv, TypeOK, TaskEnds
<1>2. ActorInv' /\ EnrolledInv' /\ ConfirmedAtFirst'
  BY CallsAssumption, EmptyQueue DEF IInv, ActorInv, EnrolledInv,
     ConfirmedAtFirst, TaskEnds, Calls
<1>3. SoleAnswer'
  BY EmptyQueue, QuietOnly DEF SoleAnswer, TaskEnds
<1> QED BY <1>1, <1>2, <1>3 DEF IInv

LEMMA StopKeeps ==
  ASSUME IInv, Stop \/ Abandon
  PROVE  IInv'
<1>1. CASE Stop
  <2>1. /\ \A x \in Calls :
             pc'[x] = IF x = current \/ (x \in Orphans /\ x \in CloseCalls)
                      THEN "ok"
                      ELSE IF x \in Orphans THEN "error" ELSE pc[x]
        /\ current \in CloseCalls
        /\ pc' = [x \in Calls |-> pc'[x]]
    BY <1>1 DEF Stop
  <2>2. pc' \in [Calls -> {"idle", "sent", "retrying", "ok", "error", "never"}]
    BY <2>1 DEF IInv, TypeOK
  <2>3. \A x \in SubscribeCalls : pc'[x] \in {"ok", "retrying"} => pc'[x] = pc[x]
    BY <2>1, CallsAssumption DEF Calls
  <2> QED BY <1>1, <2>2, <2>3, TaskEndsKeeps DEF Stop
<1>2. CASE Abandon
  <2>1. pc' = [x \in Calls |-> IF pc[x] = "idle" THEN "never" ELSE pc[x]]
    BY <1>2 DEF Abandon
  <2>2. pc' \in [Calls -> {"idle", "sent", "retrying", "ok", "error", "never"}]
    BY <2>1 DEF IInv, TypeOK
  <2>3. \A x \in SubscribeCalls : pc'[x] \in {"ok", "retrying"} => pc'[x] = pc[x]
    BY <2>1 DEF Calls
  <2> QED BY <1>2, <2>2, <2>3, TaskEndsKeeps DEF Abandon
<1> QED BY <1>1, <1>2

-----------------------------------------------------------------------------
(* Steps of the actor that poll the event loop.                            *)

(* A ConnAck turns re-subscribing on in an actor that has seen a           *)
(* disconnect, and in no other.                                            *)
LEMMA ConnectKeeps ==
  ASSUME IInv, Connect
  PROVE  IInv'
<1>1. /\ UNCHANGED <<pc, topics, commands, current, pending_subscribe,
                     reconnect, requests, subacks, brokerSubs, confirmed,
                     errors, losses, failures>>
      /\ actor = "selecting" /\ link' = "up"
      /\ backlog' \in {backlog, <<>>}
      /\ todo' = Resubscribes
      /\ actor' = IF Resubscribes = {} THEN "selecting" ELSE "resubscribing"
  BY DEF Connect, callVars
<1>2. Resubscribes \subseteq topics /\ (~reconnect => Resubscribes = {})
  BY DEF Resubscribes
<1>3. backlog' \in Seq(Requests)
  BY <1>1, EmptyQueue DEF IInv, TypeOK
<1>4. TypeOK'
  BY <1>1, <1>2, <1>3 DEF IInv, TypeOK
<1>5. ActorInv'
  BY <1>1, <1>2 DEF IInv, ActorInv
<1>6. EnrolledInv' /\ ConfirmedAtFirst'
  BY <1>1 DEF IInv, EnrolledInv, ConfirmedAtFirst
<1>7. SoleAnswer'
  <2>1. Quiet(<<>>) /\ \A t : OnlyFor(<<>>, t)
    BY EmptyQueue, QuietOnly
  <2> QED BY <1>1, <2>1 DEF IInv, SoleAnswer, Quiet, OnlyFor
<1> QED BY <1>4, <1>5, <1>6, <1>7 DEF IInv

(* An actor that subscribes again has seen a disconnect.                   *)
LEMMA ResubscribeKeeps ==
  ASSUME IInv, Resubscribe
  PROVE  IInv'
<1>1. /\ UNCHANGED <<pc, topics, commands, current, pending_subscribe,
                     reconnect, backlog, link, subacks, brokerSubs, confirmed,
                     errors, losses, failures>>
      /\ actor = "resubscribing"
      /\ Len(requests) < RequestCapacity
  BY DEF Resubscribe, Room, callVars, brokerVars
<1>2. PICK t \in todo :
        /\ requests' = Append(requests, <<"subscribe", t>>)
        /\ todo' = todo \ {t}
        /\ actor' = IF todo = {t} THEN "selecting" ELSE "resubscribing"
  BY DEF Resubscribe
<1>3. /\ requests \in Seq(Requests)
      /\ <<"subscribe", t>> \in Requests
      /\ reconnect
  BY <1>2 DEF IInv, TypeOK, ActorInv, Requests
<1>4. /\ requests' \in Seq(Requests)
      /\ Len(requests') = Len(requests) + 1
  BY <1>2, <1>3, AppendQueue
<1>5. TypeOK'
  <2>1. Len(requests') <= RequestCapacity
    BY <1>1, <1>3, <1>4, LinkAssumption
  <2> QED BY <1>1, <1>2, <1>4, <2>1 DEF IInv, TypeOK
<1>6. ActorInv'
  BY <1>1, <1>2, <1>3 DEF IInv, ActorInv
<1>7. EnrolledInv' /\ ConfirmedAtFirst' /\ SoleAnswer'
  BY <1>1, <1>3 DEF IInv, EnrolledInv, ConfirmedAtFirst, SoleAnswer
<1> QED BY <1>5, <1>6, <1>7 DEF IInv

(* What waited to be sent keeps waiting when a connection is lost; a       *)
(* SUBACK that was on its way may remain, and is not replaced by another.  *)
LEMMA PollErrorKeeps ==
  ASSUME IInv, NEW kind \in ErrorKinds, ConnectFails(kind) \/ LoseLink(kind)
  PROVE  IInv'
<1>1. /\ UNCHANGED <<pc, topics, commands, current, pending_subscribe, todo,
                     confirmed>>
      /\ actor = "selecting" /\ actor' = "sleeping"
      /\ reconnect' = Reconnects(kind)
      /\ errors' = errors \cup {kind}
  BY DEF ConnectFails, LoseLink, PollError, callVars
<1>2. /\ reconnect' \in BOOLEAN
      /\ reconnect' <=> reconnect \/ kind = "disconnect"
      /\ errors' \subseteq ErrorKinds
  BY <1>1 DEF Reconnects, IInv, TypeOK
<1>3. requests \in Seq(Requests) /\ backlog \in Seq(Requests)
  BY DEF IInv, TypeOK
<1>4. ActorInv' /\ EnrolledInv' /\ ConfirmedAtFirst'
  BY <1>1, <1>2 DEF IInv, ActorInv, EnrolledInv, ConfirmedAtFirst
<1>5. CASE ConnectFails(kind)
  <2>1. /\ UNCHANGED <<requests, backlog, link, subacks, brokerSubs, losses>>
        /\ failures < MaxFailures /\ failures' = failures + 1
    BY <1>5 DEF ConnectFails, clientVars
  <2>2. failures' \in 0 .. MaxFailures
    BY <2>1, LinkAssumption DEF IInv, TypeOK
  <2>3. TypeOK'
    BY <1>1, <1>2, <2>1, <2>2 DEF IInv, TypeOK
  <2>4. SoleAnswer'
    BY <1>1, <1>2, <2>1 DEF IInv, SoleAnswer, Quiet, OnlyFor
  <2> QED BY <1>4, <2>3, <2>4 DEF IInv
<1>6. CASE LoseLink(kind)
  <2>1. /\ losses < MaxLosses /\ losses' = losses + 1
        /\ link' = "down" /\ brokerSubs' = {}
        /\ \E n \in 0 .. Len(subacks) : subacks' = SubSeq(subacks, 1, n)
        /\ backlog' = backlog \o requests
        /\ requests' = <<>>
        /\ UNCHANGED failures
    BY <1>6 DEF LoseLink
  <2>2. losses' \in 0 .. MaxLosses
    BY <2>1, LinkAssumption DEF IInv, TypeOK
  <2>3. /\ requests' \in Seq(Requests) /\ Len(requests') <= RequestCapacity
        /\ backlog' \in Seq(Requests)
    BY <1>3, <2>1, EmptyQueue, ConcatQueue, LinkAssumption
  <2>4. /\ subacks' \in Seq([topic : Topics, success : BOOLEAN])
        /\ Len(subacks) \in Nat
        /\ subacks' # <<>> => subacks # <<>> /\ Head(subacks') = Head(subacks)
        /\ Len(subacks) = 1 => subacks' \in {<<>>, subacks}
    <3>1. subacks \in Seq([topic : Topics, success : BOOLEAN])
      BY DEF IInv, TypeOK
    <3>2. PICK n \in 0 .. Len(subacks) : subacks' = SubSeq(subacks, 1, n)
      BY <2>1
    <3> QED BY <3>1, <3>2, PrefixQueue
  <2>5. TypeOK'
    BY <1>1, <1>2, <2>1, <2>2, <2>3, <2>4 DEF IInv, TypeOK
  <2>6. SoleAnswer'
    <3> SUFFICES ASSUME ~reconnect PROVE SoleAnswer'
      BY <1>2 DEF SoleAnswer
    <3> DEFINE t == Topic[pending_subscribe]
    <3>1. Quiet(requests') /\ OnlyFor(requests', t)
      BY <2>1, EmptyQueue, QuietOnly
    <3>2. OnlyFor(backlog', t)
      BY <1>3, <2>1, ConcatQuiet DEF IInv, SoleAnswer
    <3>3. Quiet(requests) /\ Quiet(backlog) => Quiet(backlog')
      BY <1>3, <2>1, ConcatQuiet
    <3>4. subacks # <<>> => subacks' \in {<<>>, subacks}
      BY <2>4 DEF IInv, SoleAnswer
    <3>5. subacks = <<>> => subacks' = <<>>
      BY <2>4
    <3> QED BY <1>1, <2>1, <3>1, <3>2, <3>3, <3>4, <3>5 DEF IInv, SoleAnswer
  <2> QED BY <1>4, <2>5, <2>6 DEF IInv
<1> QED BY <1>5, <1>6

(* The sleep after an error ends.                                          *)
LEMMA WakeUpKeeps ==
  ASSUME IInv, WakeUp
  PROVE  IInv'
<1>1. /\ UNCHANGED <<pc, topics, commands, current, pending_subscribe,
                     reconnect, todo, requests, backlog, link, subacks,
                     brokerSubs, confirmed, errors, losses, failures>>
      /\ actor = "sleeping" /\ actor' = "selecting"
  BY DEF WakeUp, callVars, clientVars, brokerVars
<1>2. TypeOK' /\ ActorInv'
  BY <1>1 DEF IInv, TypeOK, ActorInv
<1>3. EnrolledInv' /\ ConfirmedAtFirst' /\ SoleAnswer'
  BY <1>1 DEF IInv, EnrolledInv, ConfirmedAtFirst, SoleAnswer, Quiet, OnlyFor
<1> QED BY <1>2, <1>3 DEF IInv

(* What the event loop sends next, and what of it the two queues keep.     *)
LEMMA FlushFacts ==
  ASSUME IInv, Flush
  PROVE  /\ UNCHANGED <<pc, topics, commands, actor, current,
                        pending_subscribe, reconnect, todo, link, confirmed,
                        errors, losses, failures>>
         /\ actor = "selecting" /\ link = "up"
         /\ requests \in Seq(Requests) /\ backlog \in Seq(Requests)
         /\ \E r \in Requests :
              /\ \/ /\ backlog # <<>> /\ r = Head(backlog)
                    /\ backlog' = Tail(backlog) /\ requests' = requests
                 \/ /\ requests # <<>> /\ r = Head(requests)
                    /\ requests' = Tail(requests) /\ backlog' = backlog
              /\ \/ /\ r[1] = "subscribe"
                    /\ brokerSubs' = brokerSubs \cup {r[2]}
                    /\ subacks' = Append(subacks, [topic |-> r[2], success |-> TRUE])
                 \/ /\ r[1] = "subscribe"
                    /\ r[2] \in Refusable
                    /\ subacks' = Append(subacks, [topic |-> r[2], success |-> FALSE])
                    /\ UNCHANGED brokerSubs
                 \/ /\ r[1] = "publish"
                    /\ UNCHANGED <<brokerSubs, subacks>>
<1>1. requests \in Seq(Requests) /\ backlog \in Seq(Requests)
  BY DEF IInv, TypeOK
<1>2. backlog \o requests # <<>>
  BY DEF Flush
<1> DEFINE r == Head(backlog \o requests)
<1>3. CASE backlog # <<>>
  <2>1. r = Head(backlog) /\ r \in Requests
    BY <1>1, <1>3
  <2> QED BY <1>1, <1>3, <2>1 DEF Flush, callVars, actorVars
<1>4. CASE backlog = <<>>
  <2>1. backlog \o requests = requests
    BY <1>1, <1>4
  <2>2. requests # <<>> /\ r = Head(requests) /\ r \in Requests
    BY <1>1, <1>2, <2>1
  <2> QED BY <1>1, <1>4, <2>2 DEF Flush, callVars, actorVars
<1> QED BY <1>3, <1>4

(* The one SUBSCRIBE on its way becomes the one SUBACK.                    *)
LEMMA FlushKeeps ==
  ASSUME IInv, Flush
  PROVE  IInv'
<1>1. /\ UNCHANGED <<pc, topics, commands, actor, current, pending_subscribe,
                     reconnect, todo, link, confirmed, errors, losses, failures>>
      /\ actor = "selecting"
      /\ requests \in Seq(Requests) /\ backlog \in Seq(Requests)
  BY FlushFacts
<1>2. PICK r \in Requests :
        /\ \/ /\ backlog # <<>> /\ r = Head(backlog)
              /\ backlog' = Tail(backlog) /\ requests' = requests
           \/ /\ requests # <<>> /\ r = Head(requests)
              /\ requests' = Tail(requests) /\ backlog' = backlog
        /\ \/ /\ r[1] = "subscribe"
              /\ brokerSubs' = brokerSubs \cup {r[2]}
              /\ subacks' = Append(subacks, [topic |-> r[2], success |-> TRUE])
           \/ /\ r[1] = "subscribe"
              /\ r[2] \in Refusable
              /\ subacks' = Append(subacks, [topic |-> r[2], success |-> FALSE])
              /\ UNCHANGED brokerSubs
           \/ /\ r[1] = "publish"
              /\ UNCHANGED <<brokerSubs, subacks>>
  BY FlushFacts
<1>3. r[1] = "subscribe" => r[2] \in Topics
  BY CallsAssumption DEF Requests
<1>4. /\ requests' \in Seq(Requests) /\ backlog' \in Seq(Requests)
      /\ Len(requests') <= RequestCapacity
  <2>1. CASE backlog # <<>> /\ backlog' = Tail(backlog) /\ requests' = requests
    <3>1. backlog' \in Seq(Requests)
      BY <1>1, <2>1, TailQueue
    <3> QED BY <1>1, <2>1, <3>1 DEF IInv, TypeOK
  <2>2. CASE requests # <<>> /\ requests' = Tail(requests) /\ backlog' = backlog
    <3>1. Len(requests) \in Nat /\ Len(requests') = Len(requests) - 1
          /\ requests' \in Seq(Requests)
      BY <1>1, <2>2, TailQueue
    <3> QED BY <1>1, <2>2, <3>1, LinkAssumption DEF IInv, TypeOK
  <2> QED BY <1>2, <2>1, <2>2
<1>5. subacks' \in Seq([topic : Topics, success : BOOLEAN])
  <2>1. subacks \in Seq([topic : Topics, success : BOOLEAN])
    BY DEF IInv, TypeOK
  <2>2. ASSUME NEW b \in BOOLEAN, r[1] = "subscribe"
        PROVE  Append(subacks, [topic |-> r[2], success |-> b])
                 \in Seq([topic : Topics, success : BOOLEAN])
    BY <1>3, <2>1, <2>2, AppendQueue
  <2> QED BY <1>2, <2>1, <2>2
<1>6. TypeOK'
  BY <1>1, <1>2, <1>3, <1>4, <1>5 DEF IInv, TypeOK
<1>7. ActorInv' /\ EnrolledInv' /\ ConfirmedAtFirst'
  BY <1>1 DEF IInv, ActorInv, EnrolledInv, ConfirmedAtFirst
<1>8. SoleAnswer'
  <2> SUFFICES ASSUME ~reconnect PROVE SoleAnswer'
    BY <1>1 DEF SoleAnswer
  <2> DEFINE t == Topic[pending_subscribe]
  <2>1. /\ OnlyFor(requests, t) /\ OnlyFor(backlog, t)
        /\ Quiet(requests) \/ Quiet(backlog)
        /\ subacks # <<>> => Quiet(requests) /\ Quiet(backlog)
        /\ pending_subscribe = None \/ current = pending_subscribe =>
             Quiet(requests) /\ Quiet(backlog)
    BY DEF IInv, SoleAnswer
  <2>2. /\ Quiet(requests) => Quiet(requests')
        /\ Quiet(backlog) => Quiet(backlog')
        /\ OnlyFor(requests', t) /\ OnlyFor(backlog', t)
        /\ Quiet(requests) /\ Quiet(backlog) => r[1] # "subscribe"
        /\ r[1] = "subscribe" =>
             Quiet(requests') /\ Quiet(backlog') /\ r[2] = t
    <3>1. CASE /\ backlog # <<>> /\ r = Head(backlog)
               /\ backlog' = Tail(backlog) /\ requests' = requests
      <4>1. /\ Quiet(backlog) => Quiet(Tail(backlog)) /\ r[1] # "subscribe"
            /\ OnlyFor(Tail(backlog), t)
            /\ r[1] = "subscribe" => Quiet(Tail(backlog)) /\ r[2] = t
        BY <1>1, <2>1, <3>1, TailQuiet
      <4> QED BY <2>1, <3>1, <4>1
    <3>2. CASE /\ requests # <<>> /\ r = Head(requests)
               /\ requests' = Tail(requests) /\ backlog' = backlog
      <4>1. /\ Quiet(requests) => Quiet(Tail(requests)) /\ r[1] # "subscribe"
            /\ OnlyFor(Tail(requests), t)
            /\ r[1] = "subscribe" => Quiet(Tail(requests)) /\ r[2] = t
        BY <1>1, <2>1, <3>2, TailQuiet
      <4> QED BY <2>1, <3>2, <4>1
    <3> QED BY <1>2, <3>1, <3>2
  <2>3. CASE r[1] = "publish"
    BY <1>1, <1>2, <2>1, <2>2, <2>3 DEF IInv, SoleAnswer
  <2>4. CASE r[1] = "subscribe"
    <3>1. /\ ~(Quiet(requests) /\ Quiet(backlog))
          /\ subacks = <<>>
          /\ pending_subscribe # None /\ current # pending_subscribe
      BY <2>1, <2>2, <2>4
    <3>2. Len(subacks') = 1 /\ Head(subacks').topic = t
      <4>1. PICK b \in BOOLEAN : subacks' = Append(<<>>, [topic |-> t, success |-> b])
        BY <1>2, <2>2, <2>4, <3>1
      <4> QED BY <4>1
    <3> QED BY <1>1, <2>2, <2>4, <3>1, <3>2 DEF SoleAnswer
  <2> QED BY <1>2, <2>3, <2>4
<1> QED BY <1>6, <1>7, <1>8 DEF IInv

(* While re-subscribing is off the SUBACK is that of the subscribe in      *)
(* flight, and the last one.                                               *)
LEMMA HandleSubackKeeps ==
  ASSUME IInv, HandleSuback
  PROVE  IInv'
<1> DEFINE a == Head(subacks)
           x == pending_subscribe
<1>1. /\ UNCHANGED <<topics, commands, actor, current, reconnect, todo, requests,
                     backlog, link, brokerSubs, errors, losses, failures>>
      /\ actor = "selecting" /\ subacks # <<>>
      /\ subacks' = Tail(subacks)
      /\ confirmed' = IF a.success THEN confirmed \cup {a.topic} ELSE confirmed
      /\ pending_subscribe' = None
      /\ pc' = [y \in Calls |->
                  IF y # pending_subscribe THEN pc[y]
                  ELSE IF a.success THEN "ok" ELSE "error"]
  BY DEF HandleSuback, clientVars
<1>2. /\ Tail(subacks) \in Seq([topic : Topics, success : BOOLEAN])
      /\ a \in [topic : Topics, success : BOOLEAN]
      /\ Len(subacks) \in Nat /\ Len(Tail(subacks)) = Len(subacks) - 1
  BY <1>1, TailQueue DEF IInv, TypeOK
<1>3. /\ pc' \in [Calls -> {"idle", "sent", "retrying", "ok", "error", "never"}]
      /\ \A y \in SubscribeCalls :
           pc'[y] = IF y # x THEN pc[y] ELSE IF a.success THEN "ok" ELSE "error"
  BY <1>1 DEF IInv, TypeOK, Calls
<1>4. current = None
  BY <1>1 DEF IInv, ActorInv
<1>5. TypeOK'
  BY <1>1, <1>2, <1>3 DEF IInv, TypeOK
<1>6. ActorInv'
  BY <1>1, <1>4, CallsAssumption DEF IInv, ActorInv, Calls
<1>7. EnrolledInv'
  BY <1>1, <1>3, CallsAssumption DEF IInv, EnrolledInv, Calls
<1>8. ~reconnect => /\ Quiet(requests) /\ Quiet(backlog)
                    /\ Len(subacks) = 1 /\ a.topic = Topic[x]
  BY <1>1 DEF IInv, SoleAnswer
<1>9. ConfirmedAtFirst'
  BY <1>1, <1>3, <1>8 DEF IInv, ConfirmedAtFirst
<1>10. SoleAnswer'
  <2> SUFFICES ASSUME ~reconnect PROVE SoleAnswer'
    BY <1>1 DEF SoleAnswer
  <2>1. subacks' = <<>>
    BY <1>1, <1>2, <1>8
  <2>2. \A t : OnlyFor(requests, t) /\ OnlyFor(backlog, t)
    BY <1>8, QuietOnly
  <2> QED BY <1>1, <1>8, <2>1, <2>2 DEF SoleAnswer, Quiet, OnlyFor
<1> QED BY <1>5, <1>6, <1>7, <1>9, <1>10 DEF IInv

-----------------------------------------------------------------------------
(* Nothing happens.                                                        *)
LEMMA StutterKeeps == IInv /\ UNCHANGED vars => IInv'
BY DEF IInv, TypeOK, ActorInv, EnrolledInv, SoleAnswer, Quiet, OnlyFor,
   ConfirmedAtFirst, vars, callVars, actorVars, clientVars, brokerVars

(* Every step preserves the inductive invariant.                           *)
THEOREM StepIInv == IInv /\ [Next]_vars => IInv'
<1> SUFFICES ASSUME IInv, [Next]_vars PROVE IInv'
  OBVIOUS
<1>1. CASE \/ \E x \in SubscribeCalls : Subscribe(x) \/ RetrySubscribe(x)
           \/ \E x \in PublishCalls : Publish(x)
           \/ \E x \in CloseCalls : Close(x)
  BY <1>1, CallerKeeps DEF Calls
<1>2. CASE ReceiveCommand \/ Call \/ CallFails \/ Stop \/ Abandon
  BY <1>2, ReceiveCommandKeeps, CallStepKeeps, CallFailsKeeps, StopKeeps
<1>3. CASE \/ Connect
           \/ Resubscribe
           \/ \E kind \in ErrorKinds : ConnectFails(kind) \/ LoseLink(kind)
           \/ WakeUp
  BY <1>3, ConnectKeeps, ResubscribeKeeps, PollErrorKeeps, WakeUpKeeps
<1>4. CASE Flush \/ HandleSuback
  BY <1>4, FlushKeeps, HandleSubackKeeps
<1>5. CASE UNCHANGED vars
  BY <1>5, StutterKeeps
<1> QED BY <1>1, <1>2, <1>3, <1>4, <1>5 DEF Next

(* The inductive invariant holds throughout every behaviour.               *)
THEOREM Invariance == Safety => []IInv
BY InitIInv, StepIInv, PTL DEF Safety

(* Types of the transport, its client and the connection; the client's     *)
(* request channel never holds more than it has room for.                  *)
THEOREM TypeCorrect == Spec => []TypeOK
<1>1. IInv => TypeOK
  BY DEF IInv
<1> QED BY <1>1, Invariance, PTL DEF Spec

(* handle_suback() of an actor that has seen no disconnect completes a     *)
(* subscribe() by its own SUBACK, although SUBACKs name no topic.          *)
THEOREM ConfirmedAtFirstTheorem == Spec => []ConfirmedAtFirst
<1>1. IInv => ConfirmedAtFirst
  BY DEF IInv
<1> QED BY <1>1, Invariance, PTL DEF Spec

-----------------------------------------------------------------------------
(* What is subscribed stays so, or will be told again: after an unnoticed  *)
(* loss from the first disconnect on.                                      *)

(* A SUBACK for topic t is coming, as PendingIsAnswerable has it.          *)
Coming(t) ==
  \/ <<"subscribe", t>> \in ToSet(requests)
  \/ link = "up" /\ <<"subscribe", t>> \in ToSet(backlog)
  \/ \E a \in ToSet(subacks) : a.topic = t
  \/ t \in todo
  \/ link = "down" /\ reconnect /\ t \in topics

(* A step after which whatever is known or coming still is.                *)
KeepsKnown ==
  /\ MentionedInv'
  /\ LostUnnoticed' <=> LostUnnoticed
  /\ \A a \in ToSet(subacks') : a \in ToSet(subacks) \/ Known(a.topic)'
  /\ \A t \in topics : /\ Known(t) => Known(t)'
                       /\ Coming(t) => Coming(t)'

(* At first nothing is in flight and nobody has returned.                  *)
LEMMA InitKnown == Init => KnownInv
BY EmptyQueue
   DEF Init, KnownInv, MentionedInv, PendingIsAnswerable, Calls

(* A step that keeps what is known and completes no subscribe.             *)
LEMMA FromKeepsKnown ==
  ASSUME IInv, KnownInv, KeepsKnown,
         actor = "stopped" => actor' = "stopped",
         \A x \in SubscribeCalls : pc'[x] = "ok" => pc[x] = "ok",
         pending_subscribe' \in {None, pending_subscribe, current'},
         current = pending_subscribe /\ pending_subscribe' = pending_subscribe
           => \/ pending_subscribe = None
              \/ current' = pending_subscribe
              \/ Coming(Topic[pending_subscribe])'
  PROVE  KnownInv'
<1>1. MentionedInv' /\ (LostUnnoticed' <=> LostUnnoticed)
  BY DEF KeepsKnown
<1>2. PendingIsAnswerable'
  <2> SUFFICES ASSUME NEW x, x = pending_subscribe, x = pending_subscribe',
                      x # None, current' # x, ~LostUnnoticed
               PROVE  Coming(Topic[x])'
    BY <1>1 DEF PendingIsAnswerable, Coming
  <2>1. x \in SubscribeCalls
    BY DEF IInv, TypeOK
  <2>2. Topic[x] \in topics
    BY <2>1 DEF IInv, EnrolledInv
  <2>3. current = x \/ Coming(Topic[x])
    BY DEF KnownInv, PendingIsAnswerable, Coming
  <2>4. CASE Coming(Topic[x])
    BY <2>2, <2>4 DEF KeepsKnown
  <2>5. CASE current = x
    <3> DEFINE t == Topic[x]
    <3>1. Topic[pending_subscribe]' = t
      OBVIOUS
    <3>2. Coming(Topic[pending_subscribe])' <=> Coming(t)'
      BY <3>1 DEF Coming
    <3> QED BY <2>5, <3>2
  <2> QED BY <2>3, <2>4, <2>5
<1>3. ASSUME ~LostUnnoticed, actor' # "stopped",
             NEW x \in SubscribeCalls, pc'[x] = "ok"
      PROVE  Known(Topic[x])'
  <2>1. actor # "stopped" /\ pc[x] = "ok"
    BY <1>3
  <2>2. Topic[x] \in topics
    BY <2>1 DEF IInv, EnrolledInv
  <2>3. Known(Topic[x])
    BY <1>3, <2>1 DEF KnownInv
  <2> QED BY <2>2, <2>3 DEF KeepsKnown
<1>4. ASSUME ~LostUnnoticed, NEW a \in ToSet(subacks')
      PROVE  Known(a.topic)'
  <2>1. CASE a \in ToSet(subacks)
    <3>1. Known(a.topic) /\ a.topic \in topics
      BY <1>4, <2>1 DEF KnownInv, MentionedInv
    <3> QED BY <3>1 DEF KeepsKnown
  <2> QED BY <2>1 DEF KeepsKnown
<1> QED BY <1>1, <1>2, <1>3, <1>4 DEF KnownInv

(* A step that may add to the map and to the requests, those of todo among *)
(* them, and leaves the connection alone.                                  *)
LEMMA OfflineKeepsKnown ==
  ASSUME KnownInv, UNCHANGED <<link, subacks, brokerSubs, backlog>>,
         LostUnnoticed' <=> LostUnnoticed,
         topics \subseteq topics', reconnect => reconnect',
         ToSet(requests) \subseteq ToSet(requests'),
         \A t : <<"subscribe", t>> \in ToSet(requests') =>
                 <<"subscribe", t>> \in ToSet(requests) \/ t \in topics',
         \A t \in todo : t \in todo' \/ <<"subscribe", t>> \in ToSet(requests')
  PROVE  KeepsKnown
<1>1. MentionedInv'
  BY DEF KnownInv, MentionedInv
<1> QED BY <1>1 DEF KeepsKnown, Known, Coming

(* Calls that begin or try again.                                          *)
LEMMA CallerKnown ==
  ASSUME IInv, KnownInv, NEW x \in Calls,
         \/ x \in SubscribeCalls /\ (Subscribe(x) \/ RetrySubscribe(x))
         \/ x \in PublishCalls /\ Publish(x)
         \/ x \in CloseCalls /\ Close(x)
  PROVE  KnownInv'
<1>1. /\ SendCommand(x)
      /\ UNCHANGED <<actor, current, pending_subscribe, reconnect, todo,
                     requests, backlog, link, subacks, brokerSubs, errors,
                     losses>>
      /\ topics \subseteq topics'
  BY DEF Subscribe, RetrySubscribe, Publish, Close, Enrolled, actorVars,
     clientVars, brokerVars
<1>2. KeepsKnown
  BY <1>1, OfflineKeepsKnown DEF LostUnnoticed
<1>3. \A y \in SubscribeCalls : pc'[y] = "ok" => pc[y] = "ok"
  BY <1>1, SendCommandFacts
<1> QED BY <1>1, <1>2, <1>3, FromKeepsKnown

(* The actor takes up a command, calls the client, or fails to.            *)
LEMMA CommandKnown ==
  ASSUME IInv, KnownInv, ReceiveCommand \/ Call \/ CallFails
  PROVE  KnownInv'
<1>1. CASE ReceiveCommand
  <2>1. KeepsKnown
    BY <1>1, OfflineKeepsKnown
       DEF ReceiveCommand, LostUnnoticed, clientVars, brokerVars
  <2>2. /\ actor' # "stopped"  /\ actor = "selecting"
        /\ pending_subscribe' \in {None, pending_subscribe, current'}
        /\ current' = current \/ pending_subscribe' = current'
           \/ pending_subscribe' = pending_subscribe
    BY <1>1 DEF ReceiveCommand
  <2>3. current = None
    BY <2>2 DEF IInv, ActorInv
  <2>4. Head(commands) \in Calls
    BY <1>1, TailQueue DEF ReceiveCommand, IInv, TypeOK
  <2>5. \A y \in SubscribeCalls : pc'[y] = "ok" => pc[y] = "ok"
    BY <1>1, <2>4 DEF ReceiveCommand, IInv, TypeOK, Calls
  <2> QED BY <2>1, <2>2, <2>3, <2>5, FromKeepsKnown
<1>2. CASE Call
  <2>1. /\ UNCHANGED <<topics, pending_subscribe, reconnect, todo, backlog,
                       link, subacks, brokerSubs, errors, losses>>
        /\ actor = "calling" /\ actor' = "selecting"
        /\ current \notin CloseCalls
        /\ requests' = Append(requests, RequestOf(current))
        /\ pc' = IF current \in PublishCalls
                 THEN [pc EXCEPT ![current] = "ok"] ELSE pc
    BY <1>2 DEF Call, brokerVars
  <2>2. /\ current \in PublishCalls \cup SubscribeCalls
        /\ requests \in Seq(Requests)
    BY <2>1 DEF IInv, TypeOK, ActorInv, Calls
  <2>3. RequestOf(current) \in Requests
    BY <2>2, CallsAssumption DEF RequestOf, Requests, Topics
  <2>4. ToSet(requests') = ToSet(requests) \cup {RequestOf(current)}
    BY <2>1, <2>2, <2>3, AppendQueue
  <2>5. ASSUME NEW t, RequestOf(current) = <<"subscribe", t>>
        PROVE  t \in topics
    <3>1. current \in SubscribeCalls /\ t = Topic[current]
      BY <2>2, <2>5 DEF RequestOf
    <3> QED BY <3>1, CallsAssumption DEF IInv, ActorInv, EnrolledInv, Calls
  <2>6. KeepsKnown
    BY <2>1, <2>4, <2>5, OfflineKeepsKnown DEF LostUnnoticed
  <2>7. \A y \in SubscribeCalls : pc'[y] = "ok" => pc[y] = "ok"
    BY <2>1, <2>2, CallsAssumption DEF IInv, TypeOK, Calls
  <2>8. ASSUME current = pending_subscribe
        PROVE  Coming(Topic[pending_subscribe])'
    <3>1. current \in SubscribeCalls /\ current \notin PublishCalls
      BY <2>1, <2>8, CallsAssumption DEF IInv, TypeOK, ActorInv
    <3>2. <<"subscribe", Topic[pending_subscribe]>> \in ToSet(requests')
      BY <2>4, <2>8, <3>1 DEF RequestOf
    <3> QED BY <2>1, <3>2 DEF Coming
  <2> QED BY <2>1, <2>6, <2>7, <2>8, FromKeepsKnown
<1>3. CASE CallFails
  <2>1. /\ UNCHANGED <<topics, reconnect, todo, requests, backlog, link,
                       subacks, brokerSubs, errors, losses>>
        /\ actor = "calling" /\ actor' = "selecting"
        /\ pc' = [pc EXCEPT ![current] = "error"]
        /\ pending_subscribe' = IF current \in SubscribeCalls THEN None
                                ELSE pending_subscribe
    BY <1>3 DEF CallFails, clientVars, brokerVars
  <2>2. KeepsKnown
    BY <2>1, OfflineKeepsKnown DEF LostUnnoticed
  <2>3. \A y \in SubscribeCalls : pc'[y] = "ok" => pc[y] = "ok"
    BY <2>1 DEF IInv, TypeOK, Calls
  <2>4. current = pending_subscribe /\ pending_subscribe' = pending_subscribe
          => pending_subscribe = None
    BY <2>1 DEF IInv, TypeOK
  <2> QED BY <2>1, <2>2, <2>3, <2>4, FromKeepsKnown
<1> QED BY <1>1, <1>2, <1>3

(* A stopped actor leaves nothing in flight.                               *)
LEMMA TaskEndsKnown ==
  ASSUME TaskEnds
  PROVE  KnownInv'
BY EmptyQueue DEF TaskEnds, KnownInv, MentionedInv, PendingIsAnswerable

(* With the connection all topics come back that the actor has to repeat.  *)
LEMMA ConnectKnown ==
  ASSUME IInv, KnownInv, Connect
  PROVE  KnownInv'
<1>1. /\ UNCHANGED <<pc, topics, current, pending_subscribe, reconnect,
                     requests, subacks, brokerSubs, errors, losses>>
      /\ actor = "selecting" /\ link = "down" /\ link' = "up"
      /\ backlog' \in {backlog, <<>>}
      /\ todo' = IF reconnect THEN topics ELSE {}
      /\ actor' # "stopped"
  BY DEF Connect, Resubscribes, callVars
<1>2. todo = {} /\ current = None
  BY <1>1 DEF IInv, ActorInv
<1>3. KeepsKnown
  <2>1. MentionedInv'
    BY <1>1, EmptyQueue DEF KnownInv, MentionedInv
  <2> QED BY <1>1, <1>2, <2>1 DEF KeepsKnown, Known, Coming, LostUnnoticed
<1> QED BY <1>1, <1>2, <1>3, FromKeepsKnown

(* Each topic that is repeated is among the requests.                      *)
LEMMA ResubscribeKnown ==
  ASSUME IInv, KnownInv, Resubscribe
  PROVE  KnownInv'
<1>1. /\ UNCHANGED <<pc, topics, current, pending_subscribe, reconnect, backlog,
                     link, subacks, brokerSubs, errors, losses>>
      /\ actor = "resubscribing" /\ actor' # "stopped"
  BY DEF Resubscribe, callVars, brokerVars
<1>2. PICK t \in todo :
        /\ requests' = Append(requests, <<"subscribe", t>>)
        /\ todo' = todo \ {t}
  BY DEF Resubscribe
<1>3. requests \in Seq(Requests) /\ <<"subscribe", t>> \in Requests
  BY <1>2 DEF IInv, TypeOK, Requests
<1>4. ToSet(requests') = ToSet(requests) \cup {<<"subscribe", t>>}
  BY <1>2, <1>3, AppendQueue
<1>5. t \in topics
  BY <1>2 DEF IInv, TypeOK
<1>6. KeepsKnown
  BY <1>1, <1>2, <1>4, <1>5, OfflineKeepsKnown DEF LostUnnoticed
<1> QED BY <1>1, <1>6, FromKeepsKnown

(* From the first disconnect on the next connection repeats every topic of *)
(* the map, and those are all topics there are; a loss before it that is   *)
(* no disconnect goes unnoticed.                                           *)
LEMMA PollErrorKnown ==
  ASSUME IInv, KnownInv, NEW kind \in ErrorKinds,
         ConnectFails(kind) \/ LoseLink(kind)
  PROVE  KnownInv'
<1>1. /\ UNCHANGED <<pc, topics, current, pending_subscribe, todo>>
      /\ actor = "selecting" /\ actor' # "stopped"
      /\ reconnect' <=> reconnect \/ kind = "disconnect"
      /\ errors' = errors \cup {kind}
      /\ link' = "down"
  BY DEF ConnectFails, LoseLink, PollError, Reconnects, callVars, IInv, TypeOK
<1>2. MentionedInv'
  <2>1. CASE ConnectFails(kind)
    BY <1>1, <2>1 DEF ConnectFails, KnownInv, MentionedInv, clientVars
  <2>2. CASE LoseLink(kind)
    <3>1. /\ backlog' = backlog \o requests /\ requests' = <<>>
          /\ \E n \in 0 .. Len(subacks) : subacks' = SubSeq(subacks, 1, n)
      BY <2>2 DEF LoseLink
    <3>2. /\ ToSet(backlog') = ToSet(backlog) \cup ToSet(requests)
          /\ ToSet(requests') = {}
          /\ ToSet(subacks') \subseteq ToSet(subacks)
      BY <3>1, ConcatQueue, EmptyQueue, PrefixQueue DEF IInv, TypeOK
    <3> QED BY <1>1, <3>2 DEF KnownInv, MentionedInv
  <2> QED BY <2>1, <2>2
<1>3. CASE reconnect'
  <2>1. \A t \in topics : Known(t)' /\ Coming(t)'
    BY <1>1, <1>3 DEF Known, Coming
  <2>2. \A a \in ToSet(subacks') : Known(a.topic)'
    BY <1>1, <1>2, <2>1 DEF MentionedInv
  <2>3. \A x \in SubscribeCalls : pc'[x] = "ok" => Known(Topic[x])'
    BY <1>1, <2>1 DEF IInv, EnrolledInv
  <2>4. PendingIsAnswerable'
    BY <1>1, <1>3 DEF PendingIsAnswerable, IInv, TypeOK, EnrolledInv
  <2> QED BY <1>2, <2>2, <2>3, <2>4 DEF KnownInv
<1>4. CASE ~reconnect' /\ ConnectFails(kind)
  <2>1. UNCHANGED <<requests, backlog, link, subacks, brokerSubs, losses>>
    BY <1>4 DEF ConnectFails, clientVars
  <2>2. LostUnnoticed' <=> LostUnnoticed
    BY <1>1, <1>4, <2>1 DEF LostUnnoticed, ErrorKinds
  <2>3. KeepsKnown
    BY <1>1, <2>1, <2>2, OfflineKeepsKnown
  <2> QED BY <1>1, <2>3, FromKeepsKnown
<1>5. CASE ~reconnect' /\ LoseLink(kind)
  <2>1. losses' > 0
    BY <1>5, LinkAssumption DEF LoseLink, IInv, TypeOK
  <2>2. "disconnect" \notin errors'
    BY <1>1, <1>5 DEF IInv, ActorInv, ErrorKinds
  <2>3. LostUnnoticed'
    BY <2>1, <2>2 DEF LostUnnoticed
  <2> QED BY <1>2, <2>3 DEF KnownInv, PendingIsAnswerable
<1> QED BY <1>3, <1>4, <1>5

(* A SUBSCRIBE that is sent is acknowledged: granted, or refused where the *)
(* broker may.                                                             *)
LEMMA FlushKnown ==
  ASSUME IInv, KnownInv, Flush
  PROVE  KnownInv'
<1>1. /\ UNCHANGED <<pc, topics, actor, current, pending_subscribe, reconnect,
                     todo, link, errors, losses>>
      /\ actor = "selecting" /\ link = "up"
      /\ requests \in Seq(Requests) /\ backlog \in Seq(Requests)
  BY FlushFacts
<1>2. PICK r \in Requests :
        /\ \/ /\ backlog # <<>> /\ r = Head(backlog)
              /\ backlog' = Tail(backlog) /\ requests' = requests
           \/ /\ requests # <<>> /\ r = Head(requests)
              /\ requests' = Tail(requests) /\ backlog' = backlog
        /\ \/ /\ r[1] = "subscribe"
              /\ brokerSubs' = brokerSubs \cup {r[2]}
              /\ subacks' = Append(subacks, [topic |-> r[2], success |-> TRUE])
           \/ /\ r[1] = "subscribe"
              /\ r[2] \in Refusable
              /\ subacks' = Append(subacks, [topic |-> r[2], success |-> FALSE])
              /\ UNCHANGED brokerSubs
           \/ /\ r[1] = "publish"
              /\ UNCHANGED <<brokerSubs, subacks>>
  BY FlushFacts
<1>3. /\ ToSet(requests) \subseteq ToSet(requests') \cup {r}
      /\ ToSet(backlog) \subseteq ToSet(backlog') \cup {r}
      /\ ToSet(requests') \subseteq ToSet(requests)
      /\ ToSet(backlog') \subseteq ToSet(backlog)
      /\ r \in ToSet(requests) \cup ToSet(backlog)
  <2>1. CASE backlog # <<>> /\ r = Head(backlog) /\ backlog' = Tail(backlog)
             /\ requests' = requests
    BY <1>1, <2>1, TailQueue
  <2>2. CASE requests # <<>> /\ r = Head(requests) /\ requests' = Tail(requests)
             /\ backlog' = backlog
    BY <1>1, <2>2, TailQueue
  <2> QED BY <1>2, <2>1, <2>2
<1>4. /\ brokerSubs \subseteq brokerSubs'
      /\ ToSet(subacks) \subseteq ToSet(subacks')
      /\ \A a \in ToSet(subacks') :
           \/ a \in ToSet(subacks)
           \/ /\ a.topic \in brokerSubs' \cup Refusable
              /\ r[1] = "subscribe" /\ a.topic = r[2]
      /\ r[1] = "subscribe" => /\ r[2] \in brokerSubs' \cup Refusable
                               /\ \E a \in ToSet(subacks') : a.topic = r[2]
  <2>1. CASE r[1] = "publish" /\ UNCHANGED <<brokerSubs, subacks>>
    BY <2>1
  <2>2. CASE r[1] = "subscribe"
    <3>1. r[2] \in Topics
      BY <2>2, CallsAssumption DEF Requests
    <3>2. PICK b \in BOOLEAN :
            subacks' = Append(subacks, [topic |-> r[2], success |-> b])
      BY <1>2, <2>2
    <3> DEFINE a == [topic |-> r[2], success |-> b]
               S == [topic : Topics, success : BOOLEAN]
    <3>3. subacks \in Seq(S) /\ a \in S
      BY <3>1 DEF IInv, TypeOK
    <3>4. brokerSubs \subseteq brokerSubs' /\ r[2] \in brokerSubs' \cup Refusable
      BY <1>2, <2>2
    <3>5. a.topic = r[2] /\ subacks' = Append(subacks, a)
      BY <3>2
    <3> HIDE DEF a, S
    <3>6. ToSet(subacks') = ToSet(subacks) \cup {a}
      BY <3>3, <3>5, AppendQueue
    <3> QED BY <2>2, <3>4, <3>5, <3>6
  <2> QED BY <1>2, <2>1, <2>2
<1>5. KeepsKnown
  <2>1. MentionedInv'
    <3>1. r[1] = "subscribe" => r = <<"subscribe", r[2]>>
      BY DEF Requests
    <3>2. r[1] = "subscribe" => r[2] \in topics
      BY <1>3, <3>1 DEF KnownInv, MentionedInv
    <3> QED BY <1>1, <1>3, <1>4, <3>2 DEF KnownInv, MentionedInv
  <2>2. ASSUME NEW t \in topics,
               \/ <<"subscribe", t>> \in ToSet(requests)
               \/ <<"subscribe", t>> \in ToSet(backlog)
        PROVE  \/ <<"subscribe", t>> \in ToSet(requests')
               \/ <<"subscribe", t>> \in ToSet(backlog')
               \/ /\ t \in brokerSubs' \cup Refusable
                  /\ \E a \in ToSet(subacks') : a.topic = t
    <3>1. CASE r = <<"subscribe", t>>
      <4>1. r[1] = "subscribe" /\ r[2] = t
        BY <3>1
      <4> QED BY <1>4, <4>1
    <3>2. CASE r # <<"subscribe", t>>
      BY <1>3, <2>2, <3>2
    <3> QED BY <3>1, <3>2
  <2>3. ASSUME NEW t \in topics, Known(t) PROVE Known(t)'
    BY <1>1, <1>4, <2>2, <2>3 DEF Known
  <2>4. ASSUME NEW t \in topics, Coming(t) PROVE Coming(t)'
    BY <1>1, <1>4, <2>2, <2>4 DEF Coming
  <2>5. \A a \in ToSet(subacks') : a \in ToSet(subacks) \/ Known(a.topic)'
    BY <1>1, <1>4 DEF Known
  <2>6. LostUnnoticed' <=> LostUnnoticed
    BY <1>1 DEF LostUnnoticed
  <2> QED BY <2>1, <2>3, <2>4, <2>5, <2>6 DEF KeepsKnown
<1> QED BY <1>1, <1>5, FromKeepsKnown

(* The subscribe that a SUBACK completes, its own or not, is known: its    *)
(* SUBACK was coming.                                                      *)
LEMMA HandleSubackKnown ==
  ASSUME IInv, KnownInv, HandleSuback
  PROVE  KnownInv'
<1> DEFINE x == pending_subscribe
<1>1. /\ UNCHANGED <<topics, actor, current, reconnect, todo, requests, backlog,
                     link, brokerSubs, errors, losses>>
      /\ actor = "selecting" /\ link = "up" /\ subacks # <<>>
      /\ subacks' = Tail(subacks)
      /\ pending_subscribe' = None
      /\ \A y \in SubscribeCalls : pc'[y] = "ok" => pc[y] = "ok" \/ y = x
  BY DEF HandleSuback, clientVars, Calls
<1>2. ToSet(subacks') \subseteq ToSet(subacks)
  BY <1>1, TailQueue DEF IInv, TypeOK
<1>3. MentionedInv' /\ PendingIsAnswerable'
  BY <1>1, <1>2 DEF KnownInv, MentionedInv, PendingIsAnswerable
<1>4. ~LostUnnoticed /\ x # None => Known(Topic[x])
  <2> SUFFICES ASSUME ~LostUnnoticed, x # None PROVE Known(Topic[x])
    OBVIOUS
  <2>1. current = None
    BY <1>1 DEF IInv, ActorInv
  <2>2. Coming(Topic[x])
    BY <2>1 DEF KnownInv, PendingIsAnswerable, Coming
  <2> QED BY <1>1, <2>2 DEF KnownInv, Coming, Known
<1>5. ASSUME ~LostUnnoticed, NEW y \in SubscribeCalls, pc'[y] = "ok"
      PROVE  Known(Topic[y])'
  <2>1. Known(Topic[y])
    BY <1>1, <1>4, <1>5, CallsAssumption DEF KnownInv, Calls
  <2> QED BY <1>1, <2>1 DEF Known
<1>6. ASSUME ~LostUnnoticed, NEW a \in ToSet(subacks')
      PROVE  Known(a.topic)'
  BY <1>1, <1>2, <1>6 DEF KnownInv, Known
<1>7. LostUnnoticed' <=> LostUnnoticed
  BY <1>1 DEF LostUnnoticed
<1> QED BY <1>3, <1>5, <1>6, <1>7 DEF KnownInv

(* Steps that no lemma above is about: a timer fires, or nothing happens.  *)
LEMMA IdleKnown ==
  ASSUME IInv, KnownInv, WakeUp \/ UNCHANGED vars
  PROVE  KnownInv'
<1>1. /\ UNCHANGED <<pc, topics, current, pending_subscribe, reconnect, todo,
                     requests, backlog, link, subacks, brokerSubs, errors,
                     losses>>
      /\ actor = "stopped" => actor' = "stopped"
  BY DEF WakeUp, vars, callVars, actorVars, clientVars, brokerVars
<1>2. KeepsKnown
  BY <1>1, OfflineKeepsKnown DEF LostUnnoticed
<1> QED BY <1>1, <1>2, FromKeepsKnown

(* Every step preserves the second invariant.                              *)
LEMMA StepKnown == IInv /\ KnownInv /\ [Next]_vars => KnownInv'
<1> SUFFICES ASSUME IInv, KnownInv, [Next]_vars PROVE KnownInv'
  OBVIOUS
<1>1. CASE \/ \E x \in SubscribeCalls : Subscribe(x) \/ RetrySubscribe(x)
           \/ \E x \in PublishCalls : Publish(x)
           \/ \E x \in CloseCalls : Close(x)
  BY <1>1, CallerKnown DEF Calls
<1>2. CASE ReceiveCommand \/ Call \/ CallFails
  BY <1>2, CommandKnown
<1>3. CASE Stop \/ Abandon
  BY <1>3, TaskEndsKnown DEF Stop, Abandon
<1>4. CASE Connect \/ Resubscribe
  BY <1>4, ConnectKnown, ResubscribeKnown
<1>5. CASE \E kind \in ErrorKinds : ConnectFails(kind) \/ LoseLink(kind)
  BY <1>5, PollErrorKnown
<1>6. CASE Flush \/ HandleSuback
  BY <1>6, FlushKnown, HandleSubackKnown
<1>7. CASE WakeUp \/ UNCHANGED vars
  BY <1>7, IdleKnown
<1> QED BY <1>1, <1>2, <1>3, <1>4, <1>5, <1>6, <1>7 DEF Next

(* The second inductive invariant holds throughout every behaviour.        *)
THEOREM KnownInvariance == Safety => []KnownInv
<1>1. IInv /\ KnownInv /\ [Next]_vars => KnownInv'
  BY StepKnown
<1> QED BY <1>1, InitKnown, Invariance, PTL DEF Safety

(* The subscribe in flight, which every other subscribe() waits for, has a *)
(* SUBACK coming whatever errors poll() has returned, unless it has lost   *)
(* connections and returned no error that is_disconnect() recognises.      *)
THEOREM PendingIsAnswerableTheorem == Spec => []PendingIsAnswerable
<1>1. KnownInv => PendingIsAnswerable
  BY DEF KnownInv
<1>2. Safety => []KnownInv
  BY KnownInvariance
<1> QED BY <1>1, <1>2, PTL DEF Spec

(* From the first error that is_disconnect() recognises on, re-subscribing *)
(* on every ConnAck brings back the subscriptions of all subscribe() calls *)
(* that returned Ok, also of one that returned on a SUBACK that was not    *)
(* its own or was one of an earlier connection, and also those that losses *)
(* had taken away unnoticed.                                               *)
THEOREM SubscriptionsRestoredTheorem == Spec => []SubscriptionsRestored
<1>1. IInv /\ KnownInv => SubscriptionsRestored
  <2> SUFFICES ASSUME IInv, KnownInv, link = "up", actor = "selecting",
                      backlog \o requests = <<>>, ~LostUnnoticed,
                      NEW x \in SubscribeCalls, pc[x] = "ok"
               PROVE  Topic[x] \in brokerSubs \cup Refusable
    BY DEF SubscriptionsRestored
  <2>1. todo = {}
    BY DEF IInv, ActorInv
  <2>2. ToSet(requests) = {} /\ ToSet(backlog) = {}
    <3>1. ToSet(backlog \o requests) = ToSet(backlog) \cup ToSet(requests)
      BY ConcatQueue DEF IInv, TypeOK
    <3>2. ToSet(backlog \o requests) = {}
      BY EmptyQueue
    <3> QED BY <3>1, <3>2
  <2>3. Known(Topic[x])
    BY DEF KnownInv
  <2> QED BY <2>1, <2>2, <2>3 DEF Known
<1>2. Safety => []KnownInv
  BY KnownInvariance
<1> QED BY <1>1, <1>2, Invariance, PTL DEF Spec

=============================================================================

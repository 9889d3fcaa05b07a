-------------------------- MODULE RedisActorProofs --------------------------
(***************************************************************************)
(* Theorems about RedisActor, for any number of calls, topics and          *)
(* messages, and for any capacity of the inboxes.  What the inboxes get is *)
(* decided by the fan-out alone: it is proved of Fanout, whose steps are   *)
(* the only ones of the actor that touch the map or an inbox.              *)
(***************************************************************************)
EXTENDS RedisActor, SequenceTheorems, TLAPS

Copied(s) == F!Contains(senders, s)
Survived(s) == F!Contains(survivors, s)

(* Nobody that was copied has been evicted yet.                            *)
NobodyEvicted == Len(senders) + Len(survivors) = original

(* s is where a subscriber has to be that was offered the first n messages *)
(* of its topic and took them: it has those since it subscribed, or has    *)
(* dropped its handle in the meantime.                                     *)
UpTo(s, n) ==
  IF state[s] = "dropped"
  THEN since[s] >= n
  ELSE /\ since[s] <= n
       /\ F!Delivered(s) = [i \in 1 .. n - since[s] |-> since[s] + i]

(* Who is registered has subscribed to the topic, and once.                *)
MapInv ==
  \A t \in Topics :
    /\ F!IsInjective(subscribers[t])
    /\ \A s \in SubscribeCalls :
         F!Contains(subscribers[t], s) => TopicOf[s] = t /\ state[s] # "idle"

(* Who is copied has subscribed to the topic of the message, and is tried  *)
(* once; each that is tried survives or is evicted.                        *)
CopiesInv ==
  /\ F!IsInjective(senders) /\ F!IsInjective(survivors)
  /\ \A s \in SubscribeCalls :
       /\ Copied(s) \/ Survived(s) => TopicOf[s] = topic /\ state[s] # "idle"
       /\ ~(Copied(s) /\ Survived(s))
  /\ Len(senders) + Len(survivors) <= original
  /\ topic = None => senders = <<>> /\ survivors = <<>>
  /\ topic # None => arrived[topic] >= 1

(* How far s has come: in a fan-out, who is still to be tried is one       *)
(* message behind, who survived is not; and while nobody has been evicted  *)
(* all others in the map have subscribed in the meantime.                  *)
Progress(s) ==
  LET n == arrived[TopicOf[s]] IN
  /\ since[s] <= n
  /\ state[s] = "idle" => F!Delivered(s) = <<>>
  /\ Copied(s) => UpTo(s, n - 1)
  /\ Survived(s) => UpTo(s, n)
  /\ /\ F!Registered(s) /\ ~Copied(s)
     /\ topic = TopicOf[s] => NobodyEvicted
     => UpTo(s, n)

(* The inductive invariant of the fan-out.                                 *)
FanoutInv ==
  /\ F!TypeOK
  /\ MapInv
  /\ CopiesInv
  /\ \A s \in SubscribeCalls : Progress(s)
  /\ NoGaps

(* The inductive invariant of the rest.                                    *)
ActorInv == TypeOK /\ (actor = "subscribing" => current # None)

-----------------------------------------------------------------------------
(* Lists.                                                                  *)

(* The empty list.                                                         *)
LEMMA EmptyList ==
  ASSUME NEW S
  PROVE  /\ <<>> \in Seq(S) /\ Len(<<>>) = 0
         /\ F!IsInjective(<<>>)
         /\ \A y : ~F!Contains(<<>>, y)
BY DEF F!IsInjective, F!Contains

(* A list without repetition to which somebody new is added.               *)
LEMMA AppendList ==
  ASSUME NEW S, NEW q \in Seq(S), NEW x \in S,
         F!IsInjective(q), ~F!Contains(q, x)
  PROVE  /\ Append(q, x) \in Seq(S)
         /\ Len(Append(q, x)) = Len(q) + 1
         /\ F!IsInjective(Append(q, x))
         /\ \A y \in S :
              F!Contains(Append(q, x), y) <=> F!Contains(q, y) \/ y = x
<1>1. /\ Append(q, x) \in Seq(S)
      /\ Len(Append(q, x)) = Len(q) + 1
      /\ DOMAIN Append(q, x) = 1 .. Len(q) + 1
      /\ \A i \in 1 .. Len(q) : Append(q, x)[i] = q[i]
      /\ Append(q, x)[Len(q) + 1] = x
  OBVIOUS
<1>2. F!IsInjective(Append(q, x))
  BY <1>1 DEF F!IsInjective, F!Contains
<1>3. ASSUME NEW y \in S
      PROVE  F!Contains(Append(q, x), y) <=> F!Contains(q, y) \/ y = x
  BY <1>1 DEF F!Contains
<1> QED BY <1>1, <1>2, <1>3

(* A list without repetition without its first.                            *)
LEMMA TailList ==
  ASSUME NEW S, NEW q \in Seq(S), q # <<>>, F!IsInjective(q)
  PROVE  /\ Tail(q) \in Seq(S)
         /\ Head(q) \in S
         /\ Len(Tail(q)) = Len(q) - 1
         /\ F!IsInjective(Tail(q))
         /\ F!Contains(q, Head(q))
         /\ \A y \in S :
              F!Contains(Tail(q), y) <=> F!Contains(q, y) /\ y # Head(q)
<1>1. /\ Tail(q) \in Seq(S)
      /\ Len(q) \in Nat \ {0}
      /\ Len(Tail(q)) = Len(q) - 1
      /\ DOMAIN Tail(q) = 1 .. Len(q) - 1
      /\ DOMAIN q = 1 .. Len(q)
      /\ \A i \in 1 .. Len(q) - 1 : Tail(q)[i] = q[i + 1]
      /\ Head(q) = q[1] /\ Head(q) \in S
  OBVIOUS
<1>2. F!IsInjective(Tail(q))
  BY <1>1 DEF F!IsInjective
<1>3. F!Contains(q, Head(q))
  BY <1>1 DEF F!Contains
<1>4. ASSUME NEW y \in S
      PROVE  F!Contains(Tail(q), y) <=> F!Contains(q, y) /\ y # Head(q)
  <2>1. ASSUME NEW i \in 1 .. Len(q), q[i] = y, y # Head(q)
        PROVE  F!Contains(Tail(q), y)
    <3>1. i - 1 \in 1 .. Len(Tail(q)) /\ Tail(q)[i - 1] = y
      BY <1>1, <2>1
    <3> QED BY <3>1 DEF F!Contains
  <2>2. ASSUME NEW i \in 1 .. Len(Tail(q)), Tail(q)[i] = y
        PROVE  F!Contains(q, y) /\ y # Head(q)
    <3>1. i + 1 \in 1 .. Len(q) /\ q[i + 1] = y
      BY <1>1, <2>2
    <3>2. y # q[1]
      BY <1>1, <3>1 DEF F!IsInjective
    <3> QED BY <1>1, <3>1, <3>2 DEF F!Contains
  <2> QED BY <2>1, <2>2 DEF F!Contains
<1> QED BY <1>1, <1>2, <1>3, <1>4

(* What a handle has received and will receive, as messages come and go.   *)
LEMMA DeliveredAppend ==
  ASSUME NEW M, NEW r \in Seq(M), NEW b \in Seq(M), NEW m \in M
  PROVE  r \o Append(b, m) = Append(r \o b, m)
OBVIOUS

(* A receive moves a message from the one to the other.                    *)
LEMMA DeliveredMove ==
  ASSUME NEW M, NEW r \in Seq(M), NEW b \in Seq(M), b # <<>>
  PROVE  Append(r, Head(b)) \o Tail(b) = r \o b
OBVIOUS

(* The messages a+1, ..., n-1, and then n.                                 *)
LEMMA Extend ==
  ASSUME NEW M, NEW d \in Seq(M), NEW a \in Nat, NEW n \in Nat, a <= n - 1,
         d = [i \in 1 .. (n - 1) - a |-> a + i], n \in M
  PROVE  Append(d, n) = [i \in 1 .. n - a |-> a + i]
<1>1. Len(d) = (n - 1) - a
  <2>1. DOMAIN d = 1 .. (n - 1) - a /\ DOMAIN d = 1 .. Len(d) /\ Len(d) \in Nat
    OBVIOUS
  <2> QED BY <2>1
<1>2. Append(d, n) \in [1 .. n - a -> M]
  <2>1. Append(d, n) \in Seq(M) /\ Len(Append(d, n)) = n - a
    BY <1>1
  <2> QED BY <2>1, LenProperties
<1>3. ASSUME NEW i \in 1 .. n - a
      PROVE  Append(d, n)[i] = a + i
  <2>1. CASE i = n - a
    BY <1>1, <2>1
  <2>2. CASE i \in 1 .. Len(d)
    <3>1. Append(d, n)[i] = d[i] /\ i \in 1 .. (n - 1) - a
      BY <1>1, <2>2
    <3> QED BY <3>1
  <2> QED BY <1>1, <2>1, <2>2
<1> QED BY <1>2, <1>3

(* The messages a+1, ..., n are n-a, and none when a is n.                 *)
LEMMA Span ==
  ASSUME NEW M, NEW d \in Seq(M), NEW a \in Nat, NEW n \in Nat, a <= n,
         d = [i \in 1 .. n - a |-> a + i]
  PROVE  d = [i \in 1 .. Len(d) |-> a + i]
<1>1. DOMAIN d = 1 .. n - a /\ DOMAIN d = 1 .. Len(d) /\ Len(d) \in Nat
  OBVIOUS
<1> QED BY <1>1

(* No message.                                                             *)
LEMMA NoMessages ==
  ASSUME NEW a \in Nat
  PROVE  <<>> = [i \in 1 .. a - a |-> a + i] /\ <<>> = [i \in 1 .. Len(<<>>) |-> a + i]
OBVIOUS

-----------------------------------------------------------------------------
(* The fan-out.                                                            *)

(* What a subscriber's state is, by the types.                             *)
LEMMA TypeFacts ==
  ASSUME F!TypeOK, NEW s \in SubscribeCalls
  PROVE  /\ TopicOf[s] \in Topics
         /\ arrived[TopicOf[s]] \in Nat /\ since[s] \in Nat
         /\ arrived[TopicOf[s]] \in 0 .. MaxMessages
         /\ since[s] \in 0 .. MaxMessages
         /\ received[s] \in Seq(1 .. MaxMessages)
         /\ inbox[s] \in Seq(1 .. MaxMessages)
         /\ F!Delivered(s) \in Seq(1 .. MaxMessages)
         /\ state[s] \in {"idle", "subscribed", "dropped"}
         /\ subscribers[TopicOf[s]] \in Seq(SubscribeCalls)
<1>1. TopicOf[s] \in F!Topics /\ F!Topics = Topics
  BY DEF F!Topics, Topics
<1>2. /\ received[s] \in Seq(1 .. MaxMessages)
      /\ inbox[s] \in Seq(1 .. MaxMessages)
      /\ state[s] \in {"idle", "subscribed", "dropped"}
      /\ subscribers[TopicOf[s]] \in Seq(SubscribeCalls)
      /\ arrived[TopicOf[s]] \in 0 .. MaxMessages
      /\ since[s] \in 0 .. MaxMessages
  BY <1>1 DEF F!TypeOK
<1>3. F!Delivered(s) \in Seq(1 .. MaxMessages)
  BY <1>2 DEF F!Delivered
<1> QED BY <1>1, <1>2, <1>3, FanoutAssumption DEF F!ConstantsOK

(* A step that concerns others leaves s where it is.                       *)
LEMMA ProgressSame ==
  ASSUME NEW s \in SubscribeCalls, Progress(s),
         UNCHANGED <<state[s], since[s], F!Delivered(s), arrived[TopicOf[s]], topic>>,
         Copied(s)' <=> Copied(s), Survived(s)' <=> Survived(s),
         F!Registered(s)' <=> F!Registered(s),
         NobodyEvicted' <=> NobodyEvicted
  PROVE  Progress(s)'
BY DEF Progress, UpTo

(* Who has what comes after the last message it missed has no gap.         *)
LEMMA UpToHasNoGaps ==
  ASSUME F!TypeOK, NEW s \in SubscribeCalls, NEW n \in Nat, UpTo(s, n),
         state[s] = "subscribed"
  PROVE  F!Delivered(s) = [i \in 1 .. Len(F!Delivered(s)) |-> since[s] + i]
<1>1. /\ since[s] <= n
      /\ F!Delivered(s) = [i \in 1 .. n - since[s] |-> since[s] + i]
  BY DEF UpTo
<1>2. since[s] \in Nat /\ F!Delivered(s) \in Seq(1 .. MaxMessages)
  BY TypeFacts
<1> QED BY <1>1, <1>2, Span

(* At first nobody has subscribed and nothing has arrived.                 *)
LEMMA FanoutInit == F!Init => FanoutInv
<1> SUFFICES ASSUME F!Init PROVE FanoutInv
  OBVIOUS
<1>1. F!TypeOK
  <2>1. 0 \in 0 .. MaxMessages /\ Capacity \in Nat
    BY FanoutAssumption DEF F!ConstantsOK
  <2> QED BY <2>1, EmptyList DEF F!Init, F!TypeOK
<1>2. Topics = F!Topics
  BY DEF Topics, F!Topics
<1>3. MapInv /\ CopiesInv
  BY <1>2, EmptyList DEF F!Init, MapInv, CopiesInv, Copied, Survived
<1>4. ASSUME NEW s \in SubscribeCalls
      PROVE  /\ state[s] = "idle" /\ F!Delivered(s) = <<>>
             /\ since[s] = 0 /\ arrived[TopicOf[s]] = 0
             /\ ~Copied(s) /\ ~Survived(s) /\ ~F!Registered(s)
  <2>1. TopicOf[s] \in F!Topics
    BY <1>2, <1>1, TypeFacts
  <2> QED
    BY <2>1, EmptyList DEF F!Init, F!Delivered, Copied, Survived, F!Registered
<1>5. \A s \in SubscribeCalls : Progress(s)
  BY <1>4 DEF Progress
<1>6. NoGaps
  BY <1>4 DEF NoGaps, F!NoGaps
<1> QED BY <1>1, <1>3, <1>5, <1>6 DEF FanoutInv

(* subscribe() enters a sender: what it will get begins here.              *)
LEMMA SubscribeKeeps ==
  ASSUME FanoutInv, NEW s \in SubscribeCalls, F!Subscribe(s)
  PROVE  FanoutInv'
<1> DEFINE t == TopicOf[s]
<1>1. /\ F!TypeOK /\ MapInv /\ CopiesInv /\ NoGaps
      /\ \A u \in SubscribeCalls : Progress(u)
  BY DEF FanoutInv
<1>2. /\ state[s] = "idle"
      /\ state' = [state EXCEPT ![s] = "subscribed"]
      /\ subscribers' = [subscribers EXCEPT ![t] = Append(subscribers[t], s)]
      /\ since' = [since EXCEPT ![s] = arrived[t]]
      /\ UNCHANGED <<inbox, received, arrived, topic, senders, survivors, original>>
  BY DEF F!Subscribe, F!actorVars
<1>3. /\ t \in Topics /\ Topics = F!Topics /\ subscribers[t] \in Seq(SubscribeCalls)
      /\ arrived[t] \in 0 .. MaxMessages /\ arrived[t] \in Nat
  BY <1>1, TypeFacts DEF Topics, F!Topics
<1>4. ~F!Contains(subscribers[t], s) /\ F!IsInjective(subscribers[t])
  BY <1>1, <1>2, <1>3 DEF MapInv
<1>5. /\ Append(subscribers[t], s) \in Seq(SubscribeCalls)
      /\ F!IsInjective(Append(subscribers[t], s))
      /\ \A u \in SubscribeCalls : F!Contains(Append(subscribers[t], s), u)
                                     <=> F!Contains(subscribers[t], u) \/ u = s
  BY <1>3, <1>4, AppendList
<1> HIDE DEF t
<1>6. F!TypeOK'
  BY <1>1, <1>2, <1>3, <1>5 DEF F!TypeOK
<1>7. MapInv'
  BY <1>1, <1>2, <1>3, <1>5 DEF MapInv, F!TypeOK, t
<1>8. /\ ~Copied(s) /\ ~Survived(s)
      /\ \A u \in SubscribeCalls : /\ Copied(u)' <=> Copied(u)
                                   /\ Survived(u)' <=> Survived(u)
                                   /\ F!Delivered(u)' = F!Delivered(u)
                                   /\ u # s => UNCHANGED <<state[u], since[u]>>
                                   /\ u # s => (F!Registered(u)' <=> F!Registered(u))
  BY <1>1, <1>2, <1>3, <1>5, TypeFacts
     DEF CopiesInv, Copied, Survived, F!Delivered, F!Registered, F!TypeOK, t
<1>9. CopiesInv'
  BY <1>1, <1>2, <1>8 DEF CopiesInv, F!TypeOK
<1>10. NobodyEvicted' <=> NobodyEvicted
  BY <1>2 DEF NobodyEvicted
<1>11. /\ state'[s] = "subscribed" /\ since'[s] = arrived[t]
       /\ F!Delivered(s)' = <<>>
  BY <1>1, <1>2, <1>8 DEF Progress, F!TypeOK
<1>12. Progress(s)'
  BY <1>2, <1>3, <1>8, <1>11, NoMessages DEF Progress, UpTo, t
<1>13. \A u \in SubscribeCalls : Progress(u)'
  <2> SUFFICES ASSUME NEW u \in SubscribeCalls, u # s PROVE Progress(u)'
    BY <1>12
  <2> QED BY <1>1, <1>2, <1>8, <1>10, ProgressSame
<1>14. NoGaps'
  <2>1. F!Delivered(s)' = [i \in 1 .. Len(F!Delivered(s)') |-> since'[s] + i]
    <3>1. <<>> = [i \in 1 .. Len(<<>>) |-> arrived[t] + i]
      BY <1>3, NoMessages
    <3> QED BY <1>11, <3>1
  <2>2. ASSUME NEW u \in SubscribeCalls, u # s, state'[u] = "subscribed"
        PROVE  F!Delivered(u)' = [i \in 1 .. Len(F!Delivered(u)') |-> since'[u] + i]
    BY <1>1, <1>8, <2>2 DEF NoGaps, F!NoGaps
  <2> QED BY <2>1, <2>2 DEF NoGaps, F!NoGaps
<1> QED BY <1>6, <1>7, <1>9, <1>13, <1>14 DEF FanoutInv

(* A message moves from the inbox to the receiver's hands.                 *)
LEMMA ReceiveKeeps ==
  ASSUME FanoutInv, NEW s \in SubscribeCalls, F!Receive(s)
  PROVE  FanoutInv'
<1>1. /\ F!TypeOK /\ MapInv /\ CopiesInv /\ NoGaps
      /\ \A u \in SubscribeCalls : Progress(u)
  BY DEF FanoutInv
<1>2. /\ inbox[s] # <<>>
      /\ received' = [received EXCEPT ![s] = Append(received[s], Head(inbox[s]))]
      /\ inbox' = [inbox EXCEPT ![s] = Tail(inbox[s])]
      /\ UNCHANGED <<subscribers, state, since, arrived, topic, senders,
                     survivors, original>>
  BY DEF F!Receive, F!actorVars
<1>3. /\ received[s] \in Seq(1 .. MaxMessages) /\ inbox[s] \in Seq(1 .. MaxMessages)
      /\ Len(inbox[s]) <= Capacity /\ Capacity \in Nat
  BY <1>1, FanoutAssumption DEF F!TypeOK, F!ConstantsOK
<1>4. /\ Append(received[s], Head(inbox[s])) \in Seq(1 .. MaxMessages)
      /\ Tail(inbox[s]) \in Seq(1 .. MaxMessages)
      /\ Len(Tail(inbox[s])) <= Capacity
  <2>1. /\ Tail(inbox[s]) \in Seq(1 .. MaxMessages)
        /\ Head(inbox[s]) \in 1 .. MaxMessages
        /\ Len(Tail(inbox[s])) = Len(inbox[s]) - 1 /\ Len(inbox[s]) \in Nat
    BY <1>2, <1>3, HeadTailProperties, LenProperties
  <2> QED BY <1>3, <2>1
<1>5. F!TypeOK'
  BY <1>1, <1>2, <1>4 DEF F!TypeOK
<1>6. Append(received[s], Head(inbox[s])) \o Tail(inbox[s]) = received[s] \o inbox[s]
  BY <1>2, <1>3, DeliveredMove
<1>7. \A u \in SubscribeCalls : F!Delivered(u)' = F!Delivered(u)
  BY <1>1, <1>2, <1>6 DEF F!Delivered, F!TypeOK
<1>8. MapInv' /\ CopiesInv'
  BY <1>1, <1>2 DEF MapInv, CopiesInv, Copied, Survived
<1>9. ASSUME NEW u \in SubscribeCalls PROVE Progress(u)'
  BY <1>1, <1>2, <1>7, ProgressSame
     DEF Copied, Survived, F!Registered, NobodyEvicted
<1>10. NoGaps'
  BY <1>1, <1>2, <1>7 DEF NoGaps, F!NoGaps
<1> QED BY <1>5, <1>8, <1>9, <1>10 DEF FanoutInv

(* Whoever drops its handle is nowhere behind.                             *)
LEMMA DropHandleKeeps ==
  ASSUME FanoutInv, NEW s \in SubscribeCalls, F!DropHandle(s)
  PROVE  FanoutInv'
<1>1. /\ F!TypeOK /\ MapInv /\ CopiesInv /\ NoGaps
      /\ \A u \in SubscribeCalls : Progress(u)
  BY DEF FanoutInv
<1>2. /\ state[s] = "subscribed"
      /\ state' = [state EXCEPT ![s] = "dropped"]
      /\ inbox' = [inbox EXCEPT ![s] = <<>>]
      /\ since' = [since EXCEPT ![s] = arrived[TopicOf[s]]]
      /\ UNCHANGED <<subscribers, received, arrived, topic, senders, survivors,
                     original>>
  BY DEF F!DropHandle, F!actorVars
<1>3. arrived[TopicOf[s]] \in 0 .. MaxMessages /\ arrived[TopicOf[s]] \in Nat
  BY <1>1, TypeFacts
<1>4. F!TypeOK'
  BY <1>1, <1>2, <1>3, EmptyList, FanoutAssumption DEF F!TypeOK, F!ConstantsOK
<1>5. /\ state'[s] = "dropped" /\ since'[s] = arrived[TopicOf[s]]
      /\ \A u \in SubscribeCalls :
           /\ Copied(u)' <=> Copied(u)
           /\ Survived(u)' <=> Survived(u)
           /\ F!Registered(u)' <=> F!Registered(u)
           /\ state'[u] = "idle" <=> state[u] = "idle"
           /\ u # s => UNCHANGED <<state[u], since[u], F!Delivered(u)>>
  BY <1>1, <1>2 DEF Copied, Survived, F!Registered, F!TypeOK, F!Delivered
<1>6. MapInv' /\ CopiesInv'
  BY <1>1, <1>2, <1>5 DEF MapInv, CopiesInv
<1>7. Progress(s)'
  BY <1>2, <1>3, <1>5 DEF Progress, UpTo
<1>8. ASSUME NEW u \in SubscribeCalls, u # s PROVE Progress(u)'
  BY <1>1, <1>2, <1>5, <1>8, ProgressSame DEF NobodyEvicted
<1>9. NoGaps'
  BY <1>1, <1>5 DEF NoGaps, F!NoGaps
<1> QED BY <1>4, <1>6, <1>7, <1>8, <1>9 DEF FanoutInv

(* A message arrives: of its topic everybody in the map is copied, and so  *)
(* far behind by one.                                                      *)
LEMMA IncomingKeeps ==
  ASSUME FanoutInv, NEW t \in Topics, F!Incoming(t)
  PROVE  FanoutInv'
<1>1. /\ F!TypeOK /\ MapInv /\ CopiesInv /\ NoGaps
      /\ \A u \in SubscribeCalls : Progress(u)
  BY DEF FanoutInv
<1>2. /\ topic = None /\ arrived[t] < MaxMessages
      /\ arrived' = [arrived EXCEPT ![t] = arrived[t] + 1]
      /\ topic' = t
      /\ senders' = subscribers[t] /\ survivors' = <<>>
      /\ original' = Len(subscribers[t])
      /\ UNCHANGED <<subscribers, state, inbox, received, since>>
  BY DEF F!Incoming, F!mapVars
<1>3. /\ t # None /\ t \in F!Topics /\ subscribers[t] \in Seq(SubscribeCalls)
      /\ arrived[t] \in 0 .. MaxMessages /\ arrived[t] \in Nat
      /\ Len(subscribers[t]) \in Nat
      /\ MaxMessages \in Nat
  BY <1>1, FanoutAssumption DEF F!ConstantsOK, F!TypeOK, Topics, F!Topics
<1>4. /\ senders = <<>> /\ survivors = <<>>
      /\ \A u \in SubscribeCalls : /\ ~Copied(u) /\ ~Survived(u)' /\ ~Survived(u)
                                   /\ Copied(u)' <=> F!Contains(subscribers[t], u)
                                   /\ F!Registered(u)' <=> F!Registered(u)
  BY <1>1, <1>2, EmptyList DEF CopiesInv, Copied, Survived, F!Registered
<1>5. F!TypeOK'
  <2>1. arrived[t] + 1 \in 0 .. MaxMessages
    BY <1>2, <1>3
  <2> QED BY <1>1, <1>2, <1>3, <2>1, EmptyList DEF F!TypeOK
<1>6. MapInv'
  BY <1>1, <1>2 DEF MapInv
<1>7. arrived'[t] = arrived[t] + 1
  BY <1>1, <1>2, <1>3 DEF F!TypeOK
<1>8. CopiesInv'
  <2>1. F!IsInjective(senders') /\ F!IsInjective(survivors')
    BY <1>1, <1>2, EmptyList DEF MapInv
  <2>2. Len(senders') + Len(survivors') <= original'
    BY <1>2, <1>3, EmptyList
  <2> QED BY <1>1, <1>2, <1>3, <1>4, <1>7, <2>1, <2>2 DEF CopiesInv, MapInv
<1>9. ASSUME NEW u \in SubscribeCalls PROVE Progress(u)'
  <2>1. /\ Progress(u) /\ ~Copied(u) /\ ~Survived(u)'
        /\ UNCHANGED <<state[u], since[u], F!Delivered(u)>>
        /\ since[u] \in Nat /\ arrived[TopicOf[u]] \in Nat
    BY <1>1, <1>2, <1>4, TypeFacts DEF F!Delivered
  <2>2. F!Registered(u) => UpTo(u, arrived[TopicOf[u]])
    <3>1. TopicOf[u] # None
      BY FanoutAssumption DEF F!ConstantsOK, F!Topics
    <3> QED BY <1>2, <2>1, <3>1 DEF Progress
  <2>3. CASE TopicOf[u] = t
    <3>1. arrived'[TopicOf[u]] - 1 = arrived[TopicOf[u]] /\ since'[u] <= arrived'[TopicOf[u]]
      BY <1>7, <2>1, <2>3 DEF Progress
    <3>2. Copied(u)' <=> F!Registered(u)
      BY <1>4, <2>3 DEF F!Registered
    <3>3. \A n : UpTo(u, n)' <=> UpTo(u, n)
      BY <2>1 DEF UpTo
    <3>4. state'[u] = "idle" => F!Delivered(u)' = <<>>
      BY <2>1 DEF Progress
    <3>5. topic' = TopicOf[u] /\ (F!Registered(u)' <=> Copied(u)')
      BY <1>2, <1>4, <2>3, <3>2
    <3> QED BY <1>4, <2>1, <2>2, <3>1, <3>2, <3>3, <3>4, <3>5 DEF Progress
  <2>4. CASE TopicOf[u] # t
    <3>1. arrived'[TopicOf[u]] = arrived[TopicOf[u]]
      BY <1>1, <1>2, <2>4, TypeFacts DEF F!TypeOK
    <3>2. ~Copied(u)'
      BY <1>1, <1>4, <2>4 DEF MapInv
    <3> QED BY <1>4, <2>1, <2>2, <3>1, <3>2 DEF Progress, UpTo
  <2> QED BY <2>3, <2>4
<1>10. NoGaps'
  BY <1>1, <1>2 DEF NoGaps, F!NoGaps, F!Delivered
<1> QED BY <1>5, <1>6, <1>8, <1>9, <1>10 DEF FanoutInv

(* A sender takes the message, which its inbox was waiting for.            *)
LEMMA TakeKeeps ==
  ASSUME FanoutInv, senders # <<>>, NEW s, s = Head(senders), F!Accepts(s),
         inbox' = [inbox EXCEPT ![s] = Append(@, arrived[topic])],
         survivors' = Append(survivors, s),
         senders' = Tail(senders),
         UNCHANGED <<subscribers, state, arrived, topic, original, received, since>>
  PROVE  FanoutInv'
<1>1. /\ F!TypeOK /\ MapInv /\ CopiesInv /\ NoGaps
      /\ \A u \in SubscribeCalls : Progress(u)
  BY DEF FanoutInv
<1>2. /\ senders \in Seq(SubscribeCalls) /\ F!IsInjective(senders)
      /\ survivors \in Seq(SubscribeCalls) /\ F!IsInjective(survivors)
  BY <1>1 DEF F!TypeOK, CopiesInv
<1>3. /\ Tail(senders) \in Seq(SubscribeCalls) /\ s \in SubscribeCalls
      /\ Len(Tail(senders)) = Len(senders) - 1
      /\ F!IsInjective(Tail(senders)) /\ Copied(s)
      /\ \A u \in SubscribeCalls :
           F!Contains(Tail(senders), u) <=> F!Contains(senders, u) /\ u # s
  BY <1>2, TailList DEF Copied
<1>4. /\ TopicOf[s] = topic /\ topic \in Topics /\ topic # None
      /\ ~Survived(s) /\ arrived[topic] >= 1
  BY <1>1, <1>3, TypeFacts, FanoutAssumption
     DEF CopiesInv, F!ConstantsOK, Topics, F!Topics
<1>5. /\ Append(survivors, s) \in Seq(SubscribeCalls)
      /\ Len(Append(survivors, s)) = Len(survivors) + 1
      /\ F!IsInjective(Append(survivors, s))
      /\ \A u \in SubscribeCalls :
           F!Contains(Append(survivors, s), u) <=> F!Contains(survivors, u) \/ u = s
  BY <1>2, <1>3, <1>4, AppendList DEF Survived
<1>6. /\ arrived[topic] \in 1 .. MaxMessages /\ arrived[topic] \in Nat
      /\ received[s] \in Seq(1 .. MaxMessages) /\ inbox[s] \in Seq(1 .. MaxMessages)
      /\ F!Delivered(s) \in Seq(1 .. MaxMessages) /\ since[s] \in Nat
      /\ state[s] = "subscribed" /\ Len(inbox[s]) < Capacity /\ Capacity \in Nat
  <2>1. arrived[topic] \in 0 .. MaxMessages /\ arrived[topic] \in Nat
    BY <1>1, <1>3, <1>4, TypeFacts
  <2>2. Capacity \in Nat /\ MaxMessages \in Nat
    BY FanoutAssumption DEF F!ConstantsOK
  <2> QED BY <1>1, <1>3, <1>4, <2>1, <2>2, TypeFacts DEF F!Accepts
<1>7. /\ Append(inbox[s], arrived[topic]) \in Seq(1 .. MaxMessages)
      /\ Len(Append(inbox[s], arrived[topic])) <= Capacity
  <2>1. Len(Append(inbox[s], arrived[topic])) = Len(inbox[s]) + 1 /\ Len(inbox[s]) \in Nat
    BY <1>6
  <2> QED BY <1>6, <2>1
<1>8. F!TypeOK'
  BY <1>1, <1>3, <1>5, <1>7 DEF F!TypeOK
<1>9. MapInv'
  BY <1>1 DEF MapInv
<1>10. \A u \in SubscribeCalls : /\ Copied(u)' <=> Copied(u) /\ u # s
                                 /\ Survived(u)' <=> Survived(u) \/ u = s
                                 /\ F!Registered(u)' <=> F!Registered(u)
                                 /\ u # s => F!Delivered(u)' = F!Delivered(u)
  BY <1>1, <1>3, <1>5 DEF Copied, Survived, F!Registered, F!Delivered, F!TypeOK
<1>11. /\ Len(senders') + Len(survivors') = Len(senders) + Len(survivors)
       /\ NobodyEvicted' <=> NobodyEvicted
  <2>1. Len(senders) \in Nat /\ Len(survivors) \in Nat
    BY <1>2
  <2> QED BY <1>3, <1>5, <2>1 DEF NobodyEvicted
<1>12. CopiesInv'
  <2>1. F!IsInjective(senders') /\ F!IsInjective(survivors')
    BY <1>3, <1>5
  <2>2. \A u \in SubscribeCalls :
          /\ Copied(u)' \/ Survived(u)' => TopicOf[u] = topic' /\ state'[u] # "idle"
          /\ ~(Copied(u)' /\ Survived(u)')
    BY <1>1, <1>3, <1>4, <1>6, <1>10 DEF CopiesInv
  <2>3. Len(senders') + Len(survivors') <= original'
    BY <1>1, <1>11 DEF CopiesInv
  <2> QED BY <1>1, <1>4, <2>1, <2>2, <2>3 DEF CopiesInv
<1>13. UpTo(s, arrived[topic])'
  <2> DEFINE n == arrived[topic]
             a == since[s]
             r == received[s]
             b == inbox[s]
             M == 1 .. MaxMessages
  <2>1. /\ a <= n - 1
        /\ F!Delivered(s) = [i \in 1 .. (n - 1) - a |-> a + i]
    BY <1>1, <1>3, <1>4, <1>6 DEF Progress, UpTo
  <2>2. F!Delivered(s) = r \o b /\ F!Delivered(s)' = r \o Append(b, n)
    BY <1>1, <1>3 DEF F!TypeOK, F!Delivered
  <2>3. /\ a \in Nat /\ n \in Nat /\ n \in M
        /\ r \in Seq(M) /\ b \in Seq(M) /\ F!Delivered(s) \in Seq(M)
    BY <1>6
  <2>4. state'[s] = "subscribed" /\ since'[s] = a /\ (arrived[topic])' = n
    BY <1>6
  <2> HIDE DEF n, a, r, b, M
  <2>5. F!Delivered(s)' = Append(F!Delivered(s), n)
    <3>1. r \in Seq(M) /\ b \in Seq(M) /\ n \in M
      BY <2>3
    <3>2. r \o Append(b, n) = Append(r \o b, n)
      BY <3>1, DeliveredAppend
    <3> QED BY <2>2, <3>2
  <2> DEFINE d == F!Delivered(s)
  <2>6. F!Delivered(s)' = [i \in 1 .. n - a |-> a + i]
    <3> HIDE DEF d
    <3>1. /\ d \in Seq(M) /\ a \in Nat /\ n \in Nat /\ n \in M /\ a <= n - 1
          /\ d = [i \in 1 .. (n - 1) - a |-> a + i]
      BY <2>1, <2>3 DEF d
    <3>2. Append(d, n) = [i \in 1 .. n - a |-> a + i]
      BY <3>1, Extend
    <3> QED BY <2>5, <3>2 DEF d
  <2>7. a <= n
    BY <2>1, <2>3
  <2> QED BY <2>4, <2>6, <2>7 DEF UpTo
<1>14. ASSUME NEW u \in SubscribeCalls PROVE Progress(u)'
  <2>1. CASE u = s
    BY <1>1, <1>3, <1>4, <1>6, <1>10, <1>13, <2>1 DEF Progress
  <2>2. CASE u # s
    BY <1>1, <1>10, <1>11, <2>2, ProgressSame
  <2> QED BY <2>1, <2>2
<1>15. NoGaps'
  <2>1. F!Delivered(s)' = [i \in 1 .. Len(F!Delivered(s)') |-> since'[s] + i]
    <3>1. /\ since[s] <= arrived[topic]
          /\ F!Delivered(s)' = [i \in 1 .. arrived[topic] - since[s] |-> since[s] + i]
      BY <1>6, <1>13 DEF UpTo
    <3>2. F!Delivered(s)' \in Seq(1 .. MaxMessages)
      <4>1. received'[s] \in Seq(1 .. MaxMessages) /\ inbox'[s] \in Seq(1 .. MaxMessages)
        BY <1>3, <1>8 DEF F!TypeOK
      <4> QED BY <4>1 DEF F!Delivered
    <3> QED BY <1>6, <3>1, <3>2, Span
  <2>2. ASSUME NEW u \in SubscribeCalls, u # s, state'[u] = "subscribed"
        PROVE  F!Delivered(u)' = [i \in 1 .. Len(F!Delivered(u)') |-> since'[u] + i]
    BY <1>1, <1>10, <2>2 DEF NoGaps, F!NoGaps
  <2> QED BY <2>1, <2>2 DEF NoGaps, F!NoGaps
<1> QED BY <1>8, <1>9, <1>12, <1>14, <1>15 DEF FanoutInv

(* A sender that cannot take the message is left out: from now on the      *)
(* survivors are fewer than the copied.                                    *)
LEMMA EvictKeeps ==
  ASSUME FanoutInv, senders # <<>>, senders' = Tail(senders),
         UNCHANGED <<inbox, survivors, subscribers, state, arrived, topic,
                     original, received, since>>
  PROVE  FanoutInv'
<1>1. /\ F!TypeOK /\ MapInv /\ CopiesInv /\ NoGaps
      /\ \A u \in SubscribeCalls : Progress(u)
  BY DEF FanoutInv
<1>2. /\ senders \in Seq(SubscribeCalls) /\ F!IsInjective(senders)
      /\ Len(survivors) \in Nat /\ Len(senders) \in Nat /\ original \in Nat
  BY <1>1 DEF F!TypeOK, CopiesInv
<1>3. /\ Tail(senders) \in Seq(SubscribeCalls)
      /\ Len(Tail(senders)) = Len(senders) - 1
      /\ F!IsInjective(Tail(senders))
      /\ \A u \in SubscribeCalls :
           F!Contains(Tail(senders), u) => F!Contains(senders, u)
  BY <1>2, TailList
<1>4. F!TypeOK'
  BY <1>1, <1>3 DEF F!TypeOK
<1>5. MapInv'
  BY <1>1 DEF MapInv
<1>6. \A u \in SubscribeCalls : /\ Copied(u)' => Copied(u)
                                /\ Survived(u)' <=> Survived(u)
                                /\ F!Registered(u)' <=> F!Registered(u)
                                /\ F!Delivered(u)' = F!Delivered(u)
  BY <1>3 DEF Copied, Survived, F!Registered, F!Delivered
<1>7. /\ Len(senders') + Len(survivors') <= original
      /\ ~NobodyEvicted' /\ topic # None
  BY <1>1, <1>2, <1>3 DEF CopiesInv, NobodyEvicted
<1>8. CopiesInv'
  <2>1. F!IsInjective(senders') /\ F!IsInjective(survivors')
    BY <1>1, <1>3 DEF CopiesInv
  <2>2. \A u \in SubscribeCalls :
          /\ Copied(u)' \/ Survived(u)' => TopicOf[u] = topic' /\ state'[u] # "idle"
          /\ ~(Copied(u)' /\ Survived(u)')
    BY <1>1, <1>6 DEF CopiesInv
  <2> QED BY <1>1, <1>7, <2>1, <2>2 DEF CopiesInv
<1>9. ASSUME NEW u \in SubscribeCalls PROVE Progress(u)'
  <2>1. Copied(u) => topic = TopicOf[u]
    BY <1>1 DEF CopiesInv
  <2>2. \A n : UpTo(u, n)' <=> UpTo(u, n)
    BY <1>6 DEF UpTo
  <2> QED BY <1>1, <1>6, <1>7, <2>1, <2>2 DEF Progress
<1>10. NoGaps'
  BY <1>1, <1>6 DEF NoGaps, F!NoGaps
<1> QED BY <1>4, <1>5, <1>8, <1>9, <1>10 DEF FanoutInv

(* The fan-out ends, with the survivors in the map if somebody was evicted. *)
LEMMA WriteBackKeeps ==
  ASSUME FanoutInv, F!WriteBack
  PROVE  FanoutInv'
<1>1. /\ F!TypeOK /\ MapInv /\ CopiesInv /\ NoGaps
      /\ \A u \in SubscribeCalls : Progress(u)
  BY DEF FanoutInv
<1>2. /\ topic # None /\ senders = <<>>
      /\ subscribers' = IF Len(survivors) # original
                        THEN [subscribers EXCEPT ![topic] = survivors]
                        ELSE subscribers
      /\ topic' = None /\ survivors' = <<>> /\ original' = 0
      /\ UNCHANGED <<state, inbox, arrived, senders, received, since>>
  BY DEF F!WriteBack, F!Evicts
<1>3. /\ topic \in Topics /\ Topics = F!Topics /\ survivors \in Seq(SubscribeCalls)
      /\ Len(survivors) \in Nat
  BY <1>1, <1>2 DEF F!TypeOK, Topics, F!Topics
<1>4. F!TypeOK'
  BY <1>1, <1>2, <1>3, EmptyList DEF F!TypeOK
<1>5. \A t \in Topics : \/ subscribers'[t] = subscribers[t]
                        \/ t = topic /\ subscribers'[t] = survivors
  BY <1>1, <1>2, <1>3 DEF F!TypeOK
<1>6. MapInv'
  BY <1>1, <1>2, <1>5 DEF MapInv, CopiesInv, Survived
<1>7. \A u \in SubscribeCalls : /\ ~Copied(u) /\ ~Copied(u)' /\ ~Survived(u)'
                                /\ F!Delivered(u)' = F!Delivered(u)
  BY <1>2, EmptyList DEF Copied, Survived, F!Delivered
<1>8. CopiesInv'
  BY <1>2, <1>7, EmptyList DEF CopiesInv
<1>9. ASSUME NEW u \in SubscribeCalls PROVE Progress(u)'
  <2>1. Progress(u) /\ TopicOf[u] \in Topics
    BY <1>1, TypeFacts
  <2>2. \A n : UpTo(u, n)' <=> UpTo(u, n)
    BY <1>2, <1>7 DEF UpTo
  <2>3. F!Registered(u)' => UpTo(u, arrived[TopicOf[u]])
    <3> SUFFICES ASSUME F!Registered(u)' PROVE UpTo(u, arrived[TopicOf[u]])
      OBVIOUS
    <3>1. CASE TopicOf[u] # topic
      BY <1>1, <1>2, <1>3, <1>7, <2>1, <3>1
         DEF F!Registered, Progress, F!TypeOK
    <3>2. CASE TopicOf[u] = topic /\ Len(survivors) # original
      <4>1. subscribers'[topic] = survivors
        BY <1>1, <1>2, <1>3, <3>2 DEF F!TypeOK
      <4>2. Survived(u)
        BY <3>2, <4>1 DEF F!Registered, Survived
      <4> QED BY <2>1, <4>2 DEF Progress
    <3>3. CASE TopicOf[u] = topic /\ Len(survivors) = original
      <4>1. NobodyEvicted
        BY <1>2, <1>3, <3>3, EmptyList DEF NobodyEvicted
      <4>2. F!Registered(u)
        BY <1>2, <3>3 DEF F!Registered
      <4> QED BY <1>7, <2>1, <4>1, <4>2 DEF Progress
    <3> QED BY <3>1, <3>2, <3>3
  <2> QED BY <1>2, <1>7, <2>1, <2>2, <2>3 DEF Progress
<1>10. NoGaps'
  BY <1>1, <1>2, <1>7 DEF NoGaps, F!NoGaps
<1> QED BY <1>4, <1>6, <1>8, <1>9, <1>10 DEF FanoutInv

(* Every step of the fan-out.                                              *)
LEMMA FanoutStep ==
  ASSUME FanoutInv, [F!Next]_(F!vars)
  PROVE  FanoutInv'
<1>1. ASSUME NEW s \in SubscribeCalls,
             F!Subscribe(s) \/ F!Receive(s) \/ F!DropHandle(s)
      PROVE  FanoutInv'
  BY <1>1, SubscribeKeeps, ReceiveKeeps, DropHandleKeeps
<1>2. ASSUME NEW t \in F!Topics, F!Incoming(t)
      PROVE  FanoutInv'
  BY <1>2, IncomingKeeps DEF Topics, F!Topics
<1>3. CASE F!TrySend
  <2>1. /\ senders # <<>> /\ senders' = Tail(senders)
        /\ UNCHANGED <<subscribers, state, arrived, topic, original, received, since>>
    BY <1>3 DEF F!TrySend
  <2>2. ASSUME NEW s, s = Head(senders), F!Accepts(s),
               inbox' = [inbox EXCEPT ![s] = Append(@, arrived[topic])],
               survivors' = Append(survivors, s)
        PROVE  FanoutInv'
    BY <2>1, <2>2, TakeKeeps
  <2>3. CASE UNCHANGED <<inbox, survivors>>
    BY <2>1, <2>3, EvictKeeps
  <2> QED BY <1>3, <2>2, <2>3 DEF F!TrySend
<1>4. CASE F!WriteBack
  BY <1>4, WriteBackKeeps
<1>5. CASE UNCHANGED F!vars
  <2>1. UNCHANGED <<subscribers, state, inbox, arrived, topic, senders,
                    survivors, original, received, since>>
    BY <1>5 DEF F!vars, F!mapVars, F!actorVars
  <2>2. F!TypeOK' /\ MapInv' /\ CopiesInv'
    BY <2>1 DEF FanoutInv, F!TypeOK, MapInv, CopiesInv, Copied, Survived
  <2>3. \A s \in SubscribeCalls : Progress(s)'
    BY <2>1, ProgressSame DEF FanoutInv, Copied, Survived, NobodyEvicted,
                              F!Delivered, F!Registered
  <2>4. NoGaps'
    BY <2>1 DEF FanoutInv, NoGaps, F!NoGaps, F!Delivered
  <2> QED BY <2>2, <2>3, <2>4 DEF FanoutInv
<1> QED BY <1>1, <1>2, <1>3, <1>4, <1>5 DEF F!Next

(* In every behaviour of the fan-out, whatever moves it.                   *)
THEOREM FanoutInvariance == F!Spec => []FanoutInv
<1>1. F!Init => FanoutInv
  BY FanoutInit
<1>2. FanoutInv /\ [F!Next]_(F!vars) => FanoutInv'
  BY FanoutStep
<1> QED BY <1>1, <1>2, PTL DEF F!Spec

-----------------------------------------------------------------------------
(* The actor.                                                              *)

(* A call that fails touches the fan-out by dropping its handle, if at all. *)
LEMMA GivesUpSteps ==
  ASSUME NEW x \in Calls, GivesUp(x)
  PROVE  /\ [F!Next]_(F!vars)
         /\ Goes(x, "ok") \/ Goes(x, "error")
<1>1. CASE UNCHANGED fanoutVars
  BY <1>1 DEF GivesUp, fanoutVars, F!vars, F!mapVars, F!actorVars
<1>2. CASE x \in SubscribeCalls /\ F!DropHandle(x)
  BY <1>2 DEF GivesUp, F!Next
<1> QED BY <1>1, <1>2 DEF GivesUp

(* What the actor, its callers and the server do is a step of the fan-out  *)
(* or leaves it alone: nothing else reaches the map and the inboxes.       *)
LEMMA StepIsFanout ==
  ASSUME ActorInv, [Next]_vars
  PROVE  [F!Next]_(F!vars)
<1>1. UNCHANGED fanoutVars => UNCHANGED F!vars
  BY DEF fanoutVars, F!vars, F!mapVars, F!actorVars
<1>2. ASSUME NEW s \in SubscribeCalls, Subscribe(s) \/ Receive(s) \/ DropHandle(s)
      PROVE  [F!Next]_(F!vars)
  BY <1>2 DEF Subscribe, Receive, DropHandle, F!Next
<1>3. ASSUME NEW x \in Calls, SendCommand(x) \/ Orphaned(x)
      PROVE  [F!Next]_(F!vars)
  BY <1>1, <1>3, GivesUpSteps DEF SendCommand, Orphaned
<1>4. CASE ServeCommand
  BY <1>1, <1>4
     DEF ServeCommand, ServePublish, ServeSubscribe, ServeClose, Stops
<1>5. CASE Refused
  <2>1. current \in Calls /\ GivesUp(current)
    BY <1>5 DEF Refused, ActorInv, TypeOK, Calls
  <2> QED BY <2>1, GivesUpSteps
<1>6. ASSUME NEW t \in Topics, Incoming(t)
      PROVE  [F!Next]_(F!vars)
  BY <1>6 DEF Incoming, F!Next, Topics, F!Topics
<1>7. CASE FanOut
  BY <1>7 DEF FanOut, F!Next
<1>8. CASE Confirmed \/ Abandon \/ LoseConnection \/ StreamEnded \/ WakeUp
  BY <1>1, <1>8
     DEF Confirmed, Abandon, Stops, LoseConnection, StreamEnded, WakeUp
<1>9. CASE UNCHANGED vars
  BY <1>1, <1>9 DEF vars
<1> QED BY <1>2, <1>3, <1>4, <1>5, <1>6, <1>7, <1>8, <1>9 DEF Next

(* The types of the calls, of the actor and of the server; and while the   *)
(* actor awaits a confirmation it knows whose.                             *)
CallTypes ==
  /\ pc \in [Calls -> {"idle", "registered", "sent", "retrying", "ok", "error",
                       "never"}]
  /\ commands \in Seq(Calls)
ActorTypes ==
  /\ actor \in {"selecting", "subscribing", "sleeping", "stopped"}
  /\ current \in SubscribeCalls \cup {None}
  /\ subscribe_pending \in BOOLEAN
  /\ reconnect \in BOOLEAN
  /\ stream \in {"up", "ended"}
  /\ serverSubs \subseteq Topics
  /\ actor = "subscribing" => current # None

(* Together with the types of the fan-out they are the invariant.          *)
LEMMA InvIsTypes == ActorInv <=> F!TypeOK /\ CallTypes /\ ActorTypes
BY DEF ActorInv, TypeOK, CallTypes, ActorTypes

(* A call moves on.                                                        *)
LEMMA GoesTypes ==
  ASSUME CallTypes, NEW x, UNCHANGED commands,
         NEW place \in {"registered", "sent", "retrying", "ok", "error"},
         Goes(x, place)
  PROVE  CallTypes'
BY DEF CallTypes, Goes

(* The first command of the channel is taken.                              *)
LEMMA ServedTypes ==
  ASSUME CallTypes, NEW x, Serve(x)
  PROVE  Tail(commands) \in Seq(Calls)
BY DEF CallTypes, Serve

(* The steps of the callers.                                               *)
LEMMA CallerTypes ==
  ASSUME CallTypes, ActorTypes, NEW x \in Calls,
         \/ x \in SubscribeCalls /\ (Subscribe(x) \/ Receive(x) \/ DropHandle(x))
         \/ SendCommand(x) \/ Orphaned(x)
  PROVE  CallTypes' /\ ActorTypes'
<1>1. ActorTypes'
  BY DEF Subscribe, Receive, DropHandle, SendCommand, Orphaned, actorVars,
         serverVars, ActorTypes
<1>2. CASE SendCommand(x) /\ actor # "stopped"
  <2>1. commands' = Append(commands, x) /\ Goes(x, "sent")
    BY <1>2 DEF SendCommand
  <2>2. commands' \in Seq(Calls)
    BY <2>1 DEF CallTypes
  <2> QED BY <1>1, <2>1, <2>2 DEF Goes, CallTypes
<1>3. CASE SendCommand(x) /\ actor = "stopped"
  <2>1. GivesUp(x) /\ UNCHANGED commands
    BY <1>3 DEF SendCommand
  <2> QED BY <1>1, <2>1, GivesUpSteps, GoesTypes
<1>4. CASE Orphaned(x)
  <2>1. GivesUp(x) /\ UNCHANGED commands
    BY <1>4 DEF Orphaned
  <2> QED BY <1>1, <2>1, GivesUpSteps, GoesTypes
<1>5. CASE x \in SubscribeCalls /\ (Subscribe(x) \/ Receive(x) \/ DropHandle(x))
  <2>1. CASE Subscribe(x)
    BY <1>1, <2>1, GoesTypes DEF Subscribe
  <2>2. CASE Receive(x) \/ DropHandle(x)
    BY <1>1, <2>2 DEF Receive, DropHandle, callVars, CallTypes
  <2> QED BY <1>5, <2>1, <2>2
<1> QED BY <1>1, <1>2, <1>3, <1>4, <1>5

(* The steps of the actor as it serves commands.                           *)
LEMMA ServeTypes ==
  ASSUME CallTypes, ActorTypes, ServeCommand
  PROVE  CallTypes' /\ ActorTypes'
<1>1. ASSUME NEW x \in PublishCalls, ServePublish(x)
      PROVE  CallTypes' /\ ActorTypes'
  <2>1. commands' \in Seq(Calls)
    BY <1>1, ServedTypes DEF ServePublish
  <2> QED
    BY <1>1, <2>1 DEF ServePublish, Goes, CallTypes, ActorTypes, actorVars,
                            serverVars
<1>2. ASSUME NEW s \in SubscribeCalls, ServeSubscribe(s)
      PROVE  CallTypes' /\ ActorTypes'
  <2>1. commands' \in Seq(Calls)
    BY <1>2, ServedTypes DEF ServeSubscribe
  <2>2. s \in Calls /\ s # None
    BY CallsAssumption DEF Calls
  <2>3. CallTypes'
    BY <1>2, <2>1 DEF ServeSubscribe, Goes, CallTypes
  <2>4. ActorTypes'
    BY <1>2, <2>2 DEF ServeSubscribe, ActorTypes, serverVars
  <2> QED BY <2>3, <2>4
<1>3. ASSUME NEW c \in CloseCalls, ServeClose(c)
      PROVE  CallTypes' /\ ActorTypes'
  BY <1>3, EmptyList DEF ServeClose, Stops, Goes, CallTypes, ActorTypes
<1> QED BY <1>1, <1>2, <1>3 DEF ServeCommand

(* The types stay.                                                         *)
LEMMA StepTypes ==
  ASSUME CallTypes, ActorTypes, [Next]_vars
  PROVE  CallTypes' /\ ActorTypes'
<1>1. ASSUME NEW x \in Calls,
             \/ x \in SubscribeCalls /\ (Subscribe(x) \/ Receive(x) \/ DropHandle(x))
             \/ SendCommand(x) \/ Orphaned(x)
      PROVE  CallTypes' /\ ActorTypes'
  BY <1>1, CallerTypes
<1>2. CASE ServeCommand
  BY <1>2, ServeTypes
<1>3. CASE Confirmed
  <2>1. TopicOf[current] \in Topics
    BY <1>3 DEF Confirmed, ActorTypes, Topics
  <2> QED BY <1>3, <2>1, GoesTypes DEF Confirmed, SubscribeEnds, ActorTypes
<1>4. CASE Refused
  <2>1. current \in Calls /\ GivesUp(current)
    BY <1>4 DEF Refused, ActorTypes, Calls
  <2> QED BY <1>4, <2>1, GivesUpSteps, GoesTypes
          DEF Refused, SubscribeEnds, ActorTypes, serverVars
<1>5. CASE Abandon
  BY <1>5, EmptyList DEF Abandon, Stops, CallTypes, ActorTypes
<1>6. CASE (\E t \in Topics : Incoming(t)) \/ FanOut \/ LoseConnection
           \/ StreamEnded \/ WakeUp \/ UNCHANGED vars
  BY <1>6 DEF Incoming, FanOut, LoseConnection, StreamEnded, WakeUp, vars,
              callVars, actorVars, serverVars, CallTypes, ActorTypes
<1> QED BY <1>1, <1>2, <1>3, <1>4, <1>5, <1>6 DEF Next, Calls

(* The inductive invariant of the whole.                                   *)
IInv == FanoutInv /\ ActorInv

(* It holds at first, and after every step.                                *)
LEMMA InitIInv == Init => IInv
<1> SUFFICES ASSUME Init PROVE IInv
  OBVIOUS
<1>1. FanoutInv
  BY FanoutInit DEF Init
<1>2. CallTypes /\ ActorTypes
  BY EmptyList DEF Init, CallTypes, ActorTypes
<1> QED BY <1>1, <1>2, InvIsTypes DEF IInv, FanoutInv

LEMMA StepIInv == IInv /\ [Next]_vars => IInv'
<1> SUFFICES ASSUME IInv, [Next]_vars PROVE IInv'
  OBVIOUS
<1>1. FanoutInv'
  BY StepIsFanout, FanoutStep DEF IInv
<1>2. CallTypes' /\ ActorTypes'
  BY InvIsTypes, StepTypes DEF IInv
<1>3. F!TypeOK'
  BY <1>1 DEF FanoutInv
<1> QED BY <1>1, <1>2, <1>3 DEF IInv, ActorInv, TypeOK, CallTypes, ActorTypes

-----------------------------------------------------------------------------
(* The actor implements the fan-out: for the subscribers it is a Fanout    *)
(* that takes a message only while it waits in its select!.                *)
THEOREM ImplementsFanout == Safety => F!Spec
<1>1. Init => F!Init
  BY DEF Init
<1>2. IInv /\ [Next]_vars => [F!Next]_(F!vars)
  BY StepIsFanout DEF IInv
<1> QED BY <1>1, <1>2, InitIInv, StepIInv, PTL DEF Safety, F!Spec

(* The types of the calls, the actor, the server and the fan-out.          *)
THEOREM TypeCorrect == Safety => []TypeOK
<1>1. IInv => TypeOK
  BY DEF IInv, ActorInv
<1> QED BY <1>1, InitIInv, StepIInv, PTL DEF Safety

(* Between two fan-outs who is in the map and keeps its handle has every   *)
(* message since it subscribed, once and in order.                         *)
THEOREM RegisteredIsUpToDateTheorem == Safety => []RegisteredIsUpToDate
<1>1. FanoutInv => RegisteredIsUpToDate
  <2> SUFFICES ASSUME FanoutInv, topic = None, NEW s \in SubscribeCalls,
                      F!Registered(s)
               PROVE  IF state[s] = "dropped"
                      THEN since[s] = arrived[TopicOf[s]]
                      ELSE F!Delivered(s) =
                             [i \in 1 .. arrived[TopicOf[s]] - since[s] |->
                                since[s] + i]
    BY DEF RegisteredIsUpToDate, F!RegisteredIsUpToDate
  <2>1. TopicOf[s] # None
    BY FanoutAssumption DEF F!ConstantsOK, F!Topics
  <2>2. ~Copied(s) /\ Progress(s)
    BY EmptyList DEF FanoutInv, CopiesInv, Copied
  <2>3. UpTo(s, arrived[TopicOf[s]]) /\ since[s] <= arrived[TopicOf[s]]
    BY <2>1, <2>2 DEF Progress
  <2>4. since[s] \in Nat /\ arrived[TopicOf[s]] \in Nat
    BY TypeFacts DEF FanoutInv
  <2> QED BY <2>3, <2>4 DEF UpTo
<1> QED BY <1>1, ImplementsFanout, FanoutInvariance, PTL

(* What a subscriber gets begins with the first message after it           *)
(* subscribed and has no gap, also in the middle of a fan-out and after an *)
(* eviction.                                                               *)
THEOREM NoGapsTheorem == Safety => []NoGaps
<1>1. FanoutInv => NoGaps
  BY DEF FanoutInv
<1> QED BY <1>1, ImplementsFanout, FanoutInvariance, PTL

=============================================================================

--------------------------- MODULE MemoryHubProofs ---------------------------
(***************************************************************************)
(* Theorems about MemoryHub, for any number of publishers, inboxes and     *)
(* closers, of messages, and for any capacity.                             *)
(***************************************************************************)
EXTENDS MemoryHub, TLAPS

(* Who waits for the lock and who has it: StableWhilePublishing holds      *)
(* because a writer excludes the publishers.                               *)
LockInv ==
  /\ \A x \in Processes :
       /\ pc[x] = "queued" <=> Contains(waiting, x)
       /\ pc[x] = "holding" <=> x \in readers \/ x = writer
  /\ IsInjective(waiting)
  /\ writer # None => readers = {}

(* A subscription has each of its inboxes once.                            *)
EntriesInv ==
  \A t \in Topics :
    /\ IsInjective(subs[t])
    /\ \A i \in DOMAIN subs[t] :
         TopicOf[subs[t][i]] = t /\ pc[subs[t][i]] = "returned"

(* The loop of p, which is publishing, has passed the inbox of s.          *)
Served(p, s) ==
  /\ pc[p] = "holding"
  /\ \E i \in DOMAIN Targets(p) : i < pos[p] /\ Targets(p)[i] = s

(* A loop begins with the first inbox, and there is a message to publish.  *)
Fresh(p) ==
  /\ pc[p] # "holding" => pos[p] = 1
  /\ pc[p] \in {"queued", "holding"} => sent[p] < Messages

(* An inbox has what was published to it, and of the message that p is     *)
(* publishing only what its loop has sent.                                 *)
OnlyPublished ==
  /\ \A p \in Publishers : Fresh(p)
  /\ \A s \in Subscribers :
       \A i \in DOMAIN Delivered(s) :
         LET m == Delivered(s)[i] IN
         \/ m.seq <= sent[m.from]
         \/ m = Sending(m.from) /\ Served(m.from, s)

(* What is owed was promised to a subscriber of the address, and has been  *)
(* delivered once the publisher's loop has passed its inbox.               *)
OwedSoFar ==
  \A d \in owed :
    LET m == d[1]
        s == d[2]
    IN /\ TopicOf[m.from] = TopicOf[s] /\ pc[s] = "returned"
       /\ m = Sending(m.from) /\ Served(m.from, s) /\ alive[s] =>
            Contains(Delivered(s), m)

(* The inductive invariant.                                                *)
IInv ==
  /\ TypeOK
  /\ LockInv
  /\ EntriesInv
  /\ OnlyPublished
  /\ OwedSoFar
  /\ OwedIsDelivered
  /\ InOrderOnce

-----------------------------------------------------------------------------
(* Lists.                                                                  *)

(* A list without repetition to which somebody new is added.               *)
LEMMA AppendList ==
  ASSUME NEW S, NEW q \in Seq(S), NEW x \in S, IsInjective(q), ~Contains(q, x)
  PROVE  /\ Append(q, x) \in Seq(S)
         /\ IsInjective(Append(q, x))
         /\ \A y \in S : Contains(Append(q, x), y) <=> Contains(q, y) \/ y = x
<1>1. /\ Append(q, x) \in Seq(S)
      /\ Len(Append(q, x)) = Len(q) + 1
      /\ DOMAIN Append(q, x) = 1 .. Len(q) + 1
      /\ \A i \in 1 .. Len(q) : Append(q, x)[i] = q[i]
      /\ Append(q, x)[Len(q) + 1] = x
  OBVIOUS
<1>2. IsInjective(Append(q, x))
  BY <1>1 DEF IsInjective, Contains
<1>3. ASSUME NEW y \in S
      PROVE  Contains(Append(q, x), y) <=> Contains(q, y) \/ y = x
  BY <1>1 DEF Contains
<1> QED BY <1>1, <1>2, <1>3

(* A list without repetition without its first.                            *)
LEMMA TailList ==
  ASSUME NEW S, NEW q \in Seq(S), q # <<>>, IsInjective(q)
  PROVE  /\ Tail(q) \in Seq(S)
         /\ Head(q) \in S
         /\ IsInjective(Tail(q))
         /\ Contains(q, Head(q))
         /\ \A y \in S : Contains(Tail(q), y) <=> Contains(q, y) /\ y # Head(q)
<1>1. /\ Tail(q) \in Seq(S)
      /\ Len(q) \in Nat \ {0}
      /\ Len(Tail(q)) = Len(q) - 1
      /\ DOMAIN Tail(q) = 1 .. Len(q) - 1
      /\ DOMAIN q = 1 .. Len(q)
      /\ \A i \in 1 .. Len(q) - 1 : Tail(q)[i] = q[i + 1]
      /\ Head(q) = q[1] /\ Head(q) \in S
  OBVIOUS
<1>2. IsInjective(Tail(q))
  BY <1>1 DEF IsInjective
<1>3. Contains(q, Head(q))
  BY <1>1 DEF Contains
<1>4. ASSUME NEW y \in S
      PROVE  Contains(Tail(q), y) <=> Contains(q, y) /\ y # Head(q)
  <2>1. ASSUME NEW i \in 1 .. Len(q), q[i] = y, y # Head(q)
        PROVE  Contains(Tail(q), y)
    <3>1. i - 1 \in 1 .. Len(Tail(q)) /\ Tail(q)[i - 1] = y
      BY <1>1, <2>1
    <3> QED BY <3>1 DEF Contains
  <2>2. ASSUME NEW i \in 1 .. Len(Tail(q)), Tail(q)[i] = y
        PROVE  Contains(q, y) /\ y # Head(q)
    <3>1. i + 1 \in 1 .. Len(q) /\ q[i + 1] = y
      BY <1>1, <2>2
    <3>2. y # q[1]
      BY <1>1, <3>1 DEF IsInjective
    <3> QED BY <1>1, <3>1, <3>2 DEF Contains
  <2> QED BY <2>1, <2>2 DEF Contains
<1> QED BY <1>1, <1>2, <1>3, <1>4

(* What a handle has received and will receive, as messages come and go.   *)
LEMMA DeliveredAppend ==
  ASSUME NEW M, NEW r \in Seq(M), NEW b \in Seq(M), NEW m \in M
  PROVE  r \o Append(b, m) = Append(r \o b, m)
OBVIOUS

LEMMA DeliveredMove ==
  ASSUME NEW M, NEW r \in Seq(M), NEW b \in Seq(M), b # <<>>
  PROVE  Append(r, Head(b)) \o Tail(b) = r \o b
OBVIOUS

LEMMA DeliveredFirst ==
  ASSUME NEW M, NEW r \in Seq(M), NEW b \in Seq(M)
  PROVE  Len(r) \in 0 .. Len(r \o b) /\ r \o <<>> = SubSeq(r \o b, 1, Len(r))
<1> DEFINE n == Len(r)
           k == Len(b)
           d == r \o b
           e == SubSeq(d, 1, n)
<1>1. /\ n \in Nat /\ k \in Nat
      /\ d \in Seq(M) /\ Len(d) = n + k
      /\ \A i \in 1 .. n : d[i] = r[i]
  OBVIOUS
<1>2. r \o <<>> = r /\ r = [i \in 1 .. n |-> r[i]]
  OBVIOUS
<1>3. n \in 0 .. Len(d)
  <2> HIDE DEF n, k, d
  <2> QED BY <1>1
<1>4. e = [i \in 1 .. n |-> d[i]]
  <2> HIDE DEF n, k, d
  <2>1. n - 1 + 1 = n /\ \A i \in 1 .. n : i + 1 - 1 = i
    BY <1>1
  <2> QED BY <1>1, <1>3, <2>1
<1> QED BY <1>1, <1>2, <1>3, <1>4

-----------------------------------------------------------------------------
(* What follows from the types.                                            *)

(* Processes are publishers, subscribers or closers, and only one of these. *)
LEMMA Kinds ==
  /\ \A p \in Publishers : p \in Processes /\ p \notin Subscribers \cup Closers /\ p # None
  /\ \A s \in Subscribers : s \in Processes /\ s \notin Closers /\ s # None
  /\ \A c \in Closers : c \in Processes /\ c # None
  /\ \A p \in Publishers : TopicOf[p] \in Topics
  /\ \A s \in Subscribers : TopicOf[s] \in Topics
BY ProcessesAssumption, TopicAssumption DEF Processes

(* The inductive invariant holds at first.                                 *)
LEMMA InitIInv == Init => IInv
<1> SUFFICES ASSUME Init PROVE IInv
  OBVIOUS
<1>1. TypeOK
  BY SizeAssumption DEF Init, TypeOK
<1>2. LockInv /\ EntriesInv
  BY Kinds DEF Init, LockInv, EntriesInv, IsInjective, Contains, Processes
<1>3. \A s \in Subscribers : Delivered(s) = <<>>
  BY DEF Init, Delivered
<1>4. OnlyPublished /\ InOrderOnce
  BY <1>3, Kinds DEF Init, OnlyPublished, InOrderOnce, Fresh
<1>5. OwedSoFar /\ OwedIsDelivered
  BY DEF Init, OwedSoFar, OwedIsDelivered
<1> QED BY <1>1, <1>2, <1>4, <1>5 DEF IInv

-----------------------------------------------------------------------------
(* The lock.                                                               *)

(* A call joins the queue; who holds the lock and who has returned is as   *)
(* before.                                                                 *)
LEMMA EnqueueKeeps ==
  ASSUME TypeOK, LockInv, NEW x \in Processes, Enqueue(x),
         UNCHANGED <<readers, writer>>
  PROVE  /\ LockInv'
         /\ pc' \in [Processes -> {"idle", "queued", "holding", "returned"}]
         /\ waiting' \in Seq(Processes)
         /\ \A y \in Processes : /\ pc'[y] = "returned" <=> pc[y] = "returned"
                                 /\ pc'[y] = "holding" <=> pc[y] = "holding"
                                 /\ pc'[y] = pc[y] \/ y = x
<1>1. /\ pc[x] = "idle" /\ pc' = [pc EXCEPT ![x] = "queued"]
      /\ waiting' = Append(waiting, x)
      /\ waiting \in Seq(Processes) /\ ~Contains(waiting, x)
      /\ IsInjective(waiting)
  BY DEF Enqueue, TypeOK, LockInv
<1>2. /\ waiting' \in Seq(Processes) /\ IsInjective(waiting')
      /\ \A y \in Processes : Contains(waiting', y) <=> Contains(waiting, y) \/ y = x
  BY <1>1, AppendList
<1>3. /\ pc' \in [Processes -> {"idle", "queued", "holding", "returned"}]
      /\ \A y \in Processes : /\ pc'[y] = "returned" <=> pc[y] = "returned"
                              /\ pc'[y] = "holding" <=> pc[y] = "holding"
                              /\ pc'[y] = "queued" <=> pc[y] = "queued" \/ y = x
                              /\ pc'[y] = pc[y] \/ y = x
  BY <1>1 DEF TypeOK
<1>4. LockInv'
  BY <1>2, <1>3 DEF LockInv
<1> QED BY <1>2, <1>3, <1>4

(* The first of the queue gets the lock, a writer only when it is free.    *)
LEMMA GrantLock ==
  ASSUME TypeOK, LockInv, Grant
  PROVE  /\ LockInv'
         /\ pc' \in [Processes -> {"idle", "queued", "holding", "returned"}]
         /\ waiting' \in Seq(Processes)
         /\ readers' \subseteq Publishers
         /\ writer' \in Subscribers \cup Closers \cup {None}
         /\ \A y \in Processes : /\ pc'[y] = "returned" <=> pc[y] = "returned"
                                 /\ pc'[y] # pc[y] => pc[y] = "queued"
<1> DEFINE x == Head(waiting)
<1>1. /\ waiting \in Seq(Processes) /\ waiting # <<>> /\ IsInjective(waiting)
      /\ waiting' = Tail(waiting)
      /\ pc' = [pc EXCEPT ![x] = "holding"]
      /\ writer = None /\ (x \in Publishers \/ readers = {})
      /\ IF x \in Publishers
         THEN readers' = readers \cup {x} /\ writer' = writer
         ELSE writer' = x /\ readers' = readers
  BY DEF Grant, Grantable, TypeOK, LockInv
<1>2. /\ Tail(waiting) \in Seq(Processes) /\ x \in Processes
      /\ IsInjective(Tail(waiting)) /\ Contains(waiting, x)
      /\ \A y \in Processes : Contains(Tail(waiting), y) <=> Contains(waiting, y) /\ y # x
  BY <1>1, TailList
<1>3. pc[x] = "queued"
  BY <1>2 DEF LockInv
<1> HIDE DEF x
<1>4. /\ pc' \in [Processes -> {"idle", "queued", "holding", "returned"}]
      /\ \A y \in Processes : /\ pc'[y] = "returned" <=> pc[y] = "returned"
                              /\ pc'[y] # pc[y] => pc[y] = "queued"
                              /\ pc'[y] = "queued" <=> pc[y] = "queued" /\ y # x
                              /\ pc'[y] = "holding" <=> pc[y] = "holding" \/ y = x
  BY <1>1, <1>2, <1>3 DEF TypeOK
<1>5. /\ readers' \subseteq Publishers
      /\ writer' \in Subscribers \cup Closers \cup {None}
      /\ writer' # None => readers' = {}
  BY <1>1, <1>2 DEF TypeOK, Processes
<1>6. \A y \in Processes : y \in readers' \/ y = writer' <=> y \in readers \/ y = writer \/ y = x
  BY <1>1, ProcessesAssumption
<1>7. LockInv'
  BY <1>1, <1>2, <1>4, <1>5, <1>6 DEF LockInv
<1> QED BY <1>1, <1>2, <1>4, <1>5, <1>7

(* The holder of the lock lets it go.                                      *)
LEMMA ReleaseLock ==
  ASSUME TypeOK, LockInv, NEW x \in Processes, NEW s \in {"idle", "returned"},
         pc[x] = "holding", pc' = [pc EXCEPT ![x] = s], UNCHANGED waiting,
         \/ x \in Publishers /\ readers' = readers \ {x} /\ writer' = writer
         \/ writer = x /\ writer' = None /\ readers' = readers
  PROVE  LockInv'
<1>1. \A y \in Processes : /\ pc'[y] = "queued" <=> pc[y] = "queued"
                           /\ pc'[y] = "holding" <=> pc[y] = "holding" /\ y # x
  BY DEF TypeOK
<1>2. x \in Publishers => writer # x
  BY ProcessesAssumption DEF TypeOK
<1>3. /\ writer' # None => readers' = {}
      /\ x \notin readers' /\ x # writer'
      /\ \A y \in Processes : y # x =>
           (y \in readers' \/ y = writer' <=> y \in readers \/ y = writer)
  BY <1>2, Kinds, ProcessesAssumption DEF LockInv, TypeOK, Processes
<1> QED BY <1>1, <1>3 DEF LockInv

(* While somebody writes nobody publishes.                                 *)
LEMMA WriterIsAlone ==
  ASSUME TypeOK, LockInv, writer # None
  PROVE  /\ \A p \in Publishers : pc[p] # "holding"
         /\ \A p \in Publishers, s \in Subscribers : ~Served(p, s)
BY Kinds DEF TypeOK, LockInv, Served

-----------------------------------------------------------------------------
(* Steps that deliver nothing.                                             *)

(* What the loops have sent is as before.                                  *)
LEMMA DeliveredSame ==
  ASSUME IInv, UNCHANGED sent,
         \A s \in Subscribers : Delivered(s)' = Delivered(s),
         \A p \in Publishers : Fresh(p)',
         \A p \in Publishers, s \in Subscribers : Served(p, s) => Served(p, s)'
  PROVE  OnlyPublished' /\ InOrderOnce'
<1>1. ASSUME NEW s \in Subscribers, NEW i \in DOMAIN Delivered(s)
      PROVE  Delivered(s)[i] \in Message
  <2>1. Delivered(s) \in Seq(Message)
    BY DEF IInv, TypeOK, Delivered
  <2> QED BY <2>1
<1>2. OnlyPublished'
  BY <1>1 DEF IInv, OnlyPublished, Sending, Message
<1>3. InOrderOnce'
  BY DEF IInv, InOrderOnce
<1> QED BY <1>2, <1>3

(* Nothing is owed that was not, and no loop has moved.                    *)
LEMMA OwedSame ==
  ASSUME IInv, UNCHANGED <<sent, subs, owed>>,
         \A s \in Subscribers : /\ alive'[s] => alive[s]
                                /\ alive'[s] => Delivered(s)' = Delivered(s)
                                /\ pc'[s] = "returned" <=> pc[s] = "returned",
         \A p \in Publishers, s \in Subscribers :
           Served(p, s)' /\ alive'[s] => Served(p, s)
  PROVE  OwedSoFar' /\ OwedIsDelivered'
<1> SUFFICES ASSUME NEW d \in owed
             PROVE  LET m == d[1]
                        s == d[2]
                    IN /\ TopicOf[m.from] = TopicOf[s] /\ pc'[s] = "returned"
                       /\ m = Sending(m.from)' /\ Served(m.from, s)' /\ alive'[s] =>
                            Contains(Delivered(s)', m)
                       /\ m.seq <= sent[m.from] /\ alive'[s] /\ Subscribed(s)' =>
                            Contains(Delivered(s)', m)
  BY DEF OwedSoFar, OwedIsDelivered
<1>1. d[1] \in Message /\ d[1].from \in Publishers /\ d[2] \in Subscribers
  BY DEF IInv, TypeOK, Message
<1>2. Subscribed(d[2])' <=> Subscribed(d[2])
  BY <1>1 DEF Subscribed
<1>3. Sending(d[1].from)' = Sending(d[1].from)
  BY DEF Sending
<1> QED BY <1>1, <1>2, <1>3 DEF IInv, OwedSoFar, OwedIsDelivered

(* The entries of the map stay, and so do the calls that made them.        *)
LEMMA EntriesSame ==
  ASSUME TypeOK, EntriesInv, UNCHANGED subs,
         \A s \in Subscribers : pc[s] = "returned" => pc'[s] = "returned"
  PROVE  EntriesInv'
<1>1. ASSUME NEW t \in Topics, NEW i \in DOMAIN subs[t]
      PROVE  subs[t][i] \in Subscribers
  <2>1. subs[t] \in Seq(Subscribers)
    BY DEF TypeOK
  <2> QED BY <2>1
<1> QED BY <1>1 DEF EntriesInv

(* A subscribe() or close() that begins to wait for the lock.              *)
LEMMA WriterWaitsKeeps ==
  ASSUME IInv, NEW x \in Processes, Enqueue(x), x \notin Publishers,
         UNCHANGED <<readers, writer, subs, inbox, alive, sent, pos, received, owed>>
  PROVE  IInv'
<1>1. /\ LockInv' /\ waiting' \in Seq(Processes)
      /\ pc' \in [Processes -> {"idle", "queued", "holding", "returned"}]
      /\ \A y \in Processes : /\ pc'[y] = "returned" <=> pc[y] = "returned"
                              /\ pc'[y] = "holding" <=> pc[y] = "holding"
                              /\ pc'[y] = pc[y] \/ y = x
  BY EnqueueKeeps DEF IInv
<1>2. TypeOK'
  BY <1>1 DEF IInv, TypeOK
<1>3. EntriesInv'
  <2>1. \A s \in Subscribers : pc[s] = "returned" => pc'[s] = "returned"
    BY <1>1, Kinds
  <2>2. TypeOK /\ EntriesInv /\ subs' = subs
    BY DEF IInv
  <2> QED BY <2>1, <2>2, EntriesSame
<1>4. /\ \A s \in Subscribers : Delivered(s)' = Delivered(s)
      /\ \A p \in Publishers, s \in Subscribers : Served(p, s)' <=> Served(p, s)
      /\ \A p \in Publishers : Fresh(p)'
  BY <1>1, Kinds DEF Delivered, Served, Targets, IInv, OnlyPublished, Fresh
<1>5. OnlyPublished' /\ InOrderOnce' /\ OwedSoFar' /\ OwedIsDelivered'
  BY <1>1, <1>4, DeliveredSame, OwedSame, Kinds
<1> QED BY <1>1, <1>2, <1>3, <1>5 DEF IInv

(* The lock changes hands: a publisher that gets it has sent nothing yet.  *)
LEMMA GrantKeeps ==
  ASSUME IInv, Grant
  PROVE  IInv'
<1>1. /\ LockInv' /\ waiting' \in Seq(Processes)
      /\ pc' \in [Processes -> {"idle", "queued", "holding", "returned"}]
      /\ readers' \subseteq Publishers
      /\ writer' \in Subscribers \cup Closers \cup {None}
      /\ \A y \in Processes : /\ pc'[y] = "returned" <=> pc[y] = "returned"
                              /\ pc'[y] # pc[y] => pc[y] = "queued"
  BY GrantLock DEF IInv
<1>2. UNCHANGED <<subs, inbox, alive, sent, pos, received, owed>>
  BY DEF Grant
<1>3. TypeOK'
  BY <1>1, <1>2 DEF IInv, TypeOK
<1>4. EntriesInv'
  BY <1>1, <1>2, EntriesSame, Kinds DEF IInv
<1>5. \A p \in Publishers : pc'[p] # pc[p] => pos[p] = 1
  BY <1>1, Kinds DEF IInv, OnlyPublished, Fresh
<1>6. \A p \in Publishers : Fresh(p)'
  BY <1>1, <1>2, <1>5, Kinds DEF IInv, OnlyPublished, Fresh
<1>7. ASSUME NEW p \in Publishers, NEW s \in Subscribers
      PROVE  Served(p, s)' <=> Served(p, s)
  <2>1. Targets(p) \in Seq(Subscribers)
    BY Kinds DEF IInv, TypeOK, Targets
  <2> QED BY <1>2, <1>5, <2>1 DEF Served, Targets
<1>8. \A s \in Subscribers : Delivered(s)' = Delivered(s)
  BY <1>2 DEF Delivered
<1>9. OnlyPublished' /\ InOrderOnce' /\ OwedSoFar' /\ OwedIsDelivered'
  BY <1>1, <1>2, <1>6, <1>7, <1>8, DeliveredSame, OwedSame, Kinds
<1> QED BY <1>1, <1>3, <1>4, <1>9 DEF IInv

(* A publish() begins: its message is owed to those subscribed now.        *)
LEMMA PublishKeeps ==
  ASSUME IInv, NEW p \in Publishers, Publish(p)
  PROVE  IInv'
<1>0. /\ p \in Processes /\ Enqueue(p) /\ sent[p] < Messages /\ pc[p] = "idle"
      /\ UNCHANGED <<readers, writer, subs, inbox, alive, sent, pos, received>>
  BY Kinds DEF Publish, Enqueue
<1>1. /\ LockInv' /\ waiting' \in Seq(Processes)
      /\ pc' \in [Processes -> {"idle", "queued", "holding", "returned"}]
      /\ \A y \in Processes : /\ pc'[y] = "returned" <=> pc[y] = "returned"
                              /\ pc'[y] = "holding" <=> pc[y] = "holding"
                              /\ pc'[y] = pc[y] \/ y = p
  BY <1>0, EnqueueKeeps DEF IInv
<1>2. Sending(p) \in Message /\ Sending(p).from = p /\ Sending(p).seq = sent[p] + 1
  BY <1>0, SizeAssumption DEF Sending, Message, IInv, TypeOK
<1>3. \A d \in owed' : \/ d \in owed
                       \/ /\ d = <<Sending(p), d[2]>> /\ d[2] \in Subscribers
                          /\ TopicOf[d[2]] = TopicOf[p] /\ Subscribed(d[2])
  BY DEF Publish
<1>4. TypeOK'
  <2>1. owed' \subseteq Message \X Subscribers
    BY <1>2 DEF Publish, IInv, TypeOK
  <2> QED BY <1>0, <1>1, <2>1 DEF IInv, TypeOK
<1>5. EntriesInv'
  BY <1>0, <1>1, EntriesSame, Kinds DEF IInv
<1>6. /\ \A s \in Subscribers : Delivered(s)' = Delivered(s)
      /\ \A q \in Publishers, s \in Subscribers : Served(q, s)' <=> Served(q, s)
      /\ \A q \in Publishers : Fresh(q)'
  BY <1>0, <1>1, Kinds
     DEF Delivered, Served, Targets, IInv, OnlyPublished, Fresh
<1>7. OnlyPublished' /\ InOrderOnce'
  BY <1>0, <1>6, DeliveredSame
<1>8. ASSUME NEW d \in owed'
      PROVE  LET m == d[1]
                 s == d[2]
             IN /\ TopicOf[m.from] = TopicOf[s] /\ pc'[s] = "returned"
                /\ m = Sending(m.from)' /\ Served(m.from, s)' /\ alive'[s] =>
                     Contains(Delivered(s)', m)
                /\ m.seq <= sent'[m.from] /\ alive'[s] /\ Subscribed(s)' =>
                     Contains(Delivered(s)', m)
  <2>1. CASE d \in owed
    <3>1. d[1] \in Message /\ d[1].from \in Publishers /\ d[2] \in Subscribers
      BY <2>1 DEF IInv, TypeOK, Message
    <3>2. Subscribed(d[2])' <=> Subscribed(d[2])
      BY <1>0, <1>1, <3>1, Kinds DEF Subscribed
    <3>3. Sending(d[1].from)' = Sending(d[1].from)
      BY <1>0 DEF Sending
    <3> QED
      BY <1>0, <1>1, <1>6, <2>1, <3>1, <3>2, <3>3, Kinds
         DEF IInv, OwedSoFar, OwedIsDelivered
  <2>2. CASE d \notin owed
    <3>1. /\ d[1] = Sending(p) /\ d[2] \in Subscribers
          /\ TopicOf[d[2]] = TopicOf[p] /\ Subscribed(d[2])
      BY <1>3, <2>2
    <3>2. pc'[d[2]] = "returned"
      BY <1>1, <3>1, Kinds DEF Subscribed
    <3>3. ~Served(p, d[2])'
      BY <1>0, <1>1 DEF Served
    <3>4. ~(sent[p] + 1 <= sent[p])
      BY DEF IInv, TypeOK
    <3> QED BY <1>0, <1>2, <3>1, <3>2, <3>3, <3>4
  <2> QED BY <2>1, <2>2
<1>9. OwedSoFar' /\ OwedIsDelivered'
  BY <1>8 DEF OwedSoFar, OwedIsDelivered
<1> QED BY <1>1, <1>4, <1>5, <1>7, <1>9 DEF IInv

-----------------------------------------------------------------------------
(* Steps that change what is subscribed.                                   *)

(* A new inbox is nobody's yet: what is owed was promised to others.       *)
LEMMA SubscribeReturnsKeeps ==
  ASSUME IInv, NEW s \in Subscribers, SubscribeReturns(s)
  PROVE  IInv'
<1> DEFINE t0 == TopicOf[s]
<1>1. /\ t0 \in Topics /\ subs[t0] \in Seq(Subscribers)
      /\ subs' = [subs EXCEPT ![t0] = Append(subs[t0], s)]
      /\ pc' = [pc EXCEPT ![s] = "returned"]
      /\ s \in Processes /\ writer = s /\ writer' = None
      /\ UNCHANGED <<waiting, readers, inbox, alive, sent, pos, received, owed>>
  BY Kinds DEF SubscribeReturns, IInv, TypeOK
<1>2. pc[s] = "holding" /\ writer # None
  BY <1>1, Kinds DEF IInv, LockInv
<1>3. LockInv'
  BY <1>1, <1>2, ReleaseLock DEF IInv
<1>4. IsInjective(subs[t0]) /\ ~Contains(subs[t0], s)
  BY <1>1, <1>2 DEF IInv, EntriesInv, Contains
<1>5. /\ Append(subs[t0], s) \in Seq(Subscribers)
      /\ IsInjective(Append(subs[t0], s))
      /\ \A y \in Subscribers :
           Contains(Append(subs[t0], s), y) <=> Contains(subs[t0], y) \/ y = s
  BY <1>1, <1>4, AppendList
<1>6. TypeOK'
  <2>1. subs' \in [Topics -> Seq(Subscribers)]
    BY <1>1, <1>5 DEF IInv, TypeOK
  <2>2. pc' \in [Processes -> {"idle", "queued", "holding", "returned"}]
    BY <1>1 DEF IInv, TypeOK
  <2> QED BY <1>1, <2>1, <2>2 DEF IInv, TypeOK
<1>7. EntriesInv'
  <2> SUFFICES ASSUME NEW t \in Topics
               PROVE  /\ IsInjective(subs'[t])
                      /\ \A i \in DOMAIN subs'[t] :
                           TopicOf[subs'[t][i]] = t /\ pc'[subs'[t][i]] = "returned"
    BY DEF EntriesInv
  <2>1. /\ subs[t] \in Seq(Subscribers) /\ IsInjective(subs[t])
        /\ \A i \in DOMAIN subs[t] :
             TopicOf[subs[t][i]] = t /\ pc[subs[t][i]] = "returned"
    BY DEF IInv, TypeOK, EntriesInv
  <2>2. \A u \in Processes : pc[u] = "returned" => pc'[u] = "returned"
    BY <1>1 DEF IInv, TypeOK
  <2>3. \A i \in DOMAIN subs[t] : subs[t][i] \in Processes
    BY <2>1, Kinds
  <2>4. CASE t # t0
    <3>1. subs'[t] = subs[t]
      BY <1>1, <2>4 DEF IInv, TypeOK
    <3> QED BY <2>1, <2>2, <2>3, <3>1
  <2>5. CASE t = t0
    <3>1. subs'[t] = Append(subs[t], s)
      BY <1>1, <2>5 DEF IInv, TypeOK
    <3>2. \A i \in DOMAIN Append(subs[t], s) :
            \/ i \in DOMAIN subs[t] /\ Append(subs[t], s)[i] = subs[t][i]
            \/ Append(subs[t], s)[i] = s
      BY <2>1
    <3>3. pc'[s] = "returned"
      BY <1>1 DEF IInv, TypeOK
    <3> QED BY <1>5, <2>1, <2>2, <2>3, <2>5, <3>1, <3>2, <3>3
  <2> QED BY <2>4, <2>5
<1>8. \A p \in Publishers, u \in Subscribers : ~Served(p, u) /\ ~Served(p, u)'
  <2>1. \A p \in Publishers : pc[p] # "holding" /\ pc'[p] = pc[p]
    BY <1>1, <1>2, WriterIsAlone, Kinds DEF IInv, TypeOK
  <2> QED BY <2>1 DEF Served
<1>9. \A u \in Subscribers : Delivered(u)' = Delivered(u)
  BY <1>1 DEF Delivered
<1>10. \A p \in Publishers : Fresh(p)'
  BY <1>1, Kinds DEF IInv, TypeOK, OnlyPublished, Fresh
<1>11. OnlyPublished' /\ InOrderOnce'
  BY <1>1, <1>8, <1>9, <1>10, DeliveredSame
<1>12. ASSUME NEW d \in owed
       PROVE  /\ pc'[d[2]] = "returned"
              /\ Subscribed(d[2])' => Subscribed(d[2])
  <2>1. d[2] \in Subscribers /\ d[2] \in Processes /\ TopicOf[d[2]] \in Topics
    BY Kinds DEF IInv, TypeOK
  <2>2. pc[d[2]] = "returned" /\ d[2] # s /\ pc'[d[2]] = "returned"
    BY <1>1, <1>2, <2>1 DEF IInv, OwedSoFar, TypeOK
  <2>3. Contains(subs'[TopicOf[d[2]]], d[2]) => Contains(subs[TopicOf[d[2]]], d[2])
    BY <1>1, <1>5, <2>1, <2>2 DEF IInv, TypeOK
  <2> QED BY <2>2, <2>3 DEF Subscribed
<1>13. OwedSoFar'
  <2>1. \A d \in owed : d[1].from \in Publishers /\ d[2] \in Subscribers
    BY DEF IInv, TypeOK, Message
  <2> QED BY <1>1, <1>8, <1>12, <2>1 DEF IInv, OwedSoFar
<1>14. OwedIsDelivered'
  <2>1. \A d \in owed : d[2] \in Subscribers
    BY DEF IInv, TypeOK
  <2> QED BY <1>1, <1>9, <1>12, <2>1 DEF IInv, OwedIsDelivered
<1> QED BY <1>3, <1>6, <1>7, <1>11, <1>13, <1>14 DEF IInv

(* After a close() nobody is subscribed, and nothing is owed to anybody.   *)
LEMMA CloseReturnsKeeps ==
  ASSUME IInv, NEW c \in Closers, CloseReturns(c)
  PROVE  IInv'
<1>1. /\ subs' = [t \in Topics |-> <<>>]
      /\ pc' = [pc EXCEPT ![c] = "returned"]
      /\ c \in Processes /\ writer = c /\ writer' = None
      /\ UNCHANGED <<waiting, readers, inbox, alive, sent, pos, received, owed>>
  BY Kinds DEF CloseReturns
<1>2. pc[c] = "holding" /\ writer # None
  BY <1>1, Kinds DEF IInv, LockInv
<1>3. LockInv'
  BY <1>1, <1>2, ReleaseLock DEF IInv
<1>4. TypeOK'
  BY <1>1 DEF IInv, TypeOK
<1>5. EntriesInv'
  BY <1>1 DEF EntriesInv, IsInjective
<1>6. \A p \in Publishers, u \in Subscribers : ~Served(p, u) /\ ~Served(p, u)'
  <2>1. \A p \in Publishers : pc[p] # "holding" /\ pc'[p] = pc[p]
    BY <1>1, <1>2, WriterIsAlone, Kinds DEF IInv, TypeOK
  <2> QED BY <2>1 DEF Served
<1>7. \A u \in Subscribers : /\ Delivered(u)' = Delivered(u)
                             /\ ~Subscribed(u)'
                             /\ pc[u] = "returned" => pc'[u] = "returned"
  BY <1>1, Kinds DEF Delivered, Subscribed, Contains, IInv, TypeOK
<1>8. \A p \in Publishers : Fresh(p)'
  BY <1>1, Kinds DEF IInv, TypeOK, OnlyPublished, Fresh
<1>9. OnlyPublished' /\ InOrderOnce'
  BY <1>1, <1>6, <1>7, <1>8, DeliveredSame
<1>10. OwedSoFar' /\ OwedIsDelivered'
  <2>1. \A d \in owed : d[1].from \in Publishers /\ d[2] \in Subscribers
    BY DEF IInv, TypeOK, Message
  <2> QED BY <1>1, <1>6, <1>7, <2>1 DEF IInv, OwedSoFar, OwedIsDelivered
<1> QED BY <1>3, <1>4, <1>5, <1>9, <1>10 DEF IInv

(* A message moves from the inbox to its receiver.                         *)
LEMMA ReceiveKeeps ==
  ASSUME IInv, NEW s \in Subscribers, Receive(s)
  PROVE  IInv'
<1>1. /\ inbox[s] \in Seq(Message) /\ inbox[s] # <<>> /\ received[s] \in Seq(Message)
      /\ received' = [received EXCEPT ![s] = Append(@, Head(inbox[s]))]
      /\ inbox' = [inbox EXCEPT ![s] = Tail(@)]
      /\ UNCHANGED <<pc, waiting, readers, writer, subs, alive, sent, pos, owed>>
  BY DEF Receive, IInv, TypeOK
<1>2. /\ Tail(inbox[s]) \in Seq(Message)
      /\ Len(Tail(inbox[s])) <= Len(inbox[s])
      /\ Append(received[s], Head(inbox[s])) \in Seq(Message)
  BY <1>1
<1>3. TypeOK'
  <2>1. /\ inbox' \in [Subscribers -> Seq(Message)]
        /\ received' \in [Subscribers -> Seq(Message)]
    BY <1>1, <1>2 DEF IInv, TypeOK
  <2>2. ASSUME NEW u \in Subscribers PROVE Len(inbox'[u]) <= Capacity
    <3>1. CASE u = s
      <4>1. Len(inbox[s]) <= Capacity /\ Len(inbox[s]) \in Nat /\ Len(Tail(inbox[s])) \in Nat
        BY <1>1, <1>2 DEF IInv, TypeOK
      <4> QED BY <1>1, <1>2, <3>1, <4>1, SizeAssumption DEF IInv, TypeOK
    <3>2. CASE u # s
      BY <1>1, <3>2 DEF IInv, TypeOK
    <3> QED BY <3>1, <3>2
  <2> QED BY <1>1, <2>1, <2>2 DEF IInv, TypeOK
<1>4. ASSUME NEW u \in Subscribers
      PROVE  Delivered(u)' = Delivered(u)
  <2>1. CASE u = s
    <3>1. Append(received[s], Head(inbox[s])) \o Tail(inbox[s]) = received[s] \o inbox[s]
      BY <1>1, DeliveredMove
    <3> QED BY <1>1, <2>1, <3>1 DEF Delivered, IInv, TypeOK
  <2>2. CASE u # s
    BY <1>1, <2>2 DEF Delivered, IInv, TypeOK
  <2> QED BY <2>1, <2>2
<1>5. \A p \in Publishers, u \in Subscribers : Served(p, u)' <=> Served(p, u)
  BY <1>1 DEF Served, Targets
<1>6. LockInv' /\ EntriesInv'
  BY <1>1, EntriesSame DEF IInv, LockInv
<1>7. OnlyPublished' /\ InOrderOnce' /\ OwedSoFar' /\ OwedIsDelivered'
  BY <1>1, <1>4, <1>5, DeliveredSame, OwedSame DEF IInv, OnlyPublished, Fresh
<1> QED BY <1>3, <1>6, <1>7 DEF IInv

(* A dropped handle keeps what it has received, and is owed nothing more.  *)
LEMMA DropHandleKeeps ==
  ASSUME IInv, NEW s \in Subscribers, DropHandle(s)
  PROVE  IInv'
<1>1. /\ alive' = [alive EXCEPT ![s] = FALSE]
      /\ inbox' = [inbox EXCEPT ![s] = <<>>]
      /\ UNCHANGED <<pc, waiting, readers, writer, subs, sent, pos, received, owed>>
  BY DEF DropHandle
<1>2. TypeOK'
  BY <1>1, SizeAssumption DEF IInv, TypeOK
<1>3. \A u \in Subscribers : u # s => Delivered(u)' = Delivered(u)
  BY <1>1 DEF Delivered, IInv, TypeOK
<1>4. /\ DOMAIN Delivered(s)' \subseteq DOMAIN Delivered(s)
      /\ \A i \in DOMAIN Delivered(s)' : Delivered(s)'[i] = Delivered(s)[i]
  <2>1. received[s] \in Seq(Message) /\ inbox[s] \in Seq(Message) /\ inbox'[s] = <<>>
    BY <1>1 DEF IInv, TypeOK
  <2>2. Delivered(s) = received[s] \o inbox[s] /\ Delivered(s)' = received[s] \o <<>>
    BY <1>1, <2>1 DEF Delivered
  <2>3. \A r \in Seq(Message), b \in Seq(Message) :
          /\ DOMAIN (r \o <<>>) = 1 .. Len(r)
          /\ DOMAIN (r \o b) = 1 .. Len(r) + Len(b)
          /\ \A i \in 1 .. Len(r) : (r \o <<>>)[i] = r[i] /\ (r \o b)[i] = r[i]
    OBVIOUS
  <2>4. Len(received[s]) \in Nat /\ Len(inbox[s]) \in Nat
    BY <2>1
  <2> DEFINE r == received[s]
             b == inbox[s]
  <2>5. /\ DOMAIN (r \o <<>>) = 1 .. Len(r)
        /\ DOMAIN (r \o b) = 1 .. Len(r) + Len(b)
        /\ \A i \in 1 .. Len(r) : (r \o <<>>)[i] = r[i] /\ (r \o b)[i] = r[i]
    BY <2>1, <2>3
  <2>6. DOMAIN (r \o <<>>) \subseteq DOMAIN (r \o b)
    <3>1. \A x, y \in Nat : 1 .. x \subseteq 1 .. x + y
      OBVIOUS
    <3> QED BY <2>4, <2>5, <3>1, Zenon
  <2> QED BY <2>2, <2>5, <2>6
<1>5. \A p \in Publishers, u \in Subscribers : Served(p, u)' <=> Served(p, u)
  BY <1>1 DEF Served, Targets
<1>6. LockInv' /\ EntriesInv'
  BY <1>1, EntriesSame DEF IInv, LockInv
<1>7. OnlyPublished'
  <2>1. \A p \in Publishers : Sending(p)' = Sending(p)
    BY <1>1 DEF Sending
  <2>2. ASSUME NEW u \in Subscribers, NEW i \in DOMAIN Delivered(u)'
        PROVE  /\ Delivered(u)[i] \in Message
               /\ Delivered(u)'[i] = Delivered(u)[i] /\ i \in DOMAIN Delivered(u)
    <3>1. Delivered(u) \in Seq(Message)
      BY DEF IInv, TypeOK, Delivered
    <3> QED BY <1>3, <1>4, <3>1
  <2> QED BY <1>1, <1>5, <2>1, <2>2 DEF IInv, OnlyPublished, Message, Fresh
<1>8. InOrderOnce'
  BY <1>3, <1>4 DEF IInv, InOrderOnce
<1>9. OwedSoFar' /\ OwedIsDelivered'
  <2>1. \A u \in Subscribers : alive'[u] => alive[u] /\ u # s
    BY <1>1 DEF IInv, TypeOK
  <2> QED BY <1>1, <1>3, <1>5, <2>1, OwedSame
<1> QED BY <1>2, <1>6, <1>7, <1>8, <1>9 DEF IInv

-----------------------------------------------------------------------------
(* The loop of publish().                                                  *)

(* One turn: the loop passes the next inbox of its address.                *)
LEMMA SendPasses ==
  ASSUME IInv, NEW p \in Publishers, Send(p), NEW s, s = Targets(p)[pos[p]]
  PROVE  /\ s \in Subscribers /\ TopicOf[s] = TopicOf[p]
         /\ Sending(p) \in Message /\ Sending(p).from = p
         /\ Sending(p).seq = sent[p] + 1
         /\ ~Served(p, s)
         /\ \A q \in Publishers, u \in Subscribers :
              Served(q, u)' <=> Served(q, u) \/ (q = p /\ u = s)
<1>1. /\ pc[p] = "holding" /\ pos[p] \in Nat \ {0} /\ pos[p] <= Len(Targets(p))
      /\ pos' = [pos EXCEPT ![p] = @ + 1]
      /\ UNCHANGED <<pc, subs, sent>>
  BY DEF Send, IInv, TypeOK
<1>2. /\ Targets(p) \in Seq(Subscribers) /\ IsInjective(Targets(p))
      /\ \A i \in DOMAIN Targets(p) : TopicOf[Targets(p)[i]] = TopicOf[p]
  BY Kinds DEF IInv, TypeOK, EntriesInv, Targets
<1>3. pos[p] \in DOMAIN Targets(p) /\ s \in Subscribers /\ TopicOf[s] = TopicOf[p]
  BY <1>1, <1>2
<1>5. /\ Sending(p).seq = sent[p] + 1 /\ Sending(p).from = p
      /\ Sending(p) \in Message
  BY <1>1, SizeAssumption
     DEF Sending, Message, IInv, TypeOK, OnlyPublished, Fresh
<1>6. ~Served(p, s)
  BY <1>1, <1>2, <1>3 DEF Served, IsInjective
<1>7. ASSUME NEW q \in Publishers, NEW u \in Subscribers
      PROVE  Served(q, u)' <=> Served(q, u) \/ (q = p /\ u = s)
  <2>1. CASE q # p
    <3>1. pos'[q] = pos[q] /\ Targets(q)' = Targets(q)
      BY <1>1, <2>1 DEF IInv, TypeOK, Targets
    <3> QED BY <1>1, <2>1, <3>1 DEF Served
  <2>2. CASE q = p
    <3>1. pos'[p] = pos[p] + 1 /\ Targets(p)' = Targets(p) /\ pc'[p] = "holding"
      BY <1>1 DEF IInv, TypeOK, Targets
    <3>2. \A i \in DOMAIN Targets(p) : i < pos[p] + 1 <=> i < pos[p] \/ i = pos[p]
      BY <1>1, <1>2
    <3> QED BY <1>1, <1>3, <2>2, <3>1, <3>2 DEF Served
  <2> QED BY <2>1, <2>2
<1> QED BY <1>3, <1>5, <1>6, <1>7

(* A turn that finds the handle dropped delivers nothing and owes nothing. *)
LEMMA SendSkipsKeeps ==
  ASSUME IInv, NEW p \in Publishers, Send(p), UNCHANGED inbox,
         ~alive[Targets(p)[pos[p]]]
  PROVE  IInv'
<1>1. /\ pos[p] \in Nat \ {0} /\ pc[p] = "holding"
      /\ pos' = [pos EXCEPT ![p] = @ + 1]
      /\ UNCHANGED <<pc, waiting, readers, writer, subs, inbox, alive, sent,
                     received, owed>>
  BY DEF Send, IInv, TypeOK
<1>2. TypeOK' /\ LockInv' /\ EntriesInv'
  BY <1>1, EntriesSame DEF IInv, TypeOK, LockInv
<1>3. \A s \in Subscribers : Delivered(s)' = Delivered(s)
  BY <1>1 DEF Delivered
<1>4. \A q \in Publishers, u \in Subscribers :
        Served(q, u)' <=> Served(q, u) \/ (q = p /\ u = Targets(p)[pos[p]])
  BY SendPasses
<1>5. \A q \in Publishers : Fresh(q)'
  BY <1>1 DEF IInv, TypeOK, OnlyPublished, Fresh
<1>6. OnlyPublished' /\ InOrderOnce'
  BY <1>1, <1>3, <1>4, <1>5, DeliveredSame
<1>7. OwedSoFar' /\ OwedIsDelivered'
  BY <1>1, <1>3, <1>4, OwedSame
<1> QED BY <1>2, <1>6, <1>7 DEF IInv

(* A turn that delivers: the inbox had nothing of this message before.     *)
LEMMA SendDeliversKeeps ==
  ASSUME IInv, NEW p \in Publishers, Send(p), NEW s, s = Targets(p)[pos[p]],
         ~Full(s), inbox' = [inbox EXCEPT ![s] = Append(@, Sending(p))]
  PROVE  IInv'
<1> DEFINE m0 == Sending(p)
<1>1. /\ pos[p] \in Nat \ {0} /\ pc[p] = "holding"
      /\ pos' = [pos EXCEPT ![p] = @ + 1]
      /\ UNCHANGED <<pc, waiting, readers, writer, subs, alive, sent, received, owed>>
  BY DEF Send, IInv, TypeOK
<1>2. /\ s \in Subscribers /\ TopicOf[s] = TopicOf[p]
      /\ m0 \in Message /\ m0.from = p /\ m0.seq = sent[p] + 1
      /\ ~Served(p, s)
      /\ \A q \in Publishers, u \in Subscribers :
           Served(q, u)' <=> Served(q, u) \/ (q = p /\ u = s)
      /\ \A q \in Publishers : Sending(q)' = Sending(q)
  <2>1. \A q \in Publishers : Sending(q)' = Sending(q)
    BY <1>1 DEF Sending
  <2> QED BY <2>1, SendPasses
<1> HIDE DEF m0
<1>3. /\ inbox[s] \in Seq(Message) /\ received[s] \in Seq(Message)
      /\ inbox' = [inbox EXCEPT ![s] = Append(inbox[s], m0)]
      /\ Len(inbox[s]) < Capacity
  <2>1. Len(inbox[s]) \in Nat /\ inbox[s] \in Seq(Message) /\ received[s] \in Seq(Message)
    BY <1>2 DEF IInv, TypeOK
  <2>2. Len(inbox[s]) < Capacity
    BY <2>1, SizeAssumption DEF Full
  <2> QED BY <2>1, <2>2 DEF m0
<1>4. TypeOK'
  <2>1. Append(inbox[s], m0) \in Seq(Message) /\ Len(Append(inbox[s], m0)) <= Capacity
    BY <1>2, <1>3, SizeAssumption
  <2>2. inbox' \in [Subscribers -> Seq(Message)]
    BY <1>2, <1>3, <2>1 DEF IInv, TypeOK
  <2>3. \A u \in Subscribers : Len(inbox'[u]) <= Capacity
    BY <1>3, <2>1 DEF IInv, TypeOK
  <2>4. pos' \in [Publishers -> Nat \ {0}]
    BY <1>1 DEF IInv, TypeOK
  <2> QED BY <1>1, <2>2, <2>3, <2>4 DEF IInv, TypeOK
<1>5. LockInv' /\ EntriesInv'
  BY <1>1, EntriesSame DEF IInv, LockInv
<1>6. \A u \in Subscribers : /\ Delivered(u) \in Seq(Message)
                             /\ u # s => Delivered(u)' = Delivered(u)
  BY <1>1, <1>3 DEF Delivered, IInv, TypeOK
<1>7. Delivered(s)' = Append(Delivered(s), m0)
  <2> DEFINE r == received[s]
             b == inbox[s]
  <2>1. received'[s] = r /\ inbox'[s] = Append(b, m0)
    BY <1>1, <1>2, <1>3 DEF IInv, TypeOK
  <2>2. r \o Append(b, m0) = Append(r \o b, m0)
    <3>1. r \in Seq(Message) /\ b \in Seq(Message) /\ m0 \in Message
      BY <1>2, <1>3
    <3> HIDE DEF r, b
    <3> QED BY <3>1, DeliveredAppend
  <2> QED BY <2>1, <2>2 DEF Delivered
<1>8. /\ DOMAIN Delivered(s)' = 1 .. Len(Delivered(s)) + 1
      /\ DOMAIN Delivered(s) = 1 .. Len(Delivered(s))
      /\ Len(Delivered(s)) \in Nat
      /\ \A i \in DOMAIN Delivered(s) : Delivered(s)'[i] = Delivered(s)[i]
      /\ Delivered(s)'[Len(Delivered(s)) + 1] = m0
  <2> DEFINE d == Delivered(s)
  <2>1. d \in Seq(Message)
    BY <1>2, <1>6
  <2> HIDE DEF d
  <2>2. /\ DOMAIN Append(d, m0) = 1 .. Len(d) + 1
        /\ DOMAIN d = 1 .. Len(d)
        /\ Len(d) \in Nat
        /\ \A i \in DOMAIN d : Append(d, m0)[i] = d[i]
        /\ Append(d, m0)[Len(d) + 1] = m0
    BY <2>1
  <2> QED BY <1>7, <2>2 DEF d
<1>9. \A i \in DOMAIN Delivered(s) :
        /\ Delivered(s)[i] \in Message
        /\ TopicOf[Delivered(s)[i].from] = TopicOf[s]
        /\ Delivered(s)[i].from = p => Delivered(s)[i].seq < m0.seq
  <2> SUFFICES ASSUME NEW i \in DOMAIN Delivered(s)
               PROVE  /\ Delivered(s)[i] \in Message
                      /\ TopicOf[Delivered(s)[i].from] = TopicOf[s]
                      /\ Delivered(s)[i].from = p => Delivered(s)[i].seq < m0.seq
    OBVIOUS
  <2>1. Delivered(s)[i] \in Message
    BY <1>2, <1>6
  <2>2. TopicOf[Delivered(s)[i].from] = TopicOf[s]
    BY <1>2 DEF IInv, InOrderOnce
  <2>3. ASSUME Delivered(s)[i].from = p
        PROVE  Delivered(s)[i].seq <= sent[p]
    BY <1>2, <2>3 DEF IInv, OnlyPublished
  <2>4. sent[p] \in Nat /\ Delivered(s)[i].seq \in Nat
    BY <2>1, SizeAssumption DEF IInv, TypeOK, Message
  <2> QED BY <1>2, <2>1, <2>2, <2>3, <2>4
<1>10. OnlyPublished'
  <2>1. \A q \in Publishers : Fresh(q)'
    BY <1>1 DEF IInv, TypeOK, OnlyPublished, Fresh
  <2> SUFFICES ASSUME NEW u \in Subscribers, NEW i \in DOMAIN Delivered(u)',
                      NEW m, m = Delivered(u)'[i]
               PROVE  \/ m.seq <= sent'[m.from]
                      \/ m = Sending(m.from)' /\ Served(m.from, u)'
    BY <2>1 DEF OnlyPublished, Sending, Served, Targets
  <2>2. CASE u # s \/ i \in DOMAIN Delivered(u)
    <3>1. /\ i \in DOMAIN Delivered(u) /\ Delivered(u)'[i] = Delivered(u)[i]
          /\ Delivered(u)[i] \in Message
      BY <1>6, <1>8, <2>2
    <3> QED BY <1>1, <1>2, <3>1 DEF IInv, OnlyPublished, Message
  <2>3. CASE u = s /\ i \notin DOMAIN Delivered(u)
    <3>1. Delivered(u)'[i] = m0
      BY <1>8, <2>3
    <3>2. m = Sending(p) /\ m.from = p /\ m.from \in Publishers
      BY <1>2, <3>1 DEF m0
    <3>3. Sending(m.from)' = Sending(m.from) /\ Served(m.from, u)'
      BY <1>2, <2>3, <3>2
    <3> QED BY <3>2, <3>3
  <2> QED BY <2>2, <2>3
<1>11. InOrderOnce'
  <2> SUFFICES ASSUME NEW u \in Subscribers
               PROVE  LET d == Delivered(u)' IN
                      /\ \A i \in DOMAIN d : TopicOf[d[i].from] = TopicOf[u]
                      /\ \A i, j \in DOMAIN d :
                           i < j /\ d[i].from = d[j].from => d[i].seq < d[j].seq
    BY DEF InOrderOnce
  <2>1. CASE u # s
    BY <1>6, <2>1 DEF IInv, InOrderOnce
  <2>2. CASE u = s
    <3>1. \A i \in DOMAIN Delivered(s)' :
            i \in DOMAIN Delivered(s) \/ i = Len(Delivered(s)) + 1
      BY <1>8
    <3>2. \A i, j \in DOMAIN Delivered(s)' :
            i < j => i \in DOMAIN Delivered(s)
      BY <1>8
    <3>3. \A i, j \in DOMAIN Delivered(s) :
            i < j /\ Delivered(s)[i].from = Delivered(s)[j].from =>
              Delivered(s)[i].seq < Delivered(s)[j].seq
      BY <1>2 DEF IInv, InOrderOnce
    <3> QED BY <1>2, <1>8, <1>9, <2>2, <3>1, <3>2, <3>3
  <2> QED BY <2>1, <2>2
<1>12. ASSUME NEW d \in owed
       PROVE  /\ d[1] \in Message /\ d[1].from \in Publishers /\ d[2] \in Subscribers
              /\ Contains(Delivered(d[2]), d[1]) => Contains(Delivered(d[2])', d[1])
              /\ Subscribed(d[2])' <=> Subscribed(d[2])
  <2>1. d[1] \in Message /\ d[1].from \in Publishers /\ d[2] \in Subscribers
    BY DEF IInv, TypeOK, Message
  <2>2. ASSUME Contains(Delivered(d[2]), d[1])
        PROVE  Contains(Delivered(d[2])', d[1])
    <3>1. CASE d[2] = s
      <4>1. PICK i \in 1 .. Len(Delivered(s)) : Delivered(s)[i] = d[1]
        BY <2>2, <3>1 DEF Contains
      <4>2. i \in 1 .. Len(Delivered(s)') /\ Delivered(s)'[i] = d[1]
        BY <1>2, <1>6, <1>7, <1>8, <4>1
      <4> QED BY <3>1, <4>2 DEF Contains
    <3> QED BY <1>6, <2>1, <2>2, <3>1
  <2> QED BY <1>1, <2>1, <2>2 DEF Subscribed
<1>13. Contains(Delivered(s)', m0)
  <2>1. Len(Delivered(s)) + 1 \in 1 .. Len(Delivered(s)')
    BY <1>2, <1>6, <1>7, <1>8
  <2> QED BY <1>8, <2>1 DEF Contains
<1>14. OwedSoFar'
  <2> SUFFICES ASSUME NEW d \in owed
               PROVE  LET m == d[1]
                          u == d[2]
                      IN /\ TopicOf[m.from] = TopicOf[u] /\ pc'[u] = "returned"
                         /\ m = Sending(m.from)' /\ Served(m.from, u)' /\ alive'[u] =>
                              Contains(Delivered(u)', m)
    BY <1>1 DEF OwedSoFar
  <2>1. CASE d[1].from = p /\ d[2] = s
    BY <1>1, <1>2, <1>12, <1>13, <2>1 DEF IInv, OwedSoFar, m0
  <2>2. CASE ~(d[1].from = p /\ d[2] = s)
    BY <1>1, <1>2, <1>12, <2>2 DEF IInv, OwedSoFar
  <2> QED BY <2>1, <2>2
<1>15. OwedIsDelivered'
  BY <1>1, <1>12 DEF IInv, OwedIsDelivered
<1> QED BY <1>4, <1>5, <1>10, <1>11, <1>14, <1>15 DEF IInv

(* When publish() returns its loop has passed every inbox subscribed for   *)
(* as long as it ran.                                                      *)
LEMMA PublishReturnsKeeps ==
  ASSUME IInv, NEW p \in Publishers, PublishReturns(p)
  PROVE  IInv'
<1>1. /\ pc[p] = "holding" /\ pos[p] \in Nat \ {0} /\ pos[p] > Len(Targets(p))
      /\ pc' = [pc EXCEPT ![p] = "idle"]
      /\ readers' = readers \ {p}
      /\ sent' = [sent EXCEPT ![p] = @ + 1]
      /\ pos' = [pos EXCEPT ![p] = 1]
      /\ sent[p] \in 0 .. Messages /\ sent[p] < Messages
      /\ UNCHANGED <<waiting, writer, subs, inbox, alive, received, owed>>
  BY DEF PublishReturns, IInv, TypeOK, OnlyPublished, Fresh
<1>2. TypeOK'
  <2>1. sent' \in [Publishers -> 0 .. Messages]
    BY <1>1, SizeAssumption DEF IInv, TypeOK
  <2>2. pc' \in [Processes -> {"idle", "queued", "holding", "returned"}]
    BY <1>1 DEF IInv, TypeOK
  <2>3. pos' \in [Publishers -> Nat \ {0}]
    BY <1>1 DEF IInv, TypeOK
  <2> QED BY <1>1, <2>1, <2>2, <2>3 DEF IInv, TypeOK
<1>3. LockInv'
  BY <1>1, ReleaseLock, Kinds DEF IInv
<1>4. \A s \in Subscribers : pc'[s] = pc[s]
  BY <1>1, Kinds DEF IInv, TypeOK
<1>5. EntriesInv'
  BY <1>1, <1>4, EntriesSame DEF IInv
<1>6. \A s \in Subscribers : /\ Delivered(s)' = Delivered(s)
                             /\ Subscribed(s)' <=> Subscribed(s)
                             /\ Delivered(s) \in Seq(Message)
  BY <1>1, <1>4 DEF Delivered, Subscribed, IInv, TypeOK
<1>7. ASSUME NEW q \in Publishers, q # p
      PROVE  /\ sent'[q] = sent[q] /\ Sending(q)' = Sending(q)
             /\ \A s \in Subscribers : Served(q, s)' <=> Served(q, s)
  <2>1. sent'[q] = sent[q] /\ pc'[q] = pc[q] /\ pos'[q] = pos[q] /\ Targets(q)' = Targets(q)
    BY <1>1, <1>7, Kinds DEF IInv, TypeOK, Targets
  <2> QED BY <2>1 DEF Sending, Served
<1>8. sent'[p] = sent[p] + 1 /\ \A s \in Subscribers : ~Served(p, s)'
  BY <1>1, Kinds DEF Served, IInv, TypeOK
<1>9. OnlyPublished'
  <2>1. \A q \in Publishers : Fresh(q)'
    BY <1>1, Kinds DEF IInv, TypeOK, OnlyPublished, Fresh
  <2> SUFFICES ASSUME NEW u \in Subscribers, NEW i \in DOMAIN Delivered(u),
                      NEW m, m = Delivered(u)[i]
               PROVE  \/ m.seq <= sent'[m.from]
                      \/ m = Sending(m.from)' /\ Served(m.from, u)'
    BY <1>6, <2>1 DEF OnlyPublished, Sending, Served, Targets
  <2>2. /\ m \in Message /\ m.from \in Publishers /\ m.seq \in Nat
        /\ m.seq <= sent[m.from] \/ (m = Sending(m.from) /\ Served(m.from, u))
    <3>1. Delivered(u) \in Seq(Message)
      BY <1>6
    <3>2. m \in Message
      BY <3>1
    <3>3. m.from \in Publishers /\ m.seq \in Nat
      BY <3>2, SizeAssumption DEF Message
    <3>4. \/ Delivered(u)[i].seq <= sent[Delivered(u)[i].from]
          \/ /\ Delivered(u)[i] = Sending(Delivered(u)[i].from)
             /\ Served(Delivered(u)[i].from, u)
      BY DEF IInv, OnlyPublished
    <3> QED BY <3>2, <3>3, <3>4
  <2>3. CASE m.from # p
    BY <1>7, <2>2, <2>3
  <2>4. CASE m.from = p
    <3>1. Sending(p).seq = sent[p] + 1
      BY DEF Sending
    <3> QED BY <1>1, <1>8, <2>2, <2>4, <3>1
  <2> QED BY <2>3, <2>4
<1>10. InOrderOnce'
  BY <1>6 DEF IInv, InOrderOnce
<1>11. ASSUME NEW d \in owed
       PROVE  LET m == d[1]
                  s == d[2]
              IN /\ TopicOf[m.from] = TopicOf[s] /\ pc'[s] = "returned"
                 /\ m = Sending(m.from)' /\ Served(m.from, s)' /\ alive'[s] =>
                      Contains(Delivered(s)', m)
                 /\ m.seq <= sent'[m.from] /\ alive'[s] /\ Subscribed(s)' =>
                      Contains(Delivered(s)', m)
  <2> DEFINE m == d[1]
             s == d[2]
  <2>1. /\ m \in Message /\ m.from \in Publishers /\ m.seq \in Nat /\ s \in Subscribers
        /\ TopicOf[m.from] = TopicOf[s] /\ pc[s] = "returned"
    BY SizeAssumption DEF IInv, TypeOK, Message, OwedSoFar
  <2>2. CASE m.from # p
    BY <1>1, <1>4, <1>6, <1>7, <2>1, <2>2 DEF IInv, OwedSoFar, OwedIsDelivered
  <2>3. CASE m.from = p
    <3>1. ASSUME m.seq <= sent[p] + 1, alive[s], Subscribed(s)
          PROVE  Contains(Delivered(s), m)
      <4>1. CASE m.seq <= sent[p]
        BY <2>1, <2>3, <3>1, <4>1 DEF IInv, OwedIsDelivered
      <4>2. CASE m.seq = sent[p] + 1
        <5>1. m = Sending(p)
          BY <2>1, <2>3, <4>2 DEF Message, Sending
        <5>2. Contains(Targets(p), s) /\ Targets(p) \in Seq(Subscribers)
          BY <2>1, <2>3, <3>1, Kinds DEF Subscribed, Targets, IInv, TypeOK
        <5>3. Served(p, s)
          BY <1>1, <5>2 DEF Contains, Served
        <5> QED BY <2>1, <2>3, <3>1, <5>1, <5>3 DEF IInv, OwedSoFar
      <4> QED BY <1>1, <2>1, <3>1, <4>1, <4>2
    <3> QED BY <1>1, <1>4, <1>6, <1>8, <2>1, <2>3, <3>1
  <2> QED BY <2>2, <2>3
<1>12. OwedSoFar' /\ OwedIsDelivered'
  BY <1>1, <1>11 DEF OwedSoFar, OwedIsDelivered
<1> QED BY <1>2, <1>3, <1>5, <1>9, <1>10, <1>12 DEF IInv

-----------------------------------------------------------------------------
(* IInv is inductive.                                                      *)
LEMMA NextIInv == IInv /\ [Next]_vars => IInv'
<1> SUFFICES ASSUME IInv, [Next]_vars PROVE IInv'
  OBVIOUS
<1>1. ASSUME NEW p \in Publishers, Send(p)
      PROVE  IInv'
  <2>1. CASE UNCHANGED inbox /\ ~alive[Targets(p)[pos[p]]]
    BY <1>1, <2>1, SendSkipsKeeps
  <2>2. CASE ~(UNCHANGED inbox /\ ~alive[Targets(p)[pos[p]]])
    BY <1>1, <2>2, SendDeliversKeeps DEF Send
  <2> QED BY <2>1, <2>2
<1>2. ASSUME NEW s \in Subscribers, Subscribe(s)
      PROVE  IInv'
  BY <1>2, WriterWaitsKeeps, Kinds DEF Subscribe
<1>3. ASSUME NEW c \in Closers, Close(c)
      PROVE  IInv'
  BY <1>3, WriterWaitsKeeps, Kinds DEF Close
<1>4. CASE UNCHANGED vars
  <2>1. TypeOK' /\ LockInv' /\ EntriesInv'
    BY <1>4, EntriesSame DEF vars, IInv, TypeOK, LockInv
  <2>2. /\ \A s \in Subscribers : Delivered(s)' = Delivered(s)
        /\ \A p \in Publishers, s \in Subscribers : Served(p, s)' <=> Served(p, s)
        /\ \A p \in Publishers : Fresh(p)'
    BY <1>4 DEF vars, Delivered, Served, Targets, IInv, OnlyPublished, Fresh
  <2>3. OnlyPublished' /\ InOrderOnce' /\ OwedSoFar' /\ OwedIsDelivered'
    BY <1>4, <2>2, DeliveredSame, OwedSame DEF vars
  <2> QED BY <2>1, <2>3 DEF IInv
<1> QED
  BY <1>1, <1>2, <1>3, <1>4, GrantKeeps, PublishKeeps, PublishReturnsKeeps,
     SubscribeReturnsKeeps, CloseReturnsKeeps, ReceiveKeeps, DropHandleKeeps
     DEF Next, HubStep

(* The inductive invariant holds in every behaviour of the hub.            *)
THEOREM HubInvariance == Safety => []IInv
BY InitIInv, NextIInv, PTL DEF Safety

(* Types; no inbox ever holds more than its capacity.                      *)
THEOREM TypeCorrect == Safety => []TypeOK
<1>1. IInv => TypeOK
  BY DEF IInv
<1> QED BY <1>1, HubInvariance, PTL

(* What is published after subscribe() has returned reaches the inbox by   *)
(* the time publish() returns, however calls overlap and whoever else      *)
(* subscribes or drops a handle.                                           *)
THEOREM OwedIsDeliveredTheorem == Safety => []OwedIsDelivered
<1>1. IInv => OwedIsDelivered
  BY DEF IInv
<1> QED BY <1>1, HubInvariance, PTL

(* Nothing is delivered twice or to another address, and the messages of   *)
(* one publisher arrive in their order.                                    *)
THEOREM InOrderOnceTheorem == Safety => []InOrderOnce
<1>1. IInv => InOrderOnce
  BY DEF IInv
<1> QED BY <1>1, HubInvariance, PTL

(* The list that a publish() runs through cannot change under it.          *)
THEOREM StableTheorem == Safety => StableWhilePublishing
<1>1. IInv /\ [Next]_vars =>
        [(\E p \in Publishers : pc[p] = "holding" /\ pc'[p] = "holding")
           => subs' = subs]_vars
  <2> SUFFICES ASSUME IInv, [Next]_vars, NEW p \in Publishers, pc[p] = "holding"
               PROVE  subs' = subs
    OBVIOUS
  <2>1. writer = None
    BY WriterIsAlone DEF IInv
  <2>2. \A s \in Subscribers : ~SubscribeReturns(s)
    BY <2>1, Kinds DEF SubscribeReturns
  <2>3. \A c \in Closers : ~CloseReturns(c)
    BY <2>1, Kinds DEF CloseReturns
  <2> QED
    BY <2>2, <2>3 DEF Next, HubStep, Grant, Send, PublishReturns, Publish,
                      Subscribe, Close, Receive, DropHandle, vars
<1> QED BY <1>1, HubInvariance, PTL DEF Safety, StableWhilePublishing

-----------------------------------------------------------------------------
(* The contract of the transport trait.                                    *)

(* Only who has subscribed has a handle to drop.                           *)
DroppedInv == \A s \in Subscribers : ~alive[s] => pc[s] = "returned"

(* A handle is dropped only after subscribe() has returned it.             *)
LEMMA DroppedStep == IInv /\ DroppedInv /\ [Next]_vars => DroppedInv'
<1> SUFFICES ASSUME IInv, DroppedInv, [Next]_vars,
                    NEW s \in Subscribers, ~alive'[s]
             PROVE  pc'[s] = "returned"
  BY DEF DroppedInv
<1>1. CASE alive[s]
  BY <1>1 DEF Next, HubStep, Grant, Send, PublishReturns, Publish, Subscribe,
              SubscribeReturns, Close, CloseReturns, Receive, DropHandle, vars,
              IInv, TypeOK
<1>2. CASE ~alive[s]
  <2>1. pc[s] = "returned"
    BY <1>2 DEF DroppedInv
  <2>2. \A x \in Processes : x # s => [pc EXCEPT ![x] = "returned"][s] = pc[s]
    BY DEF IInv, TypeOK
  <2>3. CASE Grant
    BY <2>1, <2>3, GrantLock, Kinds DEF IInv
  <2>4. ASSUME NEW x \in Processes, Enqueue(x)
        PROVE  pc'[s] = "returned"
    BY <2>1, <2>4, Kinds DEF Enqueue, IInv, TypeOK
  <2>5. ASSUME NEW p \in Publishers, PublishReturns(p)
        PROVE  pc'[s] = "returned"
    BY <2>1, <2>5, Kinds DEF PublishReturns, IInv, TypeOK
  <2>6. ASSUME NEW x \in Processes, pc' = [pc EXCEPT ![x] = "returned"]
        PROVE  pc'[s] = "returned"
    BY <2>1, <2>6, Kinds DEF IInv, TypeOK
  <2>7. CASE UNCHANGED pc
    BY <2>1, <2>7
  <2> QED
    BY <2>3, <2>4, <2>5, <2>6, <2>7, Kinds
       DEF Next, HubStep, Send, Publish, Subscribe, SubscribeReturns, Close,
           CloseReturns, Receive, DropHandle, vars
<1> QED BY <1>1, <1>2

(* The publish() calls under way, as long as none begins or returns.       *)
LEMMA PublishingSame ==
  ASSUME UNCHANGED sent,
         \A p \in Publishers : pc'[p] \in {"queued", "holding"}
                                 <=> pc[p] \in {"queued", "holding"}
  PROVE  UNCHANGED <<Publishing, Published>>
<1>1. \A p : Sending(p)' = Sending(p)
  BY DEF Sending
<1> QED BY <1>1 DEF Publishing, Published

(* A message under way is its publisher's next.                            *)
LEMMA PublishingIs ==
  ASSUME IInv, NEW p \in Publishers
  PROVE  /\ Sending(p) \in Publishing <=> pc[p] \in {"queued", "holding"}
         /\ Sending(p) \notin Published
<1>1. \A q : Sending(q).from = q /\ Sending(q).seq = sent[q] + 1
  BY DEF Sending
<1>2. Sending(p) \notin Published
  BY <1>1 DEF Published, IInv, TypeOK
<1> QED BY <1>1, <1>2 DEF Publishing

(* Steps that the contract does not see, or sees of the subscriptions.     *)
LEMMA OpenSame ==
  ASSUME UNCHANGED subs,
         \A s \in Subscribers : pc'[s] = "returned" <=> pc[s] = "returned"
  PROVE  UNCHANGED Open
BY DEF Open, Subscribed

LEMMA HeardSame ==
  ASSUME \A s \in Subscribers : Delivered(s)' = Delivered(s)
  PROVE  UNCHANGED Heard
BY DEF Heard

(* At first nothing is published and nobody has subscribed.                *)
LEMMA InitContract == Init => Contract!Init
<1> SUFFICES ASSUME Init PROVE Contract!Init
  OBVIOUS
<1>1. Publishing = {}
  BY Kinds DEF Init, Publishing
<1>2. Published = {}
  BY SizeAssumption DEF Init, Published, Message
<1>3. Open = {} /\ Dropped = {}
  BY Kinds DEF Init, Open, Dropped, Subscribed
<1>4. Heard = [s \in Subscribers |-> <<>>]
  BY DEF Init, Heard, Delivered
<1> QED BY <1>1, <1>2, <1>3, <1>4 DEF Contract!Init, Init

(* publish() begins, and is owed to the subscriptions in force.            *)
LEMMA PublishBegins ==
  ASSUME IInv, NEW p \in Publishers, Publish(p)
  PROVE  Contract!Begin(Sending(p)) /\ Sending(p) \in Message
<1>1. /\ p \in Processes /\ pc[p] = "idle" /\ sent[p] < Messages
      /\ pc' = [pc EXCEPT ![p] = "queued"]
      /\ UNCHANGED <<subs, inbox, alive, sent, received>>
  BY Kinds DEF Publish, Enqueue
<1>2. Sending(p) \in Message /\ Sending(p).from = p
  BY <1>1, SizeAssumption DEF Sending, Message, IInv, TypeOK
<1>3. Sending(p) \notin Publishing \cup Published
  BY <1>1, PublishingIs
<1>4. \A q \in Publishers : /\ Sending(q)' = Sending(q)
                            /\ pc'[q] = IF q = p THEN "queued" ELSE pc[q]
  BY <1>1, Kinds DEF Sending, IInv, TypeOK
<1>5. Publishing' = Publishing \cup {Sending(p)} /\ UNCHANGED Published
  BY <1>1, <1>4 DEF Publishing, Published
<1>6. \A s \in Subscribers : pc'[s] = pc[s]
  BY <1>1, Kinds DEF IInv, TypeOK
<1>7. UNCHANGED <<Open, Dropped, Heard>>
  BY <1>1, <1>6, OpenSame DEF Dropped, Heard, Delivered
<1>8. owed' = owed \cup
        {<<Sending(p), s>> :
           s \in {u \in Open : Subscription[u] = Destination[Sending(p)]}}
  BY <1>2 DEF Publish, Open, Subscription, Destination
<1> QED BY <1>2, <1>3, <1>5, <1>7, <1>8 DEF Contract!Begin

(* A turn of the loop delivers the message, or finds the handle dropped.   *)
LEMMA SendDelivers ==
  ASSUME IInv, NEW p \in Publishers, Send(p)
  PROVE  \/ \E s \in Subscribers : Contract!Deliver(Sending(p), s)
         \/ UNCHANGED Contract!vars
<1> DEFINE s == Targets(p)[pos[p]]
<1>1. /\ s \in Subscribers /\ TopicOf[s] = TopicOf[p]
      /\ Sending(p) \in Message /\ Sending(p).from = p
      /\ Sending(p).seq = sent[p] + 1 /\ sent[p] \in Nat
      /\ ~Served(p, s)
  BY SendPasses DEF IInv, TypeOK
<1>2. /\ pc[p] = "holding" /\ pos[p] \in 1 .. Len(Targets(p))
      /\ UNCHANGED <<pc, subs, alive, sent, received, owed>>
  BY DEF Send, IInv, TypeOK
<1>3. UNCHANGED <<Publishing, Published, Open, Dropped>>
  BY <1>2, PublishingSame, OpenSame DEF Dropped
<1>4. CASE UNCHANGED inbox
  BY <1>2, <1>3, <1>4 DEF Contract!vars, Heard, Delivered
<1>5. CASE alive[s] /\ inbox' = [inbox EXCEPT ![s] = Append(@, Sending(p))]
  <2>1. Subscribed(s)
    <3>1. subs[TopicOf[p]] \in Seq(Subscribers) /\ TopicOf[p] \in Topics
      BY Kinds DEF IInv, TypeOK
    <3>2. pos[p] \in DOMAIN subs[TopicOf[p]] /\ s = subs[TopicOf[p]][pos[p]]
      BY <1>2, <3>1 DEF Targets
    <3> HIDE DEF s
    <3>3. pc[s] = "returned"
      BY <3>1, <3>2 DEF IInv, EntriesInv
    <3>4. Contains(subs[TopicOf[s]], s)
      BY <1>1, <3>1, <3>2 DEF Contains
    <3> QED BY <3>3, <3>4 DEF Subscribed
  <2> HIDE DEF s
  <2>2. s \in Open /\ s \notin Dropped
    BY <1>1, <1>5, <2>1 DEF Open, Dropped
  <2>3. Subscription[s] = Destination[Sending(p)]
    BY <1>1 DEF Subscription, Destination
  <2>4. Sending(p) \in Publishing
    BY <1>2, PublishingIs
  <2>5. /\ received[s] \in Seq(Message) /\ inbox[s] \in Seq(Message)
        /\ Delivered(s) \in Seq(Message) /\ Heard[s] = Delivered(s)
    BY <1>1 DEF IInv, TypeOK, Delivered, Heard
  <2>6. ~Contains(Heard[s], Sending(p))
    <3>1. ASSUME NEW i \in DOMAIN Delivered(s), Delivered(s)[i] = Sending(p)
          PROVE  FALSE
      <4>1. \/ Sending(p).seq <= sent[p]
            \/ Served(p, s)
        BY <1>1, <3>1 DEF IInv, OnlyPublished
      <4> QED BY <1>1, <4>1
    <3> QED BY <2>5, <3>1 DEF Contains
  <2>7. \A u \in Subscribers :
          Delivered(u)' = IF u = s THEN Append(Delivered(s), Sending(p))
                                   ELSE Delivered(u)
    <3>1. inbox'[s] = Append(inbox[s], Sending(p)) /\ received' = received
      BY <1>1, <1>2, <1>5 DEF IInv, TypeOK
    <3>2. received[s] \o Append(inbox[s], Sending(p))
            = Append(received[s] \o inbox[s], Sending(p))
      <4> DEFINE r == received[s]
                 b == inbox[s]
                 m == Sending(p)
      <4>1. r \in Seq(Message) /\ b \in Seq(Message) /\ m \in Message
        BY <1>1, <2>5
      <4> HIDE DEF r, b, m
      <4>2. r \o Append(b, m) = Append(r \o b, m)
        BY <4>1, DeliveredAppend
      <4> QED BY <4>2 DEF r, b, m
    <3>3. \A u \in Subscribers : u # s => inbox'[u] = inbox[u]
      BY <1>5 DEF IInv, TypeOK
    <3> QED BY <3>1, <3>2, <3>3 DEF Delivered
  <2>8. Heard' = [Heard EXCEPT ![s] = Append(Heard[s], Sending(p))]
    BY <1>1, <2>5, <2>7 DEF Heard
  <2>9. ~Contract!Contains(Heard[s], Sending(p))
    BY <2>6 DEF Contains, Contract!Contains
  <2> QED
    BY <1>1, <1>2, <1>3, <2>2, <2>3, <2>4, <2>8, <2>9
       DEF Contract!Deliver, Contract!Listening
<1> QED BY <1>4, <1>5 DEF Send

(* publish() returns once everyone it was promised to has the message.     *)
LEMMA PublishEnds ==
  ASSUME IInv, NEW p \in Publishers, PublishReturns(p)
  PROVE  Contract!Return(Sending(p)) /\ Sending(p) \in Message
<1>1. /\ pc[p] = "holding" /\ p \in Processes
      /\ pc' = [pc EXCEPT ![p] = "idle"]
      /\ sent' = [sent EXCEPT ![p] = sent[p] + 1]
      /\ sent[p] \in 0 .. Messages /\ sent[p] < Messages
      /\ UNCHANGED <<subs, inbox, alive, received, owed>>
  BY Kinds DEF PublishReturns, IInv, TypeOK, OnlyPublished, Fresh
<1>2. /\ Sending(p) \in Message /\ Sending(p).from = p
      /\ Sending(p).seq = sent[p] + 1
  BY <1>1, SizeAssumption DEF Sending, Message
<1>3. Sending(p) \in Publishing
  BY <1>1, PublishingIs
<1>4. ASSUME NEW s \in Subscribers, <<Sending(p), s>> \in owed,
             s \in Open, s \notin Dropped
      PROVE  Contract!Contains(Heard[s], Sending(p))
  <2>1. OwedIsDelivered'
    BY PublishReturnsKeeps DEF IInv
  <2>2. Sending(p).seq <= sent'[p] /\ alive'[s]
    BY <1>1, <1>2, <1>4 DEF Dropped, IInv, TypeOK
  <2>3. pc'[s] = pc[s]
    BY <1>1, Kinds DEF IInv, TypeOK
  <2>4. Subscribed(s)'
    BY <1>1, <1>4, <2>3 DEF Open, Subscribed
  <2>5. Contains(Delivered(s)', Sending(p))
    <3>1. <<Sending(p), s>> \in owed'
      BY <1>1, <1>4
    <3> HIDE DEF Sending
    <3> QED BY <1>2, <2>1, <2>2, <2>4, <3>1 DEF OwedIsDelivered
  <2> QED BY <1>1, <2>5 DEF Heard, Delivered, Contains, Contract!Contains
<1>5. \A q \in Publishers :
        /\ q # p => Sending(q)' = Sending(q) /\ pc'[q] = pc[q]
        /\ Sending(q).from = q
        /\ pc'[p] = "idle"
  BY <1>1, Kinds DEF Sending, IInv, TypeOK
<1>6. Publishing' = Publishing \ {Sending(p)}
  BY <1>1, <1>2, <1>5 DEF Publishing
<1>7. Published' = Published \cup {Sending(p)}
  <2>1. ASSUME NEW m \in Message
        PROVE  m.seq <= sent'[m.from] <=> m.seq <= sent[m.from] \/ m = Sending(p)
    <3>1. /\ m.from \in Publishers /\ m.seq \in Nat
          /\ m = [from |-> m.from, seq |-> m.seq]
      BY DEF Message
    <3>2. sent[m.from] \in Nat
      BY <3>1 DEF IInv, TypeOK
    <3>3. CASE m.from # p
      <4>1. sent'[m.from] = sent[m.from]
        BY <1>1, <3>1, <3>3 DEF IInv, TypeOK
      <4> QED BY <1>2, <3>3, <4>1
    <3>4. CASE m.from = p
      <4>1. sent'[p] = sent[p] + 1
        BY <1>1 DEF IInv, TypeOK
      <4>2. m = Sending(p) <=> m.seq = sent[p] + 1
        BY <1>2, <3>1, <3>4 DEF Sending
      <4> QED BY <3>1, <3>2, <3>4, <4>1, <4>2
    <3> QED BY <3>3, <3>4
  <2> QED BY <1>2, <2>1 DEF Published
<1>8. UNCHANGED <<Open, Dropped, Heard>>
  <2>1. \A s \in Subscribers : pc'[s] = pc[s]
    BY <1>1, Kinds DEF IInv, TypeOK
  <2> QED BY <1>1, <2>1, OpenSame DEF Dropped, Heard, Delivered
<1> QED
  BY <1>1, <1>2, <1>3, <1>4, <1>6, <1>7, <1>8
     DEF Contract!Return, Contract!Listening

(* subscribe() returns: its subscription is in force.                      *)
LEMMA SubscribeOpens ==
  ASSUME IInv, DroppedInv, NEW s \in Subscribers, SubscribeReturns(s)
  PROVE  Contract!Subscribe(s)
<1>1. /\ writer = s /\ pc[s] = "holding" /\ s \in Processes
      /\ TopicOf[s] \in Topics
      /\ pc' = [pc EXCEPT ![s] = "returned"]
      /\ subs' = [subs EXCEPT ![TopicOf[s]] = Append(@, s)]
      /\ UNCHANGED <<inbox, alive, sent, received, owed>>
  BY Kinds DEF SubscribeReturns, IInv, LockInv
<1>2. s \notin Open \cup Dropped
  BY <1>1 DEF Open, Subscribed, Dropped, DroppedInv
<1>3. UNCHANGED <<Publishing, Published>>
  <2>1. \A p \in Publishers : pc'[p] = pc[p]
    BY <1>1, Kinds DEF IInv, TypeOK
  <2> QED BY <1>1, <2>1, PublishingSame
<1>4. ASSUME NEW u \in Subscribers
      PROVE  Subscribed(u)' <=> Subscribed(u) \/ u = s
  <2>1. /\ subs[TopicOf[s]] \in Seq(Subscribers)
        /\ subs'[TopicOf[s]] = Append(subs[TopicOf[s]], s)
        /\ \A t \in Topics : t # TopicOf[s] => subs'[t] = subs[t]
    BY <1>1 DEF IInv, TypeOK
  <2>2. Contains(subs'[TopicOf[s]], u) <=> Contains(subs[TopicOf[s]], u) \/ u = s
    <3> DEFINE q == subs[TopicOf[s]]
    <3>1. q \in Seq(Subscribers)
      BY <2>1
    <3> HIDE DEF q
    <3>2. /\ DOMAIN Append(q, s) = 1 .. Len(q) + 1 /\ DOMAIN q = 1 .. Len(q)
          /\ Len(q) \in Nat
          /\ \A i \in 1 .. Len(q) : Append(q, s)[i] = q[i]
          /\ Append(q, s)[Len(q) + 1] = s
          /\ Len(Append(q, s)) = Len(q) + 1
      BY <3>1
    <3>3. Contains(Append(q, s), u) <=> Contains(q, u) \/ u = s
      BY <3>2 DEF Contains
    <3> QED BY <2>1, <3>3 DEF q
  <2>3. pc'[u] = IF u = s THEN "returned" ELSE pc[u]
    BY <1>1, Kinds DEF IInv, TypeOK
  <2>4. CASE u = s
    BY <2>2, <2>3, <2>4 DEF Subscribed
  <2>5. CASE u # s
    BY <2>1, <2>2, <2>3, <2>5, Kinds DEF Subscribed
  <2> QED BY <2>4, <2>5
<1>5. Open' = Open \cup {s}
  BY <1>4 DEF Open
<1> QED BY <1>1, <1>2, <1>3, <1>5 DEF Contract!Subscribe, Dropped, Heard, Delivered

(* close() ends the subscriptions.                                         *)
LEMMA CloseCloses ==
  ASSUME IInv, NEW c \in Closers, CloseReturns(c)
  PROVE  Contract!Close
<1>1. /\ c \in Processes /\ pc' = [pc EXCEPT ![c] = "returned"]
      /\ subs' = [t \in Topics |-> <<>>]
      /\ UNCHANGED <<inbox, alive, sent, received, owed>>
  BY Kinds DEF CloseReturns
<1>2. Open' = {}
  BY <1>1, Kinds DEF Open, Subscribed, Contains
<1>3. \A p \in Publishers : pc'[p] = pc[p]
  BY <1>1, ProcessesAssumption, Kinds DEF IInv, TypeOK
<1>4. UNCHANGED <<Publishing, Published>>
  BY <1>1, <1>3, PublishingSame
<1> QED BY <1>1, <1>2, <1>4 DEF Contract!Close, Dropped, Heard, Delivered

(* A handle is dropped, with what is left in its inbox.                    *)
LEMMA HandleDrops ==
  ASSUME IInv, NEW s \in Subscribers, DropHandle(s)
  PROVE  Contract!Drop(s)
<1>1. /\ alive[s] /\ alive' = [alive EXCEPT ![s] = FALSE]
      /\ inbox' = [inbox EXCEPT ![s] = <<>>]
      /\ UNCHANGED <<pc, subs, sent, received, owed>>
  BY DEF DropHandle
<1>2. UNCHANGED <<Publishing, Published, Open>>
  BY <1>1, PublishingSame, OpenSame
<1>3. s \notin Dropped /\ Dropped' = Dropped \cup {s}
  BY <1>1 DEF Dropped, IInv, TypeOK
<1>4. /\ received[s] \in Seq(Message) /\ inbox[s] \in Seq(Message)
      /\ inbox'[s] = <<>> /\ \A u \in Subscribers : u # s => inbox'[u] = inbox[u]
  BY <1>1 DEF IInv, TypeOK
<1> DEFINE n == Len(received[s])
<1>5. /\ n \in 0 .. Len(received[s] \o inbox[s])
      /\ received[s] \o <<>> = SubSeq(received[s] \o inbox[s], 1, n)
  <2> DEFINE r == received[s]
             b == inbox[s]
  <2>1. r \in Seq(Message) /\ b \in Seq(Message)
    BY <1>4
  <2> HIDE DEF r, b
  <2>2. Len(r) \in 0 .. Len(r \o b) /\ r \o <<>> = SubSeq(r \o b, 1, Len(r))
    BY <2>1, DeliveredFirst
  <2> QED BY <2>2 DEF r, b
<1>6. /\ n \in 0 .. Len(Heard[s])
      /\ Heard' = [Heard EXCEPT ![s] = SubSeq(Heard[s], 1, n)]
  <2> HIDE DEF n
  <2>1. Delivered(s)' = SubSeq(Heard[s], 1, n) /\ n \in 0 .. Len(Heard[s])
    BY <1>1, <1>4, <1>5 DEF Heard, Delivered
  <2>2. \A u \in Subscribers : u # s => Delivered(u)' = Delivered(u)
    BY <1>1, <1>4 DEF Delivered
  <2> QED BY <2>1, <2>2 DEF Heard
<1> HIDE DEF n
<1> QED BY <1>1, <1>2, <1>3, <1>6 DEF Contract!Drop

(* What happens at the lock, and between an inbox and its owner, the       *)
(* contract does not see.                                                  *)
LEMMA StuttersContract ==
  ASSUME IInv,
         \/ Grant \/ UNCHANGED vars
         \/ \E s \in Subscribers : Subscribe(s) \/ Receive(s)
         \/ \E c \in Closers : Close(c)
  PROVE  UNCHANGED Contract!vars
<1>1. CASE Grant
  <2>1. \A x \in Processes : /\ pc'[x] = "returned" <=> pc[x] = "returned"
                             /\ \/ pc'[x] = pc[x]
                                \/ pc[x] = "queued" /\ pc'[x] = "holding"
    <3>1. \A y \in Processes : /\ pc'[y] = "returned" <=> pc[y] = "returned"
                               /\ pc'[y] # pc[y] => pc[y] = "queued"
      BY <1>1, GrantLock DEF IInv
    <3>2. \A y \in Processes : pc'[y] = pc[y] \/ pc'[y] = "holding"
      <4>1. Head(waiting) \in Processes
        BY <1>1, TailList DEF Grant, IInv, TypeOK, LockInv
      <4>2. PICK x \in Processes : pc' = [pc EXCEPT ![x] = "holding"]
        BY <1>1, <4>1 DEF Grant
      <4>3. pc \in [Processes -> {"idle", "queued", "holding", "returned"}]
        BY DEF IInv, TypeOK
      <4> QED BY <4>2, <4>3
    <3> QED BY <3>1, <3>2
  <2>2. UNCHANGED <<subs, inbox, alive, sent, received, owed>>
    BY <1>1 DEF Grant
  <2>3. \A p \in Publishers : pc'[p] \in {"queued", "holding"}
                                <=> pc[p] \in {"queued", "holding"}
    BY <2>1, Kinds
  <2>4. \A s \in Subscribers : pc'[s] = "returned" <=> pc[s] = "returned"
    BY <2>1, Kinds
  <2> QED
    BY <2>2, <2>3, <2>4, PublishingSame, OpenSame
       DEF Contract!vars, Dropped, Heard, Delivered
<1>2. ASSUME NEW x \in Subscribers \cup Closers, Enqueue(x),
             UNCHANGED <<subs, inbox, alive, sent, received, owed>>
      PROVE  UNCHANGED Contract!vars
  <2>1. /\ \A p \in Publishers : pc'[p] = pc[p]
        /\ \A s \in Subscribers : pc'[s] = "returned" <=> pc[s] = "returned"
    BY <1>2, Kinds DEF Enqueue, IInv, TypeOK
  <2> QED
    BY <1>2, <2>1, PublishingSame, OpenSame
       DEF Contract!vars, Dropped, Heard, Delivered
<1>3. ASSUME NEW s \in Subscribers, Receive(s)
      PROVE  UNCHANGED Contract!vars
  <2>1. /\ inbox[s] \in Seq(Message) /\ received[s] \in Seq(Message)
        /\ inbox[s] # <<>>
        /\ received' = [received EXCEPT ![s] = Append(received[s], Head(inbox[s]))]
        /\ inbox' = [inbox EXCEPT ![s] = Tail(inbox[s])]
        /\ UNCHANGED <<pc, subs, alive, sent, owed>>
    BY <1>3 DEF Receive, IInv, TypeOK
  <2>2. Append(received[s], Head(inbox[s])) \o Tail(inbox[s])
          = received[s] \o inbox[s]
    BY <2>1, DeliveredMove
  <2>3. \A u \in Subscribers : Delivered(u)' = Delivered(u)
    BY <2>1, <2>2 DEF Delivered, IInv, TypeOK
  <2> QED
    BY <2>1, <2>3, PublishingSame, OpenSame, HeardSame DEF Contract!vars, Dropped
<1>4. CASE UNCHANGED vars
  BY <1>4, PublishingSame, OpenSame, HeardSame
     DEF vars, Contract!vars, Dropped, Delivered
<1> QED
  BY <1>1, <1>2, <1>3, <1>4 DEF Subscribe, Close

(* Each step of the hub is a step of the contract, or one that the         *)
(* contract does not see: lock, loops and inboxes implement the promises   *)
(* that domain/transport.rs makes to the layers above.                     *)
THEOREM ContractRefinement == Safety => ImplementsContract
<1>1. Init => DroppedInv
  BY DEF Init, DroppedInv
<1>2. IInv /\ DroppedInv /\ [Next]_vars => [Contract!Next]_(Contract!vars)
  <2> SUFFICES ASSUME IInv, DroppedInv, [Next]_vars
               PROVE  Contract!Next \/ UNCHANGED Contract!vars
    OBVIOUS
  <2>1. ASSUME NEW p \in Publishers, Publish(p)
        PROVE  Contract!Next
    BY <2>1, PublishBegins DEF Contract!Next
  <2>2. ASSUME NEW p \in Publishers, Send(p)
        PROVE  Contract!Next \/ UNCHANGED Contract!vars
    <3>1. Sending(p) \in Message
      BY <2>2, SendPasses
    <3> QED BY <2>2, <3>1, SendDelivers DEF Contract!Next
  <2>3. ASSUME NEW p \in Publishers, PublishReturns(p)
        PROVE  Contract!Next
    BY <2>3, PublishEnds DEF Contract!Next
  <2>4. ASSUME NEW s \in Subscribers, SubscribeReturns(s) \/ DropHandle(s)
        PROVE  Contract!Next
    BY <2>4, SubscribeOpens, HandleDrops DEF Contract!Next
  <2>5. ASSUME NEW c \in Closers, CloseReturns(c)
        PROVE  Contract!Next
    BY <2>5, CloseCloses DEF Contract!Next
  <2> QED
    BY <2>1, <2>2, <2>3, <2>4, <2>5, StuttersContract DEF Next, HubStep
<1> QED
  BY <1>1, <1>2, InitContract, DroppedStep, HubInvariance, PTL
     DEF Safety, ImplementsContract, Contract!Spec

=============================================================================

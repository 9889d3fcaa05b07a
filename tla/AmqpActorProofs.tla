--------------------------- MODULE AmqpActorProofs ---------------------------
(***************************************************************************)
(* Theorems about AmqpActor, for any number of calls, queues and messages, *)
(* and for any capacity of the inboxes.                                    *)
(***************************************************************************)
EXTENDS AmqpActor, SequenceTheorems, TLAPS

(* A command in the channel is that of a call that waits for its answer,   *)
(* and who awaits the actor's task has been answered.                      *)
CallsInv ==
  /\ IsInjective(commands)
  /\ \A x \in Calls : Contains(commands, x) => pc[x] = "sent"
  /\ joiner # None => pc[joiner] = "joining"

(* Who waits for the lock of the map, and which consumers have it.         *)
LockInv ==
  /\ IsInjective(waiting)
  /\ \A s \in SubscribeCalls : Contains(waiting, s) <=> pc[s] = "locking"
  /\ \A q \in Queues : /\ Contains(waiting, q) <=> consumer[q] = "locking"
                       /\ q \in readers <=> consumer[q] = "sending"

(* A sender is in the map from the write lock on, once and for good, and   *)
(* has nothing before.                                                     *)
MapInv ==
  /\ \A q \in Queues :
       /\ IsInjective(subscribers[q])
       /\ \A s \in SubscribeCalls : Contains(subscribers[q], s) => Queue[s] = q
  /\ \A s \in SubscribeCalls :
       /\ Contains(subscribers[Queue[s]], s)
            <=> pc[s] \notin {"idle", "locking", "never"}
       /\ pc[s] \in {"idle", "locking"} => inbox[s] = <<>> /\ received[s] = <<>>

(* The message that a consumer is fanning out is the one it took last.     *)
OfferedInv ==
  /\ \A q \in Queues : consumer[q] = "sending" =>
       offered[q] # <<>> /\ Last(offered[q]) = taken[q]
  /\ \A s \in SubscribeCalls : since[s] <= Len(offered[Queue[s]])

(* s is in the map and keeps its handle.                                   *)
Active(s) == pc[s] \in {"registered", "sent", "ok"} /\ alive[s]

(* s has all it is owed but the last.                                      *)
LacksLast(s) == Owed(s) # <<>> /\ Delivered(s) = Front(Owed(s))

(* s has all it is owed, or all but what the fan-out under way will bring, *)
(* or would have brought had close() not aborted it.                       *)
Complete(s) ==
  \/ ~Awaits(s) /\ Delivered(s) = Owed(s)
  \/ Awaits(s) /\ LacksLast(s)
  \/ consumer[Queue[s]] = "ended" /\ actor # "running" /\ LacksLast(s)

CompleteInv == \A s \in SubscribeCalls : Active(s) => Complete(s)

(* The inductive invariant.                                                *)
IInv ==
  /\ TypeOK
  /\ CallsInv
  /\ LockInv
  /\ MapInv
  /\ OfferedInv
  /\ CompleteInv

-----------------------------------------------------------------------------
(* Lists.                                                                  *)

(* The empty list.                                                         *)
LEMMA EmptyList ==
  ASSUME NEW S
  PROVE  /\ <<>> \in Seq(S) /\ Len(<<>>) = 0
         /\ IsInjective(<<>>)
         /\ \A y : ~Contains(<<>>, y)
BY DEF IsInjective, Contains

(* A list without repetition to which somebody new is added.               *)
LEMMA AppendList ==
  ASSUME NEW S, NEW q \in Seq(S), NEW x \in S,
         IsInjective(q), ~Contains(q, x)
  PROVE  /\ Append(q, x) \in Seq(S)
         /\ Len(Append(q, x)) = Len(q) + 1
         /\ IsInjective(Append(q, x))
         /\ \A y \in S :
              Contains(Append(q, x), y) <=> Contains(q, y) \/ y = x
<1>1. /\ Append(q, x) \in Seq(S)
      /\ Len(Append(q, x)) = Len(q) + 1
      /\ DOMAIN Append(q, x) = 1 .. Len(q) + 1
      /\ \A i \in 1 .. Len(q) : Append(q, x)[i] = q[i]
      /\ Append(q, x)[Len(q) + 1] = x
  OBVIOUS
<1>2. IsInjective(Append(q, x))
  BY <1>1 DEF IsInjective, Contains
<1>3. ASSUME NEW y \in S
      PROVE  Contains(Append(q, x), y) <=> Contains(q, y) \/ y = x
  BY <1>1 DEF Contains
<1> QED BY <1>1, <1>2, <1>3

(* A list without repetition without its first.                            *)
LEMMA TailList ==
  ASSUME NEW S, NEW q \in Seq(S), q # <<>>, IsInjective(q)
  PROVE  /\ Tail(q) \in Seq(S)
         /\ Head(q) \in S
         /\ Len(Tail(q)) = Len(q) - 1
         /\ IsInjective(Tail(q))
         /\ Contains(q, Head(q))
         /\ \A y \in S :
              Contains(Tail(q), y) <=> Contains(q, y) /\ y # Head(q)
<1>1. /\ Tail(q) \in Seq(S)
      /\ Len(q) \in Nat \ {0}
      /\ Len(Tail(q)) = Len(q) - 1
      /\ DOMAIN Tail(q) = 1 .. Len(q) - 1
      /\ DOMAIN q = 1 .. Len(q)
      /\ \A i \in 1 .. Len(q) - 1 : Tail(q)[i] = q[i + 1]
      /\ Head(q) = q[1] /\ Head(q) \in S
  OBVIOUS
<1>2. IsInjective(Tail(q))
  BY <1>1 DEF IsInjective
<1>3. Contains(q, Head(q))
  BY <1>1 DEF Contains
<1>4. ASSUME NEW y \in S
      PROVE  Contains(Tail(q), y) <=> Contains(q, y) /\ y # Head(q)
  <2>1. ASSUME NEW i \in 1 .. Len(q), q[i] = y, y # Head(q)
        PROVE  Contains(Tail(q), y)
    <3>1. i - 1 \in 1 .. Len(Tail(q)) /\ Tail(q)[i - 1] = y
      BY <1>1, <2>1
    <3> QED BY <3>1 DEF Contains
  <2>2. ASSUME NEW i \in 1 .. Len(Tail(q)), Tail(q)[i] = y
        PROVE  Contains(q, y) /\ y # Head(q)
    <3>1. i + 1 \in 1 .. Len(q) /\ q[i + 1] = y
      BY <1>1, <2>2
    <3>2. y # q[1]
      BY <1>1, <3>1 DEF IsInjective
    <3> QED BY <1>1, <3>1, <3>2 DEF Contains
  <2> QED BY <2>1, <2>2 DEF Contains
<1> QED BY <1>1, <1>2, <1>3, <1>4

(* A list without repetition without one of its members.                   *)
LEMMA RemoveList ==
  ASSUME NEW S, NEW w \in Seq(S), IsInjective(w), NEW k \in DOMAIN w
  PROVE  /\ RemoveAt(w, k) \in Seq(S)
         /\ IsInjective(RemoveAt(w, k))
         /\ \A y : Contains(RemoveAt(w, k), y) <=> Contains(w, y) /\ y # w[k]
<1> DEFINE r == RemoveAt(w, k)
<1>1. /\ Len(w) \in Nat /\ DOMAIN w = 1 .. Len(w) /\ k \in 1 .. Len(w)
      /\ \A i \in 1 .. Len(w) : w[i] \in S
  OBVIOUS
<1> DEFINE a == SubSeq(w, 1, k - 1)
           b == SubSeq(w, k + 1, Len(w))
<1>2. /\ a \in Seq(S) /\ Len(a) = k - 1
      /\ \A i \in 1 .. k - 1 : a[i] = w[i]
  BY <1>1, SubSeqProperties
<1>3. /\ b \in Seq(S) /\ Len(b) = Len(w) - k
      /\ \A i \in 1 .. Len(w) - k : b[i] = w[k + i]
  BY <1>1, SubSeqProperties
<1>4. /\ r \in Seq(S) /\ Len(r) = Len(w) - 1
      /\ \A i \in 1 .. Len(w) - 1 : r[i] = IF i < k THEN w[i] ELSE w[i + 1]
  <2>1. r = a \o b
    BY DEF RemoveAt
  <2> HIDE DEF a, b, r
  <2>2. /\ r \in Seq(S) /\ Len(r) = Len(a) + Len(b)
        /\ \A i \in 1 .. Len(a) + Len(b) :
             r[i] = IF i <= Len(a) THEN a[i] ELSE b[i - Len(a)]
    BY <1>2, <1>3, <2>1, ConcatProperties
  <2>3. ASSUME NEW i \in 1 .. Len(w) - 1
        PROVE  r[i] = IF i < k THEN w[i] ELSE w[i + 1]
    <3>1. CASE i < k
      BY <1>1, <1>2, <1>3, <2>2, <3>1
    <3>2. CASE i >= k
      <4>1. i - (k - 1) \in 1 .. Len(w) - k /\ k + (i - (k - 1)) = i + 1
        BY <1>1, <3>2
      <4>2. i \in 1 .. Len(a) + Len(b) /\ ~(i <= Len(a))
        BY <1>1, <1>2, <1>3, <3>2
      <4>3. r[i] = b[i - (k - 1)]
        BY <1>2, <2>2, <4>2
      <4> QED BY <1>1, <1>3, <3>2, <4>1, <4>3
    <3> QED BY <1>1, <3>1, <3>2
  <2> QED BY <1>1, <1>2, <1>3, <2>2, <2>3
<1>5. DOMAIN r = 1 .. Len(w) - 1
  BY <1>4
<1> HIDE DEF r
<1>6. IsInjective(r)
  <2> SUFFICES ASSUME NEW i \in 1 .. Len(w) - 1, NEW j \in 1 .. Len(w) - 1,
                      r[i] = r[j]
               PROVE  i = j
    BY <1>5 DEF IsInjective
  <2> DEFINE at(n) == IF n < k THEN n ELSE n + 1
  <2>1. /\ at(i) \in 1 .. Len(w) /\ at(j) \in 1 .. Len(w)
        /\ w[at(i)] = r[i] /\ w[at(j)] = r[j]
    BY <1>1, <1>4
  <2>2. at(i) = at(j)
    BY <1>1, <2>1 DEF IsInjective
  <2> QED BY <1>1, <2>2
<1>7. ASSUME NEW y
      PROVE  Contains(r, y) <=> Contains(w, y) /\ y # w[k]
  <2>1. ASSUME NEW i \in 1 .. Len(r), r[i] = y
        PROVE  Contains(w, y) /\ y # w[k]
    <3>1. PICK j \in 1 .. Len(w) : j # k /\ w[j] = y
      BY <1>1, <1>4, <2>1
    <3> QED BY <1>1, <3>1 DEF IsInjective, Contains
  <2>2. ASSUME NEW j \in 1 .. Len(w), w[j] = y, y # w[k]
        PROVE  Contains(r, y)
    <3>1. CASE j < k
      BY <1>1, <1>4, <2>2, <3>1 DEF Contains
    <3>2. CASE j > k
      <4>1. j - 1 \in 1 .. Len(r) /\ r[j - 1] = w[j]
        BY <1>1, <1>4, <3>2
      <4> QED BY <2>2, <4>1 DEF Contains
    <3> QED BY <1>1, <2>2, <3>1, <3>2
  <2> QED BY <2>1, <2>2 DEF Contains
<1> QED BY <1>4, <1>6, <1>7 DEF r

(* A list to which somebody is added, without its last again.              *)
LEMMA FrontOfAppend ==
  ASSUME NEW S, NEW d \in Seq(S), NEW x \in S
  PROVE  Front(Append(d, x)) = d /\ Last(Append(d, x)) = x /\ Append(d, x) # <<>>
<1>1. /\ Append(d, x) \in Seq(S) /\ Len(Append(d, x)) = Len(d) + 1
      /\ Len(d) \in Nat /\ Append(d, x)[Len(d) + 1] = x
      /\ \A i \in 1 .. Len(d) : Append(d, x)[i] = d[i]
  OBVIOUS
<1>2. /\ SubSeq(Append(d, x), 1, Len(d)) \in Seq(S)
      /\ Len(SubSeq(Append(d, x), 1, Len(d))) = Len(d)
      /\ \A i \in 1 .. Len(d) : SubSeq(Append(d, x), 1, Len(d))[i] = d[i]
  BY <1>1, SubSeqProperties
<1>3. SubSeq(Append(d, x), 1, Len(d)) = d
  BY <1>2, SeqEqual
<1> QED BY <1>1, <1>3 DEF Front, Last

(* A list is its front and its last.                                       *)
LEMMA FrontAndLast ==
  ASSUME NEW S, NEW d \in Seq(S), d # <<>>
  PROVE  Append(Front(d), Last(d)) = d /\ Front(d) \in Seq(S)
<1>1. Len(d) \in Nat \ {0} /\ \A i \in 1 .. Len(d) : d[i] \in S
  OBVIOUS
<1>2. /\ Front(d) \in Seq(S) /\ Len(Front(d)) = Len(d) - 1
      /\ \A i \in 1 .. Len(d) - 1 : Front(d)[i] = d[i]
  <2>1. \A i \in 1 .. Len(d) - 1 : d[i] \in S
    BY <1>1
  <2>2. Len(d) - 1 \in Int
    BY <1>1
  <2> DEFINE m == Len(d) - 1
  <2>3. m \in Nat /\ Front(d) = SubSeq(d, 1, m) /\ \A i \in 1 .. m : d[i] \in S
    BY <1>1, <2>1 DEF Front
  <2> HIDE DEF m
  <2>4. /\ Front(d) \in Seq(S) /\ Len(Front(d)) = m
        /\ \A i \in 1 .. m : Front(d)[i] = d[i]
    BY <2>3, SubSeqProperties
  <2> QED BY <2>4 DEF m
<1>3. /\ Append(Front(d), d[Len(d)]) \in Seq(S)
      /\ Len(Append(Front(d), d[Len(d)])) = Len(d)
      /\ \A i \in 1 .. Len(d) : Append(Front(d), d[Len(d)])[i] = d[i]
  BY <1>1, <1>2
<1>4. Append(Front(d), d[Len(d)]) = d
  BY <1>3, SeqEqual
<1> QED BY <1>2, <1>4 DEF Last

(* What comes after the first n of a list, as it grows.                    *)
LEMMA SuffixAppend ==
  ASSUME NEW S, NEW o \in Seq(S), NEW x \in S, NEW n \in Nat, n <= Len(o)
  PROVE  SubSeq(Append(o, x), n + 1, Len(Append(o, x)))
           = Append(SubSeq(o, n + 1, Len(o)), x)
<1> DEFINE p == Append(o, x)
           u == SubSeq(p, n + 1, Len(o) + 1)
           v == SubSeq(o, n + 1, Len(o))
<1>1. /\ p \in Seq(S) /\ Len(p) = Len(o) + 1 /\ Len(o) \in Nat
      /\ p[Len(o) + 1] = x
      /\ \A i \in 1 .. Len(o) : p[i] = o[i] /\ o[i] \in S
  OBVIOUS
<1> HIDE DEF p
<1>2. /\ u \in Seq(S) /\ Len(u) = Len(o) + 1 - n
      /\ \A i \in 1 .. Len(o) + 1 - n : u[i] = p[n + i]
  <2>1. \A i \in n + 1 .. Len(o) + 1 : p[i] \in S
    BY <1>1
  <2> QED BY <1>1, <2>1, SubSeqProperties
<1>3. /\ v \in Seq(S) /\ Len(v) = Len(o) - n
      /\ \A i \in 1 .. Len(o) - n : v[i] = o[n + i]
  <2>1. \A i \in n + 1 .. Len(o) : o[i] \in S
    BY <1>1
  <2> QED BY <1>1, <2>1, SubSeqProperties
<1> HIDE DEF u, v
<1>4. /\ Append(v, x) \in Seq(S) /\ Len(Append(v, x)) = Len(o) + 1 - n
      /\ Append(v, x)[Len(o) + 1 - n] = x
      /\ \A i \in 1 .. Len(o) - n : Append(v, x)[i] = v[i]
  BY <1>1, <1>3
<1>5. ASSUME NEW i \in 1 .. Len(o) + 1 - n
      PROVE  u[i] = Append(v, x)[i]
  <2>1. CASE i = Len(o) + 1 - n
    BY <1>1, <1>2, <1>4, <2>1
  <2>2. CASE i \in 1 .. Len(o) - n
    <3>1. n + i \in 1 .. Len(o)
      BY <1>1, <2>2
    <3> QED BY <1>1, <1>2, <1>3, <1>4, <2>2, <3>1
  <2>3. i = Len(o) + 1 - n \/ i \in 1 .. Len(o) - n
    BY <1>1
  <2> QED BY <2>1, <2>2, <2>3
<1>6. u = Append(v, x)
  BY <1>2, <1>4, <1>5, SeqEqual
<1> QED BY <1>1, <1>6 DEF p, u, v

(* The last of what comes after the first n is the last.                   *)
LEMMA SuffixLast ==
  ASSUME NEW S, NEW o \in Seq(S), NEW n \in Nat, n <= Len(o)
  PROVE  /\ SubSeq(o, n + 1, Len(o)) \in Seq(S)
         /\ n = Len(o) => SubSeq(o, n + 1, Len(o)) = <<>>
         /\ SubSeq(o, n + 1, Len(o)) # <<>> =>
              Last(SubSeq(o, n + 1, Len(o))) = Last(o)
<1> DEFINE v == SubSeq(o, n + 1, Len(o))
<1>1. /\ v \in Seq(S) /\ Len(v) = Len(o) - n /\ Len(o) \in Nat
      /\ \A i \in 1 .. Len(o) - n : v[i] = o[n + i]
  <2>1. \A i \in n + 1 .. Len(o) : o[i] \in S
    OBVIOUS
  <2> QED BY <2>1, SubSeqProperties
<1> HIDE DEF v
<1>2. n = Len(o) => v = <<>>
  BY <1>1
<1>3. v # <<>> => Last(v) = Last(o)
  <2> SUFFICES ASSUME v # <<>> PROVE Last(v) = Last(o)
    OBVIOUS
  <2>1. Len(v) \in 1 .. Len(o) - n /\ n + Len(v) = Len(o)
    BY <1>1
  <2> QED BY <1>1, <2>1 DEF Last
<1> QED BY <1>1, <1>2, <1>3 DEF v

(* What a handle has received and will receive, as messages come and go.   *)
LEMMA DeliveredAppend ==
  ASSUME NEW M, NEW r \in Seq(M), NEW b \in Seq(M), NEW m \in M
  PROVE  r \o Append(b, m) = Append(r \o b, m)
OBVIOUS

(* A receive moves a message from the one to the other.                    *)
LEMMA DeliveredMove ==
  ASSUME NEW M, NEW r \in Seq(M), NEW b \in Seq(M), b # <<>>
  PROVE  Append(r, Head(b)) \o Tail(b) = r \o b
OBVIOUS

-----------------------------------------------------------------------------
(* What follows from the assumptions and the types.                        *)

(* Who is who.                                                             *)
LEMMA Kinds ==
  /\ \A s \in SubscribeCalls :
       /\ s \in Calls /\ s \notin PublishCalls /\ s \notin CloseCalls
       /\ s \notin Queues /\ s # None /\ Queue[s] \in Queues
  /\ \A x \in PublishCalls : x \in Calls /\ x \notin CloseCalls
  /\ \A c \in CloseCalls : c \in Calls /\ c \notin SubscribeCalls /\ c # None
BY CallsAssumption DEF Calls, Queues

(* What a subscriber's state is, by the types.                             *)
LEMMA TypeFacts ==
  ASSUME TypeOK, NEW s \in SubscribeCalls
  PROVE  /\ Queue[s] \in Queues
         /\ subscribers[Queue[s]] \in Seq(SubscribeCalls)
         /\ offered[Queue[s]] \in Seq(Nat)
         /\ Len(offered[Queue[s]]) \in Nat
         /\ since[s] \in Nat
         /\ inbox[s] \in Seq(Nat) /\ received[s] \in Seq(Nat)
         /\ Delivered(s) \in Seq(Nat)
<1>1. /\ Queue[s] \in Queues
      /\ subscribers[Queue[s]] \in Seq(SubscribeCalls)
      /\ offered[Queue[s]] \in Seq(Nat)
      /\ since[s] \in Nat
      /\ inbox[s] \in Seq(Nat) /\ received[s] \in Seq(Nat)
  BY Kinds DEF TypeOK
<1>2. Delivered(s) \in Seq(Nat) /\ Len(offered[Queue[s]]) \in Nat
  BY <1>1 DEF Delivered
<1> QED BY <1>1, <1>2

(* At first nobody waits, nothing is consumed and nothing is owed.         *)
LEMMA InitIInv == Init => IInv
<1> SUFFICES ASSUME Init PROVE IInv
  OBVIOUS
<1>1. TypeOK
  <2>1. 1 \in Nat \ {0} /\ 0 \in Nat /\ Capacity \in Nat
    BY SizeAssumption
  <2>2. \A q \in Queues : 0 <= MaxMessages[q]
    BY SizeAssumption
  <2> QED BY <2>1, <2>2, EmptyList DEF Init, TypeOK
<1>2. CallsInv /\ LockInv
  BY EmptyList, Kinds DEF Init, CallsInv, LockInv
<1>3. MapInv
  BY EmptyList, Kinds DEF Init, MapInv
<1>4. OfferedInv
  BY EmptyList, Kinds DEF Init, OfferedInv
<1>5. CompleteInv
  BY Kinds DEF Init, CompleteInv, Active
<1> QED BY <1>1, <1>2, <1>3, <1>4, <1>5 DEF IInv

-----------------------------------------------------------------------------
(* Steps of the callers, of close() and of the actor: nothing is fanned    *)
(* out.                                                                    *)

(* s is where it was when its handle, what it is owed and whether it is    *)
(* awaiting a message are.                                                 *)
LEMMA CompleteSame ==
  ASSUME NEW s \in SubscribeCalls, Complete(s),
         Delivered(s)' = Delivered(s), Owed(s)' = Owed(s),
         Awaits(s)' <=> Awaits(s),
         consumer[Queue[s]] = "ended" => consumer'[Queue[s]] = "ended",
         actor' = actor \/ actor = "running"
  PROVE  Complete(s)'
BY DEF Complete, LacksLast

(* A step that concerns neither the lock nor the map nor a fan-out.        *)
LEMMA QuietKeeps ==
  ASSUME IInv,
         UNCHANGED <<subscribers, waiting, readers, pos, taken, offered, since,
                     received>>,
         actor' = actor \/ actor = "running",
         \A q \in Queues : \/ consumer'[q] = consumer[q]
                           \/ consumer[q] = "absent" /\ consumer'[q] = "receiving",
         \A s \in SubscribeCalls :
           /\ pc'[s] = "locking" <=> pc[s] = "locking"
           /\ pc'[s] \in {"idle", "locking", "never"}
                <=> pc[s] \in {"idle", "locking", "never"}
           /\ pc'[s] \in {"idle", "locking"} =>
                pc[s] \in {"idle", "locking"} /\ inbox'[s] = inbox[s]
           /\ Active(s)' => Active(s) /\ inbox'[s] = inbox[s]
  PROVE  LockInv' /\ MapInv' /\ OfferedInv' /\ CompleteInv'
<1>1. LockInv'
  BY DEF IInv, LockInv
<1>2. MapInv'
  BY DEF IInv, MapInv
<1>3. OfferedInv'
  BY DEF IInv, OfferedInv
<1>4. CompleteInv'
  <2> SUFFICES ASSUME NEW s \in SubscribeCalls, Active(s)' PROVE Complete(s)'
    BY DEF CompleteInv
  <2>1. Complete(s) /\ Queue[s] \in Queues
    BY Kinds DEF IInv, CompleteInv
  <2>2. Delivered(s)' = Delivered(s) /\ Owed(s)' = Owed(s)
    BY DEF Delivered, Owed
  <2>3. Awaits(s)' <=> Awaits(s)
    BY <2>1 DEF Awaits
  <2> QED BY <2>1, <2>2, <2>3, CompleteSame
<1> QED BY <1>1, <1>2, <1>3, <1>4

(* A call moves on that does not wait for the lock of the map.             *)
LEMMA MoveKeeps ==
  ASSUME IInv, NEW x \in Calls, NEW place \in {"sent", "joining", "ok", "error"},
         x \in SubscribeCalls => pc[x] \in {"registered", "sent"},
         pc' = [pc EXCEPT ![x] = place],
         \/ UNCHANGED <<inbox, alive>>
         \/ Fail(x) /\ place = "error",
         \A q \in Queues : \/ consumer'[q] = consumer[q]
                           \/ consumer[q] = "absent" /\ consumer'[q] = "receiving",
         UNCHANGED <<actor, subscribers, waiting, readers, pos, taken, offered,
                     since, received>>
  PROVE  LockInv' /\ MapInv' /\ OfferedInv' /\ CompleteInv'
<1>1. ASSUME NEW s \in SubscribeCalls
      PROVE  /\ pc'[s] = "locking" <=> pc[s] = "locking"
             /\ pc'[s] \in {"idle", "locking", "never"}
                  <=> pc[s] \in {"idle", "locking", "never"}
             /\ pc'[s] \in {"idle", "locking"} =>
                  pc[s] \in {"idle", "locking"} /\ inbox'[s] = inbox[s]
             /\ Active(s)' => Active(s) /\ inbox'[s] = inbox[s]
  <2>1. /\ s = x => pc'[s] = place /\ pc[s] \in {"registered", "sent"}
        /\ s # x => pc'[s] = pc[s]
    BY Kinds DEF IInv, TypeOK
  <2>2. \/ inbox'[s] = inbox[s] /\ alive'[s] = alive[s]
        \/ s = x /\ place = "error"
    BY DEF Fail
  <2> QED BY <2>1, <2>2 DEF Active
<1> QED BY <1>1, QuietKeeps

(* The types when a call fails.                                            *)
LEMMA FailTypes ==
  ASSUME TypeOK, NEW x \in Calls, Fail(x)
  PROVE  /\ pc' \in [Calls -> {"idle", "locking", "registered", "sent", "joining",
                               "ok", "error", "never"}]
         /\ inbox' \in [SubscribeCalls -> Seq(Nat)]
         /\ \A s \in SubscribeCalls : Len(inbox'[s]) <= Capacity
         /\ alive' \in [SubscribeCalls -> BOOLEAN]
<1>1. Capacity \in Nat
  BY SizeAssumption
<1>2. /\ <<>> \in Seq(Nat) /\ Len(<<>>) <= Capacity
      /\ pc' = [pc EXCEPT ![x] = "error"]
      /\ alive' = [s \in SubscribeCalls |-> IF s = x THEN FALSE ELSE alive[s]]
      /\ inbox' = [s \in SubscribeCalls |-> IF s = x THEN <<>> ELSE inbox[s]]
  BY <1>1, EmptyList DEF Fail
<1>3. /\ inbox' \in [SubscribeCalls -> Seq(Nat)]
      /\ \A s \in SubscribeCalls : Len(inbox'[s]) <= Capacity
  BY <1>2 DEF TypeOK
<1>4. alive' \in [SubscribeCalls -> BOOLEAN]
  BY <1>2 DEF TypeOK
<1> QED BY <1>2, <1>3, <1>4 DEF TypeOK

(* A command is sent, or the channel is found closed.                      *)
LEMMA SendCommandKeeps ==
  ASSUME IInv, NEW x \in Calls, SendCommand(x)
  PROVE  IInv'
<1>1. /\ pc[x] \in {"registered", "idle"}
      /\ x \in SubscribeCalls => pc[x] = "registered"
      /\ UNCHANGED <<accepting, actor, handle, joiner, subscribers, waiting, readers,
                     consumer, pos, taken, offered>>
  BY DEF SendCommand, closeVars, lockVars, consumerVars
<1>2. /\ TypeOK /\ CallsInv
      /\ commands \in Seq(Calls) /\ IsInjective(commands) /\ ~Contains(commands, x)
      /\ joiner # x \/ joiner = None
  BY <1>1 DEF IInv, TypeOK, CallsInv
<1>3. CASE /\ commands' = Append(commands, x)
           /\ pc' = [pc EXCEPT ![x] = "sent"] /\ UNCHANGED inboxVars
  <2>1. /\ commands' \in Seq(Calls) /\ IsInjective(commands')
        /\ \A y \in Calls : Contains(commands', y) <=> Contains(commands, y) \/ y = x
    BY <1>2, <1>3, AppendList
  <2>2. TypeOK'
    BY <1>1, <1>2, <1>3, <2>1 DEF TypeOK, inboxVars
  <2>3. CallsInv'
    BY <1>1, <1>2, <1>3, <2>1, Kinds DEF CallsInv, TypeOK
  <2>4. LockInv' /\ MapInv' /\ OfferedInv' /\ CompleteInv'
    BY <1>1, <1>3, MoveKeeps DEF inboxVars
  <2> QED BY <2>2, <2>3, <2>4 DEF IInv
<1>4. CASE /\ x \in CloseCalls /\ pc' = [pc EXCEPT ![x] = "joining"]
           /\ UNCHANGED <<commands, inboxVars>>
  <2>1. TypeOK'
    BY <1>1, <1>2, <1>4 DEF TypeOK, inboxVars
  <2>2. CallsInv'
    BY <1>1, <1>2, <1>4, Kinds DEF CallsInv, TypeOK
  <2>3. LockInv' /\ MapInv' /\ OfferedInv' /\ CompleteInv'
    BY <1>1, <1>4, MoveKeeps DEF inboxVars
  <2> QED BY <2>1, <2>2, <2>3 DEF IInv
<1>5. CASE Fail(x) /\ UNCHANGED commands
  <2>1. pc' = [pc EXCEPT ![x] = "error"] /\ UNCHANGED <<since, received>>
    BY <1>5 DEF Fail
  <2>2. TypeOK'
    BY <1>1, <1>2, <1>5, <2>1, FailTypes DEF TypeOK
  <2>3. CallsInv'
    BY <1>1, <1>2, <1>5, <2>1, Kinds DEF CallsInv, TypeOK
  <2>4. LockInv' /\ MapInv' /\ OfferedInv' /\ CompleteInv'
    BY <1>1, <1>5, <2>1, MoveKeeps
  <2> QED BY <2>2, <2>3, <2>4 DEF IInv
<1> QED BY <1>3, <1>4, <1>5 DEF SendCommand

(* A close() that has been answered, and the task that lists the handle.   *)
LEMMA CloseStepKeeps ==
  ASSUME IInv,
         \/ ListHandle
         \/ \E c \in CloseCalls : Join(c) \/ JoinReturns(c)
  PROVE  IInv'
<1>1. TypeOK /\ CallsInv
  BY DEF IInv
<1>2. ASSUME NEW c \in CloseCalls, pc' = [pc EXCEPT ![c] = "ok"], pc[c] = "joining",
             joiner' = None, actor' = actor, handle' = handle, accepting' = accepting,
             UNCHANGED <<commands, lockVars, consumerVars, inboxVars>>
      PROVE  IInv'
  <2>1. TypeOK'
    BY <1>1, <1>2 DEF TypeOK, lockVars, consumerVars, inboxVars
  <2>2. CallsInv'
    BY <1>1, <1>2, Kinds DEF CallsInv, TypeOK
  <2>3. LockInv' /\ MapInv' /\ OfferedInv' /\ CompleteInv'
    BY <1>2, Kinds, MoveKeeps DEF lockVars, consumerVars, inboxVars
  <2> QED BY <2>1, <2>2, <2>3 DEF IInv
<1>3. ASSUME UNCHANGED <<pc, commands, accepting, actor, lockVars, consumerVars,
                         inboxVars>>,
             handle' \in {"listed", "taken"},
             joiner' \in CloseCalls \cup {None},
             joiner' # None => pc[joiner'] = "joining"
      PROVE  IInv'
  <2>1. TypeOK'
    BY <1>1, <1>3 DEF TypeOK, lockVars, consumerVars, inboxVars
  <2>2. CallsInv'
    BY <1>1, <1>3 DEF CallsInv
  <2>3. LockInv' /\ MapInv' /\ OfferedInv' /\ CompleteInv'
    BY <1>3, QuietKeeps DEF lockVars, consumerVars, inboxVars, Active
  <2> QED BY <2>1, <2>2, <2>3 DEF IInv
<1>4. CASE ListHandle
  BY <1>3, <1>4 DEF ListHandle, callVars
<1>5. ASSUME NEW c \in CloseCalls, Join(c) PROVE IInv'
  <2>1. CASE handle = "listed"
    BY <1>3, <1>5, <2>1 DEF Join
  <2>2. CASE handle # "listed"
    BY <1>2, <1>5, <2>2 DEF Join
  <2> QED BY <2>1, <2>2
<1>6. ASSUME NEW c \in CloseCalls, JoinReturns(c) PROVE IInv'
  <2>1. pc[c] = "joining"
    BY <1>1, <1>6, Kinds DEF JoinReturns, CallsInv
  <2> QED BY <1>2, <1>6, <2>1 DEF JoinReturns
<1> QED BY <1>4, <1>5, <1>6

(* The actor serves a command, and its call moves on.                      *)
LEMMA ServeKeeps ==
  ASSUME IInv, NEW x \in Calls, Serve(x),
         NEW place \in {"joining", "ok", "error"},
         pc' = [pc EXCEPT ![x] = place],
         \/ UNCHANGED inboxVars
         \/ Fail(x) /\ place = "error",
         accepting' \in BOOLEAN,
         consumer' \in [Queues -> {"absent", "receiving", "locking", "sending",
                                   "ended"}],
         \A q \in Queues : \/ consumer'[q] = consumer[q]
                           \/ consumer[q] = "absent" /\ consumer'[q] = "receiving",
         UNCHANGED <<actor, handle, joiner, subscribers, waiting, readers, pos,
                     taken, offered>>
  PROVE  IInv'
<1>1. TypeOK /\ CallsInv
  BY DEF IInv
<1>2. /\ commands \in Seq(Calls) /\ commands # <<>> /\ IsInjective(commands)
      /\ x = Head(commands) /\ commands' = Tail(commands)
  BY <1>1 DEF Serve, TypeOK, CallsInv
<1>3. /\ commands' \in Seq(Calls) /\ IsInjective(commands')
      /\ Contains(commands, x)
      /\ \A y \in Calls : Contains(commands', y) <=> Contains(commands, y) /\ y # x
  BY <1>2, TailList
<1>4. pc[x] = "sent"
  BY <1>1, <1>3 DEF CallsInv
<1>5. UNCHANGED <<since, received>>
  BY DEF Fail, inboxVars
<1>6. TypeOK'
  <2>1. /\ inbox' \in [SubscribeCalls -> Seq(Nat)]
        /\ \A s \in SubscribeCalls : Len(inbox'[s]) <= Capacity
        /\ alive' \in [SubscribeCalls -> BOOLEAN]
    BY <1>1, FailTypes DEF TypeOK, inboxVars
  <2>2. pc' \in [Calls -> {"idle", "locking", "registered", "sent", "joining",
                           "ok", "error", "never"}]
    BY <1>1 DEF TypeOK
  <2> QED BY <1>1, <1>3, <1>5, <2>1, <2>2 DEF TypeOK
<1>7. CallsInv'
  <2>1. joiner # None => joiner # x
    BY <1>1, <1>4 DEF CallsInv
  <2>2. joiner' # None => pc'[joiner'] = "joining"
    BY <1>1, <2>1, Kinds DEF CallsInv, TypeOK
  <2>3. \A y \in Calls : Contains(commands', y) => pc'[y] = "sent"
    BY <1>1, <1>3 DEF CallsInv, TypeOK
  <2> QED BY <1>3, <2>2, <2>3 DEF CallsInv
<1>8. LockInv' /\ MapInv' /\ OfferedInv' /\ CompleteInv'
  BY <1>4, <1>5, MoveKeeps DEF inboxVars
<1> QED BY <1>6, <1>7, <1>8 DEF IInv

(* The actor: commands served, and the end.                                *)
LEMMA ActorStepKeeps ==
  ASSUME IInv, ActorStep
  PROVE  IInv'
<1>1. TypeOK
  BY DEF IInv
<1>2. ASSUME NEW x \in PublishCalls, ServePublish(x) PROVE IInv'
  <2>1. PICK r \in {"ok", "error"} : pc' = [pc EXCEPT ![x] = r]
    BY <1>2 DEF ServePublish
  <2>2. /\ Serve(x) /\ x \in Calls /\ UNCHANGED inboxVars
        /\ UNCHANGED <<accepting, consumer, actor, handle, joiner, subscribers,
                       waiting, readers, pos, taken, offered>>
    BY <1>2, Kinds DEF ServePublish, closeVars, lockVars, consumerVars
  <2>3. accepting' \in BOOLEAN
        /\ consumer' \in [Queues -> {"absent", "receiving", "locking", "sending",
                                     "ended"}]
    BY <1>1, <2>2 DEF TypeOK
  <2> QED BY <2>1, <2>2, <2>3, ServeKeeps
<1>3. ASSUME NEW s \in SubscribeCalls, ServeSubscribe(s) PROVE IInv'
  <2>1. /\ Serve(s) /\ s \in Calls
        /\ UNCHANGED <<accepting, actor, handle, joiner, subscribers, waiting,
                       readers, pos, taken, offered>>
    BY <1>3, Kinds DEF ServeSubscribe, closeVars, lockVars
  <2>2. CASE /\ consumer' = [consumer EXCEPT ![Queue[s]] =
                               IF @ = "absent" THEN "receiving" ELSE @]
             /\ pc' = [pc EXCEPT ![s] = "ok"]
             /\ UNCHANGED inboxVars
    <3>1. /\ consumer' \in [Queues -> {"absent", "receiving", "locking", "sending",
                                       "ended"}]
          /\ \A q \in Queues : \/ consumer'[q] = consumer[q]
                               \/ consumer[q] = "absent" /\ consumer'[q] = "receiving"
      BY <1>1, <2>2 DEF TypeOK
    <3>2. accepting' \in BOOLEAN
      BY <1>1, <2>1 DEF TypeOK
    <3> QED BY <2>1, <2>2, <3>1, <3>2, ServeKeeps
  <2>3. CASE Fail(s) /\ UNCHANGED consumer
    <3>1. /\ pc' = [pc EXCEPT ![s] = "error"]
          /\ accepting' \in BOOLEAN
          /\ consumer' \in [Queues -> {"absent", "receiving", "locking", "sending",
                                       "ended"}]
      BY <1>1, <2>1, <2>3 DEF TypeOK, Fail
    <3> QED BY <2>1, <2>3, <3>1, ServeKeeps
  <2> QED BY <1>3, <2>2, <2>3 DEF ServeSubscribe
<1>4. ASSUME NEW c \in CloseCalls, ServeClose(c) PROVE IInv'
  <2>1. /\ Serve(c) /\ c \in Calls /\ UNCHANGED inboxVars
        /\ accepting' = FALSE /\ pc' = [pc EXCEPT ![c] = "joining"]
        /\ UNCHANGED <<consumer, actor, handle, joiner, subscribers,
                       waiting, readers, pos, taken, offered>>
    BY <1>4, Kinds DEF ServeClose, closeVars, lockVars, consumerVars
  <2>2. consumer' \in [Queues -> {"absent", "receiving", "locking", "sending",
                                  "ended"}]
    BY <1>1, <2>1 DEF TypeOK
  <2> QED BY <2>1, <2>2, ServeKeeps
<1>5. ASSUME Stop PROVE IInv'
  <2>1. TypeOK' /\ CallsInv'
    BY <1>5 DEF Stop, IInv, TypeOK, CallsInv, callVars, lockVars, consumerVars,
                inboxVars
  <2>2. LockInv' /\ MapInv' /\ OfferedInv' /\ CompleteInv'
    BY <1>5, QuietKeeps DEF Stop, callVars, lockVars, consumerVars, inboxVars,
                            Active
  <2> QED BY <2>1, <2>2 DEF IInv
<1> QED BY <1>2, <1>3, <1>4, <1>5 DEF ActorStep

(* The transport is dropped: no call is under way, and none begins.        *)
LEMMA AbandonKeeps ==
  ASSUME IInv, Abandon
  PROVE  IInv'
<1>1. /\ TypeOK /\ CallsInv /\ actor = "running" /\ commands = <<>>
      /\ \A x \in Calls : pc[x] \in {"idle", "ok", "error"}
      /\ pc' = [x \in Calls |-> IF pc[x] = "idle" THEN "never" ELSE pc[x]]
      /\ accepting' = FALSE /\ actor' = "stopped"
      /\ UNCHANGED <<commands, handle, joiner, lockVars, consumerVars, inboxVars>>
  BY DEF Abandon, IInv
<1>2. TypeOK'
  <2>1. pc' \in [Calls -> {"idle", "locking", "registered", "sent", "joining",
                           "ok", "error", "never"}]
    BY <1>1 DEF TypeOK
  <2> QED BY <1>1, <2>1 DEF TypeOK, lockVars, consumerVars, inboxVars
<1>3. CallsInv'
  BY <1>1, Kinds, EmptyList DEF CallsInv, TypeOK
<1>4. ASSUME NEW s \in SubscribeCalls
      PROVE  /\ pc'[s] = "locking" <=> pc[s] = "locking"
             /\ pc'[s] \in {"idle", "locking", "never"}
                  <=> pc[s] \in {"idle", "locking", "never"}
             /\ pc'[s] \notin {"idle", "locking"}
             /\ Active(s)' => Active(s)
  BY <1>1, Kinds DEF Active, inboxVars
<1>5. LockInv' /\ MapInv' /\ OfferedInv' /\ CompleteInv'
  BY <1>1, <1>4, QuietKeeps DEF lockVars, consumerVars, inboxVars
<1> QED BY <1>2, <1>3, <1>5 DEF IInv

(* A handle is dropped.                                                    *)
LEMMA DropHandleKeeps ==
  ASSUME IInv, NEW s \in SubscribeCalls, DropHandle(s)
  PROVE  IInv'
<1>1. /\ TypeOK /\ pc[s] = "ok"
      /\ alive' = [alive EXCEPT ![s] = FALSE]
      /\ inbox' = [inbox EXCEPT ![s] = <<>>]
      /\ UNCHANGED <<pc, commands, accepting, actor, handle, joiner, lockVars,
                     consumerVars, since, received>>
  BY DEF DropHandle, IInv, callVars, closeVars
<1>2. TypeOK'
  <2>1. Capacity \in Nat
    BY SizeAssumption
  <2> QED BY <1>1, <2>1, EmptyList DEF TypeOK, lockVars, consumerVars
<1>3. CallsInv'
  BY <1>1 DEF IInv, CallsInv
<1>4. \A u \in SubscribeCalls : /\ u # s => inbox'[u] = inbox[u] /\ alive'[u] = alive[u]
                                /\ ~alive'[s]
  BY <1>1 DEF TypeOK
<1>5. LockInv' /\ MapInv' /\ OfferedInv' /\ CompleteInv'
  BY <1>1, <1>4, QuietKeeps DEF lockVars, consumerVars, Active
<1> QED BY <1>2, <1>3, <1>5 DEF IInv

-----------------------------------------------------------------------------
(* The lock of the map.                                                    *)

(* subscribe() waits for the write lock.                                   *)
LEMMA SubscribeKeeps ==
  ASSUME IInv, NEW s \in SubscribeCalls, Subscribe(s)
  PROVE  IInv'
<1>1. /\ TypeOK /\ LockInv /\ pc[s] = "idle" /\ s \in Calls /\ s \notin Queues
      /\ pc' = [pc EXCEPT ![s] = "locking"] /\ waiting' = Append(waiting, s)
      /\ UNCHANGED <<commands, accepting, actor, handle, joiner, subscribers,
                     readers, consumer, pos, taken, offered, inbox, alive, since,
                     received>>
  BY Kinds DEF Subscribe, IInv, closeVars, consumerVars, inboxVars
<1> DEFINE W == SubscribeCalls \cup Queues
<1>2. waiting \in Seq(W) /\ IsInjective(waiting) /\ s \in W /\ ~Contains(waiting, s)
  BY <1>1 DEF TypeOK, LockInv
<1> HIDE DEF W
<1>3. /\ waiting' \in Seq(W) /\ IsInjective(waiting')
      /\ \A y \in W : Contains(waiting', y) <=> Contains(waiting, y) \/ y = s
  BY <1>1, <1>2, AppendList
<1> USE DEF W
<1>4. TypeOK'
  BY <1>1, <1>3 DEF TypeOK
<1>5. CallsInv'
  BY <1>1, Kinds DEF IInv, CallsInv, TypeOK
<1>6. LockInv'
  BY <1>1, <1>3, Kinds DEF LockInv, TypeOK
<1>7. MapInv'
  BY <1>1, Kinds DEF IInv, MapInv, TypeOK
<1>8. OfferedInv'
  BY <1>1 DEF IInv, OfferedInv
<1>9. CompleteInv'
  <2> SUFFICES ASSUME NEW u \in SubscribeCalls, Active(u)' PROVE Complete(u)'
    BY DEF CompleteInv
  <2>1. Active(u)
    BY <1>1, Kinds DEF Active, TypeOK
  <2> QED
    BY <1>1, <2>1, CompleteSame DEF IInv, CompleteInv, Delivered, Owed, Awaits
<1> QED BY <1>4, <1>5, <1>6, <1>7, <1>8, <1>9 DEF IInv

(* With the write lock its sender is entered: no fan-out is under way.     *)
LEMMA RegisterKeeps ==
  ASSUME IInv, NEW s \in SubscribeCalls, Register(s)
  PROVE  IInv'
<1> DEFINE W == SubscribeCalls \cup Queues
           q == Queue[s]
<1>1. /\ TypeOK /\ LockInv /\ MapInv /\ OfferedInv
      /\ waiting # <<>> /\ Head(waiting) = s /\ readers = {}
      /\ waiting' = Tail(waiting)
      /\ subscribers' = [subscribers EXCEPT ![q] = Append(subscribers[q], s)]
      /\ since' = [since EXCEPT ![s] = Len(offered[q])]
      /\ pc' = [pc EXCEPT ![s] = "registered"]
      /\ UNCHANGED <<commands, accepting, actor, handle, joiner, readers, consumer,
                     pos, taken, offered, inbox, alive, received>>
  BY DEF Register, IInv, closeVars, consumerVars
<1>2. /\ q \in Queues /\ subscribers[q] \in Seq(SubscribeCalls)
      /\ offered[q] \in Seq(Nat) /\ Len(offered[q]) \in Nat
      /\ s \in Calls /\ s \notin Queues
  BY <1>1, TypeFacts, Kinds
<1>3. waiting \in Seq(W) /\ IsInjective(waiting)
  BY <1>1 DEF TypeOK, LockInv
<1> HIDE DEF W
<1>4. /\ waiting' \in Seq(W) /\ IsInjective(waiting') /\ Contains(waiting, s)
      /\ \A y \in W : Contains(waiting', y) <=> Contains(waiting, y) /\ y # s
  BY <1>1, <1>3, TailList
<1> USE DEF W
<1>5. pc[s] = "locking"
  BY <1>1, <1>4 DEF LockInv
<1>6. ~Contains(subscribers[q], s) /\ IsInjective(subscribers[q])
  BY <1>1, <1>2, <1>5 DEF MapInv
<1>7. /\ Append(subscribers[q], s) \in Seq(SubscribeCalls)
      /\ IsInjective(Append(subscribers[q], s))
      /\ \A u \in SubscribeCalls : Contains(Append(subscribers[q], s), u)
                                     <=> Contains(subscribers[q], u) \/ u = s
  BY <1>2, <1>6, AppendList
<1> HIDE DEF q
<1>8. TypeOK'
  BY <1>1, <1>2, <1>4, <1>7 DEF TypeOK
<1>9. CallsInv'
  BY <1>1, <1>5, Kinds DEF IInv, CallsInv, TypeOK
<1>10. LockInv'
  BY <1>1, <1>4, <1>5, Kinds DEF LockInv, TypeOK
<1>11. MapInv'
  <2>1. \A u \in SubscribeCalls :
          Contains(subscribers'[Queue[u]], u) <=> Contains(subscribers[Queue[u]], u) \/ u = s
    BY <1>1, <1>2, <1>7, Kinds DEF TypeOK, q
  <2>2. ASSUME NEW r \in Queues
        PROVE  /\ IsInjective(subscribers'[r])
               /\ \A u \in SubscribeCalls : Contains(subscribers'[r], u) => Queue[u] = r
    <3>1. CASE r = q
      BY <1>1, <1>2, <1>7, <3>1 DEF MapInv, TypeOK, q
    <3>2. CASE r # q
      BY <1>1, <3>2 DEF MapInv, TypeOK
    <3> QED BY <3>1, <3>2
  <2>3. \A u \in SubscribeCalls : u # s => pc'[u] = pc[u]
    BY <1>1 DEF TypeOK
  <2>4. pc'[s] = "registered"
    BY <1>1, <1>2 DEF TypeOK
  <2> QED BY <1>1, <2>1, <2>2, <2>3, <2>4 DEF MapInv
<1>12. OfferedInv'
  <2>1. \A u \in SubscribeCalls : since'[u] = IF u = s THEN Len(offered[q]) ELSE since[u]
    BY <1>1 DEF TypeOK
  <2>2. \A u \in SubscribeCalls : since'[u] <= Len(offered[Queue[u]])
    BY <1>1, <1>2, <2>1 DEF OfferedInv, q
  <2> QED BY <1>1, <2>2 DEF OfferedInv
<1>13. \A u \in SubscribeCalls : ~Awaits(u) /\ ~Awaits(u)'
  BY <1>1, Kinds DEF LockInv, Awaits
<1>14. Delivered(s)' = <<>> /\ Owed(s)' = <<>>
  <2>1. inbox[s] = <<>> /\ received[s] = <<>>
    BY <1>1, <1>5 DEF MapInv
  <2>2. since'[s] = Len(offered[q])
    BY <1>1 DEF TypeOK
  <2>3. SubSeq(offered[q], Len(offered[q]) + 1, Len(offered[q])) = <<>>
    BY <1>2, SuffixLast
  <2>4. <<>> \o <<>> = <<>>
    OBVIOUS
  <2> QED BY <1>1, <2>1, <2>2, <2>3, <2>4 DEF Delivered, Owed, q
<1>15. CompleteInv'
  <2> SUFFICES ASSUME NEW u \in SubscribeCalls, Active(u)' PROVE Complete(u)'
    BY DEF CompleteInv
  <2>1. CASE u = s
    BY <1>13, <1>14, <2>1 DEF Complete
  <2>2. CASE u # s
    <3>1. Active(u) /\ since'[u] = since[u]
      BY <1>1, <2>2, Kinds DEF Active, TypeOK
    <3>2. Delivered(u)' = Delivered(u) /\ Owed(u)' = Owed(u)
      BY <1>1, <3>1 DEF Delivered, Owed
    <3> QED BY <1>1, <1>13, <3>1, <3>2, CompleteSame DEF IInv, CompleteInv
  <2> QED BY <2>1, <2>2
<1> QED BY <1>8, <1>9, <1>10, <1>11, <1>12, <1>15 DEF IInv

-----------------------------------------------------------------------------
(* The consumers.                                                          *)

(* A delivery is taken.                                                    *)
LEMMA TakeKeeps ==
  ASSUME IInv, NEW q \in Queues, Take(q)
  PROVE  IInv'
<1> DEFINE W == SubscribeCalls \cup Queues
<1>1. /\ TypeOK /\ LockInv /\ MapInv /\ OfferedInv /\ consumer[q] = "receiving"
      /\ taken[q] < MaxMessages[q]
      /\ taken' = [taken EXCEPT ![q] = taken[q] + 1]
      /\ UNCHANGED <<pc, commands, accepting, actor, handle, joiner, subscribers,
                     readers, pos, offered, inbox, alive, since, received>>
  BY DEF Take, IInv, callVars, closeVars, inboxVars
<1>2. \/ UNCHANGED <<consumer, waiting>>
      \/ consumer' = [consumer EXCEPT ![q] = "locking"] /\ waiting' = Append(waiting, q)
  BY DEF Take, Becomes
<1>3. waiting \in Seq(W) /\ IsInjective(waiting) /\ q \in W /\ ~Contains(waiting, q)
  BY <1>1 DEF TypeOK, LockInv
<1> HIDE DEF W
<1>4. waiting' = Append(waiting, q) =>
        /\ waiting' \in Seq(W) /\ IsInjective(waiting')
        /\ \A y \in W : Contains(waiting', y) <=> Contains(waiting, y) \/ y = q
  BY <1>3, AppendList
<1> USE DEF W
<1>5. TypeOK'
  <2>1. taken' \in [Queues -> Nat] /\ \A r \in Queues : taken'[r] <= MaxMessages[r]
    <3>1. taken[q] \in Nat /\ MaxMessages[q] \in Nat
      BY <1>1, SizeAssumption DEF TypeOK
    <3>2. taken[q] + 1 \in Nat /\ taken[q] + 1 <= MaxMessages[q]
      BY <1>1, <3>1
    <3> QED BY <1>1, <3>2 DEF TypeOK
  <2>2. waiting' \in Seq(SubscribeCalls \cup Queues)
    BY <1>2, <1>3, <1>4
  <2>3. consumer' \in [Queues -> {"absent", "receiving", "locking", "sending",
                                  "ended"}]
    BY <1>1, <1>2 DEF TypeOK
  <2> QED BY <1>1, <2>1, <2>2, <2>3 DEF TypeOK
<1>6. CallsInv'
  BY <1>1 DEF IInv, CallsInv
<1>7. LockInv'
  <2>1. CASE UNCHANGED <<consumer, waiting>>
    BY <1>1, <2>1 DEF LockInv
  <2>2. CASE consumer' = [consumer EXCEPT ![q] = "locking"] /\ waiting' = Append(waiting, q)
    BY <1>1, <1>4, <2>2, Kinds DEF LockInv, TypeOK
  <2> QED BY <1>2, <2>1, <2>2
<1>8. MapInv'
  BY <1>1 DEF MapInv
<1>9. \A r \in Queues : /\ consumer'[r] = "sending" <=> consumer[r] = "sending"
                        /\ consumer[r] = "ended" => consumer'[r] = "ended"
                        /\ consumer[r] = "sending" => taken'[r] = taken[r]
  BY <1>1, <1>2 DEF TypeOK
<1>10. OfferedInv'
  BY <1>1, <1>9 DEF OfferedInv
<1>11. CompleteInv'
  <2> SUFFICES ASSUME NEW u \in SubscribeCalls, Active(u)' PROVE Complete(u)'
    BY DEF CompleteInv
  <2>1. Active(u) /\ Queue[u] \in Queues
    BY <1>1, Kinds DEF Active
  <2>2. Delivered(u)' = Delivered(u) /\ Owed(u)' = Owed(u) /\ (Awaits(u)' <=> Awaits(u))
    BY <1>1, <1>9, <2>1 DEF Delivered, Owed, Awaits
  <2> QED BY <1>1, <1>9, <2>1, <2>2, CompleteSame DEF IInv, CompleteInv
<1> QED BY <1>5, <1>6, <1>7, <1>8, <1>10, <1>11 DEF IInv

(* The fan-out begins: everybody in the map of q awaits the message.       *)
LEMMA StartFanoutKeeps ==
  ASSUME IInv, NEW q \in Queues, StartFanout(q)
  PROVE  IInv'
<1> DEFINE W == SubscribeCalls \cup Queues
<1>1. /\ TypeOK /\ LockInv /\ MapInv /\ OfferedInv
      /\ waiting # <<>> /\ Head(waiting) = q
      /\ waiting' = Tail(waiting)
      /\ readers' = readers \cup {q}
      /\ consumer' = [consumer EXCEPT ![q] = "sending"]
      /\ pos' = [pos EXCEPT ![q] = 1]
      /\ offered' = [offered EXCEPT ![q] = Append(offered[q], taken[q])]
      /\ UNCHANGED <<pc, commands, accepting, actor, handle, joiner, subscribers,
                     taken, inbox, alive, since, received>>
  BY DEF StartFanout, Becomes, IInv, callVars, closeVars, inboxVars
<1>2. waiting \in Seq(W) /\ IsInjective(waiting)
  BY <1>1 DEF TypeOK, LockInv
<1> HIDE DEF W
<1>3. /\ waiting' \in Seq(W) /\ IsInjective(waiting') /\ Contains(waiting, q)
      /\ \A y \in W : Contains(waiting', y) <=> Contains(waiting, y) /\ y # q
  BY <1>1, <1>2, TailList
<1> USE DEF W
<1>4. /\ consumer[q] = "locking"
      /\ \A r \in Queues : r # q => consumer'[r] = consumer[r] /\ pos'[r] = pos[r]
                                    /\ offered'[r] = offered[r]
      /\ consumer'[q] = "sending" /\ pos'[q] = 1
      /\ offered'[q] = Append(offered[q], taken[q])
  BY <1>1, <1>3 DEF LockInv, TypeOK
<1>5. /\ offered[q] \in Seq(Nat) /\ taken[q] \in Nat /\ Len(offered[q]) \in Nat
      /\ Append(offered[q], taken[q]) \in Seq(Nat)
      /\ Len(Append(offered[q], taken[q])) = Len(offered[q]) + 1
  <2>1. offered[q] \in Seq(Nat) /\ taken[q] \in Nat
    BY <1>1 DEF TypeOK
  <2> QED BY <2>1
<1>6. TypeOK'
  BY <1>1, <1>3, <1>5 DEF TypeOK
<1>7. CallsInv'
  BY <1>1 DEF IInv, CallsInv
<1>8. LockInv'
  BY <1>1, <1>3, <1>4, Kinds DEF LockInv
<1>9. MapInv'
  BY <1>1 DEF MapInv
<1>10. OfferedInv'
  <2>1. Append(offered[q], taken[q]) # <<>> /\ Last(Append(offered[q], taken[q])) = taken[q]
    BY <1>5, FrontOfAppend
  <2>2. \A s \in SubscribeCalls : since[s] <= Len(offered'[Queue[s]])
    <3> TAKE s \in SubscribeCalls
    <3>1. since[s] \in Nat /\ since[s] <= Len(offered[Queue[s]]) /\ Queue[s] \in Queues
      BY <1>1, TypeFacts DEF OfferedInv
    <3> QED BY <1>4, <1>5, <3>1
  <2> QED BY <1>1, <1>4, <2>1, <2>2 DEF OfferedInv
<1>11. CompleteInv'
  <2> SUFFICES ASSUME NEW u \in SubscribeCalls, Active(u)' PROVE Complete(u)'
    BY DEF CompleteInv
  <2>1. /\ Active(u) /\ Complete(u) /\ Queue[u] \in Queues
        /\ Delivered(u)' = Delivered(u)
    BY <1>1, Kinds DEF Active, Delivered, IInv, CompleteInv
  <2>2. CASE Queue[u] # q
    <3>1. Owed(u)' = Owed(u) /\ (Awaits(u)' <=> Awaits(u))
      BY <1>1, <1>4, <2>1, <2>2 DEF Owed, Awaits
    <3> QED BY <1>1, <1>4, <2>1, <2>2, <3>1, CompleteSame
  <2>3. CASE Queue[u] = q
    <3>1. Delivered(u) = Owed(u)
      BY <1>4, <2>1, <2>3 DEF Complete, Awaits
    <3>2. Awaits(u)'
      <4>1. Contains(subscribers[q], u)
        BY <1>1, <2>1, <2>3 DEF MapInv, Active
      <4> QED BY <1>1, <1>4, <2>3, <4>1 DEF Awaits, Contains
    <3>3. since[u] \in Nat /\ since[u] <= Len(offered[q]) /\ Owed(u) \in Seq(Nat)
      <4>1. since[u] \in Nat /\ since[u] <= Len(offered[q])
        BY <1>1, <2>3, TypeFacts DEF OfferedInv
      <4> QED BY <1>5, <2>3, <4>1, SuffixLast DEF Owed
    <3>4. Owed(u)' = Append(Owed(u), taken[q])
      <4> DEFINE o == offered[q]
                 n == since[u]
                 m == taken[q]
      <4>1. o \in Seq(Nat) /\ m \in Nat /\ n \in Nat /\ n <= Len(o)
        BY <1>5, <3>3
      <4>2. /\ Owed(u) = SubSeq(o, n + 1, Len(o))
            /\ Owed(u)' = SubSeq(Append(o, m), n + 1, Len(Append(o, m)))
        BY <1>1, <1>4, <2>3 DEF Owed
      <4> HIDE DEF o, n, m
      <4>3. SubSeq(Append(o, m), n + 1, Len(Append(o, m)))
              = Append(SubSeq(o, n + 1, Len(o)), m)
        BY <4>1, SuffixAppend
      <4> QED BY <4>2, <4>3 DEF m
    <3>5. LacksLast(u)'
      BY <1>5, <2>1, <3>1, <3>3, <3>4, FrontOfAppend DEF LacksLast
    <3> QED BY <3>2, <3>5 DEF Complete
  <2> QED BY <2>2, <2>3
<1> QED BY <1>6, <1>7, <1>8, <1>9, <1>10, <1>11 DEF IInv

(* One turn of the loop: the inbox takes the message, or its receiver was  *)
(* dropped.                                                                *)
LEMMA SendKeeps ==
  ASSUME IInv, NEW q \in Queues, Send(q)
  PROVE  IInv'
<1> SUFFICES ASSUME NEW k, k = pos[q],
                    NEW s, s = subscribers[q][k],
                    NEW m, m = taken[q]
             PROVE  IInv'
  OBVIOUS
<1>1. /\ TypeOK /\ LockInv /\ MapInv /\ OfferedInv
      /\ consumer[q] = "sending" /\ k <= Len(subscribers[q])
      /\ pos' = [pos EXCEPT ![q] = k + 1]
      /\ UNCHANGED <<pc, commands, accepting, actor, handle, joiner, subscribers,
                     waiting, readers, consumer, taken, offered, alive, since,
                     received>>
  BY DEF Send, IInv, callVars, closeVars, lockVars
<1>2. \/ alive[s] /\ ~Full(s) /\ inbox' = [inbox EXCEPT ![s] = Append(inbox[s], m)]
      \/ ~alive[s] /\ UNCHANGED inbox
  BY DEF Send
<1>3. /\ subscribers[q] \in Seq(SubscribeCalls) /\ k \in Nat \ {0} /\ m \in Nat
      /\ IsInjective(subscribers[q])
  BY <1>1 DEF TypeOK, MapInv
<1>4. /\ Len(subscribers[q]) \in Nat
      /\ DOMAIN subscribers[q] = 1 .. Len(subscribers[q])
      /\ k \in 1 .. Len(subscribers[q]) /\ s \in SubscribeCalls
      /\ Contains(subscribers[q], s)
  BY <1>1, <1>3 DEF Contains
<1>5. Queue[s] = q
  BY <1>1, <1>4 DEF MapInv
<1>6. /\ pos'[q] = k + 1
      /\ \A r \in Queues : r # q => pos'[r] = pos[r]
      /\ \A u \in SubscribeCalls : u # s => inbox'[u] = inbox[u]
      /\ alive[s] => inbox'[s] = Append(inbox[s], m)
  BY <1>1, <1>2, <1>4 DEF TypeOK
<1>7. TypeOK'
  <2>1. /\ inbox' \in [SubscribeCalls -> Seq(Nat)]
        /\ \A u \in SubscribeCalls : Len(inbox'[u]) <= Capacity
    <3>1. inbox[s] \in Seq(Nat) /\ Capacity \in Nat
      BY <1>1, <1>4, TypeFacts, SizeAssumption
    <3>2. Append(inbox[s], m) \in Seq(Nat) /\ Len(Append(inbox[s], m)) = Len(inbox[s]) + 1
          /\ Len(inbox[s]) \in Nat
      BY <1>3, <3>1
    <3>3. ~Full(s) => Len(Append(inbox[s], m)) <= Capacity
      BY <3>1, <3>2 DEF Full
    <3>4. /\ inbox' \in [SubscribeCalls -> Seq(Nat)]
          /\ inbox' = inbox \/ Len(inbox'[s]) <= Capacity
      <4>1. inbox \in [SubscribeCalls -> Seq(Nat)]
        BY <1>1 DEF TypeOK
      <4>2. CASE alive[s] /\ ~Full(s)
                 /\ inbox' = [inbox EXCEPT ![s] = Append(inbox[s], m)]
        BY <1>4, <3>2, <3>3, <4>1, <4>2
      <4> QED BY <1>2, <4>1, <4>2
    <3>5. \A u \in SubscribeCalls : Len(inbox'[u]) <= Capacity
      BY <1>1, <1>6, <3>4 DEF TypeOK
    <3> QED BY <3>4, <3>5
  <2>2. pos' \in [Queues -> Nat \ {0}]
    <3>1. k + 1 \in Nat \ {0}
      BY <1>3
    <3> QED BY <1>1, <3>1 DEF TypeOK
  <2> QED BY <1>1, <2>1, <2>2 DEF TypeOK
<1>8. CallsInv' /\ LockInv' /\ OfferedInv'
  BY <1>1 DEF IInv, CallsInv, LockInv, OfferedInv
<1>9. pc[s] \notin {"idle", "locking", "never"}
  BY <1>1, <1>4, <1>5 DEF MapInv
<1>10. MapInv'
  BY <1>1, <1>6, <1>9 DEF MapInv
<1>11. \A i \in 1 .. Len(subscribers[q]) : subscribers[q][i] = s <=> i = k
  BY <1>3, <1>4 DEF IsInjective
<1>12. CompleteInv'
  <2> SUFFICES ASSUME NEW u \in SubscribeCalls, Active(u)' PROVE Complete(u)'
    BY DEF CompleteInv
  <2>1. /\ Active(u) /\ Complete(u) /\ Queue[u] \in Queues
        /\ Owed(u)' = Owed(u)
    BY <1>1, Kinds DEF Active, Owed, IInv, CompleteInv
  <2>2. CASE u # s
    <3>1. Delivered(u)' = Delivered(u)
      BY <1>1, <1>6, <2>2 DEF Delivered
    <3>2. Awaits(u)' <=> Awaits(u)
      <4>1. CASE Queue[u] # q
        BY <1>1, <1>6, <2>1, <4>1 DEF Awaits
      <4>2. CASE Queue[u] = q
        <5>1. \A i \in k .. Len(subscribers[q]) : subscribers[q][i] = u =>
                i \in k + 1 .. Len(subscribers[q])
          BY <1>3, <1>4, <1>11, <2>2
        <5> QED BY <1>1, <1>3, <1>4, <1>6, <4>2, <5>1 DEF Awaits
      <4> QED BY <4>1, <4>2
    <3> QED BY <1>1, <2>1, <3>1, <3>2, CompleteSame
  <2>3. CASE u = s
    <3>1. alive[s] /\ Awaits(s)
      <4>1. k \in k .. Len(subscribers[q]) /\ subscribers[q][k] = s
        BY <1>3, <1>4
      <4> QED BY <1>1, <1>5, <2>1, <2>3, <4>1 DEF Awaits, Active
    <3>2. ~Awaits(s)'
      BY <1>1, <1>3, <1>4, <1>5, <1>6, <1>11 DEF Awaits
    <3>3. LacksLast(s)
      BY <2>1, <2>3, <3>1 DEF Complete
    <3>4. Last(Owed(s)) = m /\ Owed(s) \in Seq(Nat)
      <4>1. /\ since[s] \in Nat /\ since[s] <= Len(offered[q])
            /\ offered[q] \in Seq(Nat) /\ Last(offered[q]) = m
        BY <1>1, <1>4, <1>5, TypeFacts DEF OfferedInv
      <4>2. Owed(s) = SubSeq(offered[q], since[s] + 1, Len(offered[q])) /\ Owed(s) # <<>>
        BY <1>5, <3>3 DEF Owed, LacksLast
      <4> DEFINE o == offered[q]
                 n == since[s]
      <4> HIDE DEF o, n
      <4>3. o \in Seq(Nat) /\ n \in Nat /\ n <= Len(o) /\ Last(o) = m
        BY <4>1 DEF o, n
      <4>4. SubSeq(o, n + 1, Len(o)) # <<>>
        BY <4>2 DEF o, n
      <4>5. /\ SubSeq(o, n + 1, Len(o)) \in Seq(Nat)
            /\ Last(SubSeq(o, n + 1, Len(o))) = Last(o)
        BY <4>3, <4>4, SuffixLast
      <4> QED BY <4>2, <4>3, <4>5 DEF o, n
    <3>5. Append(Front(Owed(s)), m) = Owed(s)
      BY <3>3, <3>4, FrontAndLast DEF LacksLast
    <3>6. Delivered(s)' = Append(Delivered(s), m)
      <4>1. received[s] \in Seq(Nat) /\ inbox[s] \in Seq(Nat)
        BY <1>1, <1>4, TypeFacts
      <4> DEFINE r == received[s]
                 b == inbox[s]
      <4>2. r \o Append(b, m) = Append(r \o b, m)
        <5>1. r \in Seq(Nat) /\ b \in Seq(Nat) /\ m \in Nat
          BY <1>3, <4>1
        <5> HIDE DEF r, b
        <5> QED BY <5>1, DeliveredAppend
      <4> QED BY <1>1, <1>6, <3>1, <4>2 DEF Delivered
    <3>7. Delivered(s)' = Owed(s)'
      BY <2>1, <2>3, <3>3, <3>5, <3>6 DEF LacksLast
    <3> QED BY <2>3, <3>2, <3>7 DEF Complete
  <2> QED BY <2>2, <2>3
<1> QED BY <1>7, <1>8, <1>10, <1>12 DEF IInv

(* The loop is through, the stream ends, or the consumer is aborted: it    *)
(* gives up its place in the lock.                                         *)
LEMMA ConsumerStops ==
  ASSUME IInv, NEW q \in Queues, NEW place \in {"receiving", "ended"},
         consumer[q] \in {"receiving", "locking", "sending"},
         Becomes(q, place),
         UNCHANGED <<callVars, closeVars, subscribers, pos, taken, offered, inboxVars>>,
         waiting' \in Seq(SubscribeCalls \cup Queues), IsInjective(waiting'),
         \A y \in SubscribeCalls \cup Queues :
           Contains(waiting', y) <=> Contains(waiting, y) /\ y # q,
         readers' = readers \ {q},
         consumer[q] = "sending" =>
           \/ pos[q] > Len(subscribers[q])
           \/ place = "ended" /\ actor # "running"
  PROVE  IInv'
<1>1. /\ TypeOK /\ LockInv /\ MapInv /\ OfferedInv
      /\ UNCHANGED <<pc, commands, accepting, actor, handle, joiner, inbox, alive,
                     since, received>>
  BY DEF IInv, callVars, closeVars, inboxVars
<1>2. /\ consumer' = [consumer EXCEPT ![q] = place]
      /\ consumer'[q] = place
      /\ \A r \in Queues : r # q => consumer'[r] = consumer[r]
  BY <1>1 DEF Becomes, TypeOK
<1>3. TypeOK'
  BY <1>1, <1>2 DEF TypeOK
<1>4. CallsInv' /\ MapInv'
  BY <1>1 DEF IInv, CallsInv, MapInv
<1>5. LockInv'
  BY <1>1, <1>2, Kinds DEF LockInv
<1>6. OfferedInv'
  BY <1>1, <1>2 DEF OfferedInv
<1>7. CompleteInv'
  <2> SUFFICES ASSUME NEW u \in SubscribeCalls, Active(u)' PROVE Complete(u)'
    BY DEF CompleteInv
  <2>1. /\ Active(u) /\ Complete(u) /\ Queue[u] \in Queues
        /\ Owed(u)' = Owed(u) /\ Delivered(u)' = Delivered(u)
    BY <1>1, Kinds DEF Active, Owed, Delivered, IInv, CompleteInv
  <2>2. CASE Queue[u] # q
    <3>1. Awaits(u)' <=> Awaits(u)
      BY <1>1, <1>2, <2>1, <2>2 DEF Awaits
    <3> QED BY <1>1, <1>2, <2>1, <2>2, <3>1, CompleteSame
  <2>3. CASE Queue[u] = q /\ Awaits(u)
    <3>1. /\ pos[q] \in Nat /\ Len(subscribers[q]) \in Nat
          /\ pos[q] <= Len(subscribers[q]) /\ consumer[q] = "sending"
      <4>1. pos[q] \in Nat /\ subscribers[q] \in Seq(SubscribeCalls)
        BY <1>1 DEF TypeOK
      <4> QED BY <2>3, <4>1 DEF Awaits
    <3>2. place = "ended" /\ actor # "running"
      BY <3>1
    <3> QED BY <1>1, <1>2, <2>1, <2>3, <3>2 DEF Complete, LacksLast
  <2>4. CASE Queue[u] = q /\ ~Awaits(u)
    <3>1. ~Awaits(u)' /\ Delivered(u) = Owed(u)
      BY <1>2, <2>1, <2>4 DEF Awaits, Complete
    <3> QED BY <2>1, <3>1 DEF Complete
  <2> QED BY <2>2, <2>3, <2>4
<1> QED BY <1>3, <1>4, <1>5, <1>6, <1>7 DEF IInv

(* The lock's queue without q.                                             *)
LEMMA WithoutList ==
  ASSUME TypeOK, LockInv, NEW q \in Queues
  PROVE  /\ Without(q) \in Seq(SubscribeCalls \cup Queues)
         /\ IsInjective(Without(q))
         /\ \A y \in SubscribeCalls \cup Queues :
              Contains(Without(q), y) <=> Contains(waiting, y) /\ y # q
<1> DEFINE W == SubscribeCalls \cup Queues
           i == CHOOSE j \in DOMAIN waiting : waiting[j] = q
<1>1. waiting \in Seq(W) /\ IsInjective(waiting)
  BY DEF TypeOK, LockInv
<1>2. CASE Contains(waiting, q)
  <2>1. \E j \in DOMAIN waiting : waiting[j] = q
    BY <1>1, <1>2 DEF Contains
  <2>2. i \in DOMAIN waiting /\ waiting[i] = q /\ Without(q) = RemoveAt(waiting, i)
    BY <1>2, <2>1 DEF Without
  <2> HIDE DEF W, i
  <2>3. /\ RemoveAt(waiting, i) \in Seq(W) /\ IsInjective(RemoveAt(waiting, i))
        /\ \A y : Contains(RemoveAt(waiting, i), y) <=> Contains(waiting, y) /\ y # waiting[i]
    BY <1>1, <2>2, RemoveList
  <2> QED BY <2>2, <2>3 DEF W
<1>3. CASE ~Contains(waiting, q)
  BY <1>1, <1>3 DEF Without
<1> QED BY <1>2, <1>3

(* The end of a fan-out, of a stream, and of a consumer.                   *)
LEMMA ConsumerStopKeeps ==
  ASSUME IInv, NEW q \in Queues, EndFanout(q) \/ StreamEnds(q) \/ Abort(q)
  PROVE  IInv'
<1>1. /\ TypeOK /\ LockInv
      /\ waiting \in Seq(SubscribeCalls \cup Queues) /\ IsInjective(waiting)
  BY DEF IInv, TypeOK, LockInv
<1>2. consumer[q] # "locking" =>
        \A y \in SubscribeCalls \cup Queues :
          Contains(waiting, y) <=> Contains(waiting, y) /\ y # q
  BY <1>1 DEF LockInv
<1>3. CASE EndFanout(q)
  <2>1. /\ consumer[q] = "sending" /\ pos[q] > Len(subscribers[q])
        /\ Becomes(q, "receiving") /\ readers' = readers \ {q} /\ waiting' = waiting
        /\ UNCHANGED <<callVars, closeVars, subscribers, pos, taken, offered, inboxVars>>
    BY <1>3 DEF EndFanout
  <2> QED BY <1>1, <1>2, <2>1, ConsumerStops
<1>4. CASE StreamEnds(q)
  <2>1. /\ consumer[q] = "receiving" /\ Becomes(q, "ended") /\ waiting' = waiting
        /\ readers' = readers
        /\ UNCHANGED <<callVars, closeVars, subscribers, pos, taken, offered, inboxVars>>
    BY <1>4 DEF StreamEnds, lockVars
  <2>2. readers' = readers \ {q}
    BY <1>1, <2>1 DEF LockInv
  <2> QED BY <1>1, <1>2, <2>1, <2>2, ConsumerStops
<1>5. CASE Abort(q)
  <2>1. /\ consumer[q] \in {"receiving", "locking", "sending"} /\ actor # "running"
        /\ Becomes(q, "ended") /\ readers' = readers \ {q} /\ waiting' = Without(q)
        /\ UNCHANGED <<callVars, closeVars, subscribers, pos, taken, offered, inboxVars>>
    BY <1>5 DEF Abort
  <2> QED BY <1>1, <2>1, WithoutList, ConsumerStops
<1> QED BY <1>3, <1>4, <1>5

(* A message moves from the inbox to the receiver's hands.                 *)
LEMMA ReceiveKeeps ==
  ASSUME IInv, NEW s \in SubscribeCalls, Receive(s)
  PROVE  IInv'
<1>1. /\ TypeOK /\ pc[s] = "ok" /\ inbox[s] # <<>>
      /\ received' = [received EXCEPT ![s] = Append(received[s], Head(inbox[s]))]
      /\ inbox' = [inbox EXCEPT ![s] = Tail(inbox[s])]
      /\ UNCHANGED <<pc, commands, accepting, actor, handle, joiner, subscribers,
                     waiting, readers, consumer, pos, taken, offered, alive, since>>
  BY DEF Receive, IInv, callVars, closeVars, lockVars, consumerVars
<1>2. received[s] \in Seq(Nat) /\ inbox[s] \in Seq(Nat) /\ Len(inbox[s]) <= Capacity
      /\ Capacity \in Nat
  BY <1>1, SizeAssumption DEF TypeOK
<1>3. /\ Tail(inbox[s]) \in Seq(Nat) /\ Head(inbox[s]) \in Nat
      /\ Len(Tail(inbox[s])) = Len(inbox[s]) - 1 /\ Len(inbox[s]) \in Nat
  BY <1>1, <1>2, HeadTailProperties, LenProperties
<1>4. Append(received[s], Head(inbox[s])) \in Seq(Nat) /\ Len(Tail(inbox[s])) <= Capacity
  BY <1>2, <1>3
<1>5. TypeOK'
  BY <1>1, <1>3, <1>4 DEF TypeOK
<1>6. Append(received[s], Head(inbox[s])) \o Tail(inbox[s]) = received[s] \o inbox[s]
  BY <1>1, <1>2, DeliveredMove
<1>7. \A u \in SubscribeCalls : /\ Delivered(u)' = Delivered(u)
                                /\ u # s => inbox'[u] = inbox[u] /\ received'[u] = received[u]
  BY <1>1, <1>6 DEF Delivered, TypeOK
<1>8. CallsInv' /\ LockInv' /\ OfferedInv'
  BY <1>1 DEF IInv, CallsInv, LockInv, OfferedInv
<1>9. MapInv'
  BY <1>1, <1>7 DEF IInv, MapInv
<1>10. CompleteInv'
  BY <1>1, <1>7, CompleteSame DEF IInv, CompleteInv, Active, Owed, Awaits
<1> QED BY <1>5, <1>8, <1>9, <1>10 DEF IInv

-----------------------------------------------------------------------------
(* Every step.                                                             *)
LEMMA StepIInv == IInv /\ [Next]_vars => IInv'
<1> SUFFICES ASSUME IInv, [Next]_vars PROVE IInv'
  OBVIOUS
<1>1. ASSUME NEW s \in SubscribeCalls,
             Subscribe(s) \/ SubscribeStep(s) \/ Receive(s) \/ DropHandle(s)
      PROVE  IInv'
  BY <1>1, Kinds, SubscribeKeeps, RegisterKeeps, SendCommandKeeps,
     ReceiveKeeps,
     DropHandleKeeps DEF SubscribeStep
<1>2. ASSUME NEW x \in PublishCalls \cup CloseCalls, SendCommand(x)
      PROVE  IInv'
  BY <1>2, Kinds, SendCommandKeeps
<1>3. CASE ListHandle \/ \E c \in CloseCalls : CloseStep(c)
  BY <1>3, CloseStepKeeps DEF CloseStep
<1>4. CASE ActorStep \/ Abandon
  BY <1>4, ActorStepKeeps, AbandonKeeps
<1>5. ASSUME NEW q \in Queues, Take(q) \/ ConsumerStep(q) \/ StreamEnds(q)
      PROVE  IInv'
  BY <1>5, TakeKeeps, StartFanoutKeeps, SendKeeps, ConsumerStopKeeps
     DEF ConsumerStep
<1>6. CASE UNCHANGED vars
  <2>1. UNCHANGED <<callVars, closeVars, lockVars, consumerVars, inboxVars>>
    BY <1>6 DEF vars
  <2>2. TypeOK' /\ CallsInv'
    BY <2>1 DEF callVars, closeVars, lockVars, consumerVars, inboxVars, IInv,
                TypeOK, CallsInv
  <2>3. LockInv' /\ MapInv' /\ OfferedInv' /\ CompleteInv'
    BY <2>1, QuietKeeps
       DEF callVars, closeVars, lockVars, consumerVars, inboxVars,
                            Active
  <2> QED BY <2>2, <2>3 DEF IInv
<1> QED BY <1>1, <1>2, <1>3, <1>4, <1>5, <1>6 DEF Next

(* The inductive invariant is one.                                         *)
THEOREM Invariance == Safety => []IInv
BY InitIInv, StepIInv, PTL DEF Safety

(* The types of the calls, the actor, the map and the consumers.           *)
THEOREM TypeCorrect == Safety => []TypeOK
<1>1. IInv => TypeOK
  BY DEF IInv
<1> QED BY <1>1, Invariance, PTL

(* From the moment its sender is in the map, a subscriber that keeps its   *)
(* handle gets every message that is fanned out on its queue, once and in  *)
(* order; only close() can cost it the one in the consumer's hand.         *)
THEOREM FanoutIsCompleteTheorem == Safety => []FanoutIsComplete
<1>1. IInv => FanoutIsComplete
  BY
     DEF IInv, CompleteInv, Complete, LacksLast, Active, Awaits,
         FanoutIsComplete
<1> QED BY <1>1, Invariance, PTL

=============================================================================

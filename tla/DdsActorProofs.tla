--------------------------- MODULE DdsActorProofs ---------------------------
(***************************************************************************)
(* Theorems about DdsActor, for any number of calls, readers and samples.  *)
(***************************************************************************)
EXTENDS DdsActor, TLAPS

(* A command is queued once, and its call waits for it; the publish() that *)
(* the actor is busy with has left the queue.  A reader belongs to a call  *)
(* that has returned.                                                      *)
CallsInv ==
  /\ IsInjective(commands)
  /\ \A x \in Calls : Contains(commands, x) => pc[x] = "sent"
  /\ actor = "matching" <=> current # None
  /\ current # None => /\ pc[current] = "sent"
                       /\ ~Contains(commands, current)
  /\ \A s \in SubscribeCalls : reader[s] # "absent" => pc[s] = "ok"

(* Wherever senders are listed, each is listed once and its subscribe()    *)
(* has begun; none is both among those still to be tried and among those   *)
(* that survived.                                                          *)
SendersInv ==
  /\ \A t \in Topics : IsInjective(subscribers[t])
  /\ \A t \in Topics, s \in SubscribeCalls :
       Contains(subscribers[t], s) => pc[s] # "idle"
  /\ \A r \in Readers : IsInjective(senders[r]) /\ IsInjective(survivors[r])
  /\ \A r \in Readers, s \in SubscribeCalls :
       /\ Contains(senders[r], s) => pc[s] # "idle"
       /\ Contains(survivors[r], s) => pc[s] # "idle"
       /\ ~(Contains(senders[r], s) /\ Contains(survivors[r], s))

(* A reader holds nothing older than what it has handed on, and nobody has *)
(* got from it anything later than that.                                   *)
SamplesInv ==
  /\ \A r \in Readers :
       /\ reader[r] = "absent" => hand[r] = 0 /\ unread[r] = 0
       /\ unread[r] # 0 => hand[r] < unread[r]
       /\ ~Ended(r) => hand[r] <= arrived[r] /\ unread[r] <= arrived[r]
  /\ \A s \in SubscribeCalls, r \in Readers : got[s][r] <= hand[r]

(* A stopped actor leaves no reader and no command; a close() has joined   *)
(* it when the handle is gone and nobody waits for it.                     *)
CloseInv ==
  /\ actor = "stopped" => commands = <<>> /\ \A r \in Readers : Ended(r)
  /\ joiner # None => handle = "taken" /\ pc[joiner] = "joining"
  /\ handle = "taken" /\ joiner = None => actor = "stopped"

(* The inductive invariant.                                                *)
IInv ==
  /\ TypeOK
  /\ CallsInv
  /\ SendersInv
  /\ SamplesInv
  /\ CloseInv
  /\ OncePerReader

-----------------------------------------------------------------------------
(* Lists without repetition.                                               *)

(* The empty list names nobody.                                            *)
LEMMA EmptyList ==
  ASSUME NEW S
  PROVE  /\ <<>> \in Seq(S)
         /\ IsInjective(<<>>)
         /\ \A y : ~Contains(<<>>, y)
BY DEF IsInjective, Contains

(* A list without repetition to which somebody new is added.               *)
LEMMA AppendList ==
  ASSUME NEW S, NEW q \in Seq(S), NEW x \in S, IsInjective(q), ~Contains(q, x)
  PROVE  /\ Append(q, x) \in Seq(S)
         /\ IsInjective(Append(q, x))
         /\ \A y \in S : Contains(Append(q, x), y) <=> Contains(q, y) \/ y = x
<1>1. /\ Append(q, x) \in Seq(S)
      /\ Len(Append(q, x)) = Len(q) + 1
      /\ DOMAIN Append(q, x) = 1 .. Len(q) + 1
      /\ \A i \in 1 .. Len(q) : Append(q, x)[i] = q[i]
      /\ Append(q, x)[Len(q) + 1] = x
  OBVIOUS
<1>2. IsInjective(Append(q, x))
  BY <1>1 DEF IsInjective, Contains
<1>3. ASSUME NEW y \in S
      PROVE  Contains(Append(q, x), y) <=> Contains(q, y) \/ y = x
  BY <1>1 DEF Contains
<1> QED BY <1>1, <1>2, <1>3

(* A list without repetition without its first.                            *)
LEMMA TailList ==
  ASSUME NEW S, NEW q \in Seq(S), q # <<>>, IsInjective(q)
  PROVE  /\ Tail(q) \in Seq(S)
         /\ Head(q) \in S
         /\ IsInjective(Tail(q))
         /\ Contains(q, Head(q))
         /\ \A y \in S : Contains(Tail(q), y) <=> Contains(q, y) /\ y # Head(q)
<1>1. /\ Tail(q) \in Seq(S)
      /\ Len(q) \in Nat \ {0}
      /\ Len(Tail(q)) = Len(q) - 1
      /\ DOMAIN Tail(q) = 1 .. Len(q) - 1
      /\ DOMAIN q = 1 .. Len(q)
      /\ \A i \in 1 .. Len(q) - 1 : Tail(q)[i] = q[i + 1]
      /\ Head(q) = q[1] /\ Head(q) \in S
  OBVIOUS
<1>2. IsInjective(Tail(q))
  BY <1>1 DEF IsInjective
<1>3. Contains(q, Head(q))
  BY <1>1 DEF Contains
<1>4. ASSUME NEW y \in S
      PROVE  Contains(Tail(q), y) <=> Contains(q, y) /\ y # Head(q)
  <2>1. ASSUME NEW i \in 1 .. Len(q), q[i] = y, y # Head(q)
        PROVE  Contains(Tail(q), y)
    <3>1. i - 1 \in 1 .. Len(Tail(q)) /\ Tail(q)[i - 1] = y
      BY <1>1, <2>1
    <3> QED BY <3>1 DEF Contains
  <2>2. ASSUME NEW i \in 1 .. Len(Tail(q)), Tail(q)[i] = y
        PROVE  Contains(q, y) /\ y # Head(q)
    <3>1. i + 1 \in 1 .. Len(q) /\ q[i + 1] = y
      BY <1>1, <2>2
    <3>2. y # q[1]
      BY <1>1, <3>1 DEF IsInjective
    <3> QED BY <1>1, <3>1, <3>2 DEF Contains
  <2> QED BY <2>1, <2>2 DEF Contains
<1> QED BY <1>1, <1>2, <1>3, <1>4

(* The inductive invariant holds at first.                                 *)
LEMMA InitIInv == Init => IInv
<1> SUFFICES ASSUME Init PROVE IInv
  OBVIOUS
<1>1. TypeOK
  BY CallsAssumption, SizeAssumption, EmptyList DEF Init, TypeOK, Calls
<1>2. CallsInv /\ SendersInv
  BY EmptyList DEF Init, CallsInv, SendersInv, Readers
<1>3. SamplesInv /\ CloseInv /\ OncePerReader
  BY EmptyList DEF Init, SamplesInv, CloseInv, OncePerReader, Readers, Ended
<1> QED BY <1>1, <1>2, <1>3 DEF IInv

-----------------------------------------------------------------------------
(* Steps of the callers.                                                   *)

(* A sender enters the map for the first time, as its call begins.         *)
LEMMA SubscribeKeeps ==
  ASSUME IInv, NEW s \in SubscribeCalls, Subscribe(s)
  PROVE  IInv'
<1> DEFINE t == Topic[s]
<1>1. s \in Calls /\ t \in Topics /\ pc[s] = "idle"
  BY DEF Calls, Topics, Subscribe
<1>2. /\ subscribers[t] \in Seq(SubscribeCalls)
      /\ IsInjective(subscribers[t])
      /\ ~Contains(subscribers[t], s)
  BY <1>1 DEF IInv, TypeOK, SendersInv
<1>3. /\ Append(subscribers[t], s) \in Seq(SubscribeCalls)
      /\ IsInjective(Append(subscribers[t], s))
      /\ \A y \in SubscribeCalls :
           Contains(Append(subscribers[t], s), y) <=>
             Contains(subscribers[t], y) \/ y = s
  BY <1>2, AppendList
<1>4. TypeOK'
  BY <1>1, <1>3 DEF IInv, TypeOK, Subscribe, Goes, closeVars, ddsVars,
     readerVars, fanoutVars, Readers
<1>5. CallsInv'
  BY <1>1 DEF IInv, TypeOK, CallsInv, Subscribe, Goes, closeVars, ddsVars,
     readerVars, fanoutVars
<1>6. SendersInv'
  BY <1>1, <1>3 DEF IInv, TypeOK, SendersInv, Subscribe, Goes, closeVars,
     ddsVars, readerVars, fanoutVars
<1>7. SamplesInv'
  BY <1>1 DEF IInv, TypeOK, SamplesInv, Subscribe, closeVars, ddsVars,
     readerVars, fanoutVars, Ended, Readers
<1>9. CloseInv'
  BY <1>1 DEF IInv, TypeOK, CloseInv, Subscribe, Goes, closeVars, readerVars,
     Ended, Calls
<1>8. OncePerReader'
  BY <1>1 DEF IInv, TypeOK, SendersInv, OncePerReader, Subscribe, closeVars,
     ddsVars, readerVars, fanoutVars, Readers
<1> QED BY <1>4, <1>5, <1>6, <1>7, <1>8, <1>9 DEF IInv

(* A receiver that is dropped forgets what it got, and nothing else.       *)
LEMMA DropReceiverKeeps ==
  ASSUME IInv, NEW s \in SubscribeCalls, DropReceiver(s),
         UNCHANGED <<reader, arrived, unread, fanoutVars>>
  PROVE  /\ SamplesInv' /\ OncePerReader'
         /\ subscribers' = subscribers
         /\ inbox' \in [SubscribeCalls -> 0 .. Capacity]
         /\ alive' \in [SubscribeCalls -> BOOLEAN]
         /\ got' \in [SubscribeCalls -> [Readers -> Nat]]
<1>1. /\ subscribers' = subscribers
      /\ inbox' \in [SubscribeCalls -> 0 .. Capacity]
      /\ alive' \in [SubscribeCalls -> BOOLEAN]
      /\ got' \in [SubscribeCalls -> [Readers -> Nat]]
  BY SizeAssumption DEF IInv, TypeOK, DropReceiver
<1>2. ASSUME NEW q \in SubscribeCalls, NEW r \in Readers
      PROVE  got'[q][r] \in {0, got[q][r]}
  BY DEF IInv, TypeOK, DropReceiver
<1>3. \A q \in SubscribeCalls, r \in Readers :
         got[q][r] \in Nat /\ hand[r] \in Nat
  BY DEF IInv, TypeOK
<1>4. SamplesInv'
  <2>1. \A q \in SubscribeCalls, r \in Readers : got'[q][r] <= hand[r]
    BY <1>2, <1>3 DEF IInv, SamplesInv
  <2> QED BY <2>1 DEF IInv, SamplesInv, fanoutVars, Ended
<1>5. OncePerReader'
  <2>1. \A r \in Readers, q \in SubscribeCalls :
          got[q][r] < hand[r] => got'[q][r] < hand[r]
    BY <1>2, <1>3
  <2> QED BY <2>1 DEF IInv, OncePerReader, fanoutVars
<1> QED BY <1>1, <1>4, <1>5

(* What GivesUp leaves of the invariant to show.                           *)
LEMMA GivesUpKeeps ==
  ASSUME IInv, NEW x \in Calls, GivesUp(x), UNCHANGED <<reader, arrived, unread,
         fanoutVars>>
  PROVE  /\ SamplesInv' /\ OncePerReader'
         /\ subscribers' = subscribers
         /\ inbox' \in [SubscribeCalls -> 0 .. Capacity]
         /\ alive' \in [SubscribeCalls -> BOOLEAN]
         /\ got' \in [SubscribeCalls -> [Readers -> Nat]]
         /\ \E place \in {"joining", "error"} : pc' = [pc EXCEPT ![x] = place]
<1>1. CASE x \in SubscribeCalls /\ DropReceiver(x)
  BY <1>1, DropReceiverKeeps, CallsAssumption DEF GivesUp, Goes
<1>2. CASE UNCHANGED mapVars
  BY <1>2 DEF GivesUp, Goes, mapVars, fanoutVars, IInv, TypeOK, SamplesInv,
     OncePerReader, Ended
<1> QED BY <1>1, <1>2 DEF GivesUp

(* A call queues its command, which it had not done, or fails.             *)
LEMMA SendCommandKeeps ==
  ASSUME IInv, NEW x \in Calls, SendCommand(x)
  PROVE  IInv'
<1>1. /\ pc[x] \in {"registered", "idle"}
      /\ x \in SubscribeCalls => pc[x] = "registered"
      /\ UNCHANGED <<actor, current, handle, joiner, writers, samples, reader,
                     arrived, unread, hand, senders, survivors, original>>
  BY DEF SendCommand, closeVars, ddsVars, readerVars, fanoutVars
<1>2. ~Contains(commands, x) /\ x # current
  BY <1>1, CallsAssumption DEF IInv, CallsInv
<1>3. CASE /\ actor # "stopped"
           /\ commands' = Append(commands, x)
           /\ pc' = [pc EXCEPT ![x] = "sent"]
           /\ UNCHANGED mapVars
  <2>1. /\ commands' \in Seq(Calls)
        /\ IsInjective(commands')
        /\ \A y \in Calls : Contains(commands', y) <=> Contains(commands, y) \/ y = x
    BY <1>2, <1>3, AppendList DEF IInv, TypeOK, CallsInv
  <2>2. TypeOK'
    BY <1>1, <1>3, <2>1 DEF IInv, TypeOK, mapVars
  <2>3. CallsInv'
    BY <1>1, <1>2, <1>3, <2>1, CallsAssumption
       DEF IInv, TypeOK, CallsInv, Calls
  <2>4. SendersInv'
    BY <1>1, <1>3 DEF IInv, TypeOK, SendersInv, mapVars, Calls
  <2>5. SamplesInv' /\ OncePerReader'
    BY <1>1, <1>3 DEF IInv, SamplesInv, OncePerReader, mapVars, Ended
  <2>6. CloseInv'
    BY <1>1, <1>3 DEF IInv, TypeOK, SendCommand, CloseInv, Ended, Calls
  <2> QED BY <2>2, <2>3, <2>4, <2>5, <2>6 DEF IInv
<1>4. CASE GivesUp(x) /\ UNCHANGED commands
  <2>1. PICK place \in {"joining", "error"} : pc' = [pc EXCEPT ![x] = place]
    BY <1>1, <1>4, GivesUpKeeps DEF fanoutVars
  <2>2. TypeOK'
    BY <1>1, <1>4, <2>1, GivesUpKeeps DEF IInv, TypeOK, fanoutVars
  <2>3. CallsInv'
    BY <1>1, <1>2, <1>4, <2>1 DEF IInv, TypeOK, CallsInv, Calls
  <2>4. SendersInv'
    BY <1>1, <1>4, <2>1, GivesUpKeeps
       DEF IInv, TypeOK, SendersInv, fanoutVars, Calls
  <2>5. SamplesInv' /\ OncePerReader'
    BY <1>1, <1>4, GivesUpKeeps DEF fanoutVars
  <2>6. CloseInv'
    BY <1>1, <1>4, <2>1 DEF IInv, TypeOK, CloseInv, Ended, Calls
  <2> QED BY <2>2, <2>3, <2>4, <2>5, <2>6 DEF IInv
<1> QED BY <1>3, <1>4 DEF SendCommand, Goes

(* A call whose command the actor left behind.                             *)
LEMMA OrphanedKeeps ==
  ASSUME IInv, NEW x \in Calls, Orphaned(x)
  PROVE  IInv'
<1>1. /\ UNCHANGED <<commands, actor, current, handle, joiner, writers, samples,
                     reader, arrived, unread, hand, senders, survivors, original>>
      /\ pc[x] = "sent" /\ actor = "stopped" /\ GivesUp(x)
  BY DEF Orphaned, closeVars, ddsVars, readerVars, fanoutVars
<1>2. PICK place \in {"joining", "error"} : pc' = [pc EXCEPT ![x] = place]
  BY <1>1, GivesUpKeeps DEF fanoutVars
<1>3. current = None /\ commands = <<>>
  BY <1>1 DEF IInv, CallsInv, CloseInv
<1>4. TypeOK'
  BY <1>1, <1>2, GivesUpKeeps DEF IInv, TypeOK, fanoutVars
<1>5. CallsInv'
  BY <1>1, <1>2, <1>3, EmptyList DEF IInv, TypeOK, CallsInv, Calls
<1>6. SendersInv'
  BY <1>1, <1>2, GivesUpKeeps DEF IInv, TypeOK, SendersInv, fanoutVars, Calls
<1>7. SamplesInv' /\ OncePerReader'
  BY <1>1, GivesUpKeeps DEF fanoutVars
<1>8. CloseInv'
  BY <1>1, <1>2 DEF IInv, TypeOK, CloseInv, Ended, Calls
<1> QED BY <1>4, <1>5, <1>6, <1>7, <1>8 DEF IInv

(* close() at the list of tasks.                                           *)
LEMMA JoinKeeps ==
  ASSUME IInv, NEW c \in CloseCalls, Join(c) \/ JoinReturns(c)
  PROVE  IInv'
<1>1. /\ UNCHANGED <<commands, actor, current, writers, samples, reader,
                     arrived, unread, hand, senders, survivors, original,
                     subscribers, inbox, alive, got>>
      /\ pc' \in {pc, [pc EXCEPT ![c] = "ok"]}
      /\ c \in Calls
  BY
     DEF Join, JoinReturns, ddsVars, readerVars, fanoutVars, mapVars, Goes,
         Calls
<1>2. TypeOK'
  BY <1>1 DEF IInv, TypeOK, Join, JoinReturns
<1>3. pc[c] = "joining"
  BY CallsAssumption DEF Join, JoinReturns, IInv, CloseInv, Calls
<1>4. CallsInv'
  BY <1>1, <1>3, CallsAssumption DEF IInv, TypeOK, CallsInv, Calls
<1>5. SendersInv'
  BY <1>1, CallsAssumption DEF IInv, TypeOK, SendersInv, Calls
<1>6. SamplesInv' /\ OncePerReader'
  BY <1>1 DEF IInv, SamplesInv, OncePerReader, Ended
<1>7. CloseInv'
  BY <1>1, <1>3, CallsAssumption DEF IInv, TypeOK, CloseInv, Join, JoinReturns,
     Ended, Calls
<1> QED BY <1>2, <1>4, <1>5, <1>6, <1>7 DEF IInv

-----------------------------------------------------------------------------
(* Steps of the actor.                                                     *)

(* What Serve takes from the queue was queued once.                        *)
LEMMA ServeTakes ==
  ASSUME IInv, NEW x \in Calls, Serve(x)
  PROVE  /\ actor = "receiving" /\ current = None /\ pc[x] = "sent"
         /\ commands' \in Seq(Calls)
         /\ IsInjective(commands')
         /\ \A y \in Calls :
              Contains(commands', y) <=> Contains(commands, y) /\ y # x
<1>1. /\ commands \in Seq(Calls) /\ commands # <<>> /\ IsInjective(commands)
      /\ Head(commands) = x /\ commands' = Tail(commands)
  BY DEF Serve, IInv, TypeOK, CallsInv
<1>2. Contains(commands, x)
  BY <1>1, TailList
<1>3. pc[x] = "sent"
  BY <1>2 DEF IInv, CallsInv
<1>4. actor = "receiving" /\ current = None
  BY DEF Serve, IInv, CallsInv
<1> QED BY <1>1, <1>3, <1>4, TailList

(* A publish() leaves the queue for the actor, or is answered.             *)
LEMMA ServePublishKeeps ==
  ASSUME IInv, NEW p \in PublishCalls, ServePublish(p)
  PROVE  IInv'
<1>1. p \in Calls /\ p \notin SubscribeCalls /\ p # None /\ Topic[p] \in Topics
  BY CallsAssumption DEF Calls, Topics
<1>2. /\ actor = "receiving" /\ current = None /\ pc[p] = "sent"
      /\ commands' \in Seq(Calls)
      /\ IsInjective(commands')
      /\ \A y \in Calls :
           Contains(commands', y) <=> Contains(commands, y) /\ y # p
  BY <1>1, ServeTakes DEF ServePublish
<1>3. /\ UNCHANGED <<handle, joiner, samples, reader, arrived, unread, hand,
                     senders, survivors, original, subscribers, inbox, alive,
                     got>>
      /\ \/ writers' = writers \cup {Topic[p]} /\ actor' = "matching"
            /\ current' = p /\ pc' = pc
         \/ writers' = writers /\ actor' = "receiving" /\ current' = None
            /\ pc' = [pc EXCEPT ![p] = "ok"]
  BY DEF ServePublish, Answered, Goes, readerVars, fanoutVars, mapVars
<1>4. TypeOK'
  BY <1>1, <1>2, <1>3 DEF IInv, TypeOK
<1>5. CallsInv'
  BY <1>1, <1>2, <1>3 DEF IInv, TypeOK, CallsInv, Calls
<1>6. SendersInv'
  BY <1>1, <1>3 DEF IInv, TypeOK, SendersInv, Calls
<1>7. SamplesInv' /\ OncePerReader'
  BY <1>3 DEF IInv, SamplesInv, OncePerReader, Ended
<1>8. CloseInv'
  BY <1>1, <1>2, <1>3, CallsAssumption DEF IInv, TypeOK, CloseInv, Calls
<1> QED BY <1>4, <1>5, <1>6, <1>7, <1>8 DEF IInv

(* The publish() the actor is busy with is answered.                       *)
LEMMA MatchingEndsKeeps ==
  ASSUME IInv, MatchFails \/ Write
  PROVE  IInv'
<1> DEFINE p == current
<1>1. actor = "matching"
  BY DEF MatchFails, Write
<1>2. /\ UNCHANGED <<commands, handle, joiner, writers, reader, arrived, unread,
                     hand, senders, survivors, original, subscribers, inbox,
                     alive, got>>
      /\ actor' = "receiving" /\ current' = None
      /\ pc' = [pc EXCEPT ![p] = "ok"]
      /\ samples' = samples \/ samples' = [samples EXCEPT ![Topic[p]] = @ + 1]
  BY DEF MatchFails, Write, Answered, Goes, ddsVars, readerVars, fanoutVars,
     mapVars
<1>3. /\ p # None /\ p \in PublishCalls /\ p \in Calls /\ pc[p] = "sent"
      /\ ~Contains(commands, p)
      /\ Topic[p] \in Topics
  BY <1>1 DEF IInv, TypeOK, CallsInv, Calls, Topics
<1>4. TypeOK'
  <2>1. samples' \in [Topics -> Nat]
    BY <1>2, <1>3 DEF IInv, TypeOK
  <2>2. pc' \in [Calls -> {"idle", "registered", "sent", "joining", "ok",
                           "error", "never"}]
    BY <1>2 DEF IInv, TypeOK
  <2> QED BY <1>2, <2>1, <2>2 DEF IInv, TypeOK
<1>5. CallsInv'
  BY <1>2, <1>3, CallsAssumption DEF IInv, TypeOK, CallsInv, Calls
<1>6. SendersInv'
  BY <1>2, <1>3 DEF IInv, TypeOK, SendersInv, Calls
<1>7. SamplesInv' /\ OncePerReader'
  BY <1>2 DEF IInv, SamplesInv, OncePerReader, Ended
<1>8. CloseInv'
  BY <1>1, <1>2, <1>3 DEF IInv, TypeOK, CloseInv, Calls
<1> QED BY <1>4, <1>5, <1>6, <1>7, <1>8 DEF IInv

(* The reader that is made is the first of its subscribe().                *)
LEMMA ServeSubscribeKeeps ==
  ASSUME IInv, NEW s \in SubscribeCalls, ServeSubscribe(s)
  PROVE  IInv'
<1>1. s \in Calls /\ s \in Readers /\ s # None /\ Topic[s] \in Topics
  BY CallsAssumption DEF Calls, Topics, Readers
<1>2. /\ actor = "receiving" /\ current = None /\ pc[s] = "sent"
      /\ commands' \in Seq(Calls)
      /\ IsInjective(commands')
      /\ \A y \in Calls :
           Contains(commands', y) <=> Contains(commands, y) /\ y # s
  BY <1>1, ServeTakes DEF ServeSubscribe
<1>3. UNCHANGED <<actor, current, handle, joiner, writers, samples, unread,
                  hand, senders, survivors, original>>
  BY DEF ServeSubscribe, closeVars, ddsVars, fanoutVars
<1>4. CASE /\ reader' = [reader EXCEPT ![s] = "waiting"]
           /\ arrived' = [arrived EXCEPT ![s] = samples[Topic[s]]]
           /\ pc' = [pc EXCEPT ![s] = "ok"]
           /\ UNCHANGED mapVars
  <2>1. reader[s] = "absent"
    BY <1>2 DEF IInv, CallsInv
  <2>2. samples[Topic[s]] \in Nat
    BY <1>1 DEF IInv, TypeOK
  <2>3. TypeOK'
    BY <1>1, <1>2, <1>3, <1>4, <2>2 DEF IInv, TypeOK, mapVars
  <2>4. CallsInv'
    BY <1>1, <1>2, <1>3, <1>4 DEF IInv, TypeOK, CallsInv, Calls, Readers
  <2>5. SendersInv'
    BY <1>1, <1>3, <1>4 DEF IInv, TypeOK, SendersInv, mapVars, Calls
  <2>6. SamplesInv'
    BY <1>1, <1>3, <1>4, <2>1, <2>2
       DEF IInv, TypeOK, SamplesInv, mapVars, Ended
  <2>7. OncePerReader'
    BY <1>3, <1>4 DEF IInv, OncePerReader, mapVars
  <2>8. CloseInv'
    BY <1>1, <1>2, <1>3, <1>4 DEF IInv, TypeOK, CloseInv, Calls
  <2> QED BY <2>3, <2>4, <2>5, <2>6, <2>7, <2>8 DEF IInv
<1>5. CASE GivesUp(s) /\ UNCHANGED <<reader, arrived>>
  <2>1. PICK place \in {"joining", "error"} : pc' = [pc EXCEPT ![s] = place]
    BY <1>1, <1>3, <1>5, GivesUpKeeps DEF fanoutVars
  <2>2. reader[s] = "absent"
    BY <1>2 DEF IInv, CallsInv
  <2>3. TypeOK'
    BY <1>1, <1>2, <1>3, <1>5, <2>1, GivesUpKeeps DEF IInv, TypeOK, fanoutVars
  <2>4. CallsInv'
    BY <1>1, <1>2, <1>3, <1>5, <2>1, <2>2 DEF IInv, TypeOK, CallsInv, Calls
  <2>5. SendersInv'
    BY <1>1, <1>3, <1>5, <2>1, GivesUpKeeps DEF IInv, TypeOK, SendersInv,
       fanoutVars, Calls
  <2>6. SamplesInv' /\ OncePerReader'
    BY <1>1, <1>3, <1>5, GivesUpKeeps DEF fanoutVars
  <2>7. CloseInv'
    BY <1>1, <1>2, <1>3, <1>5, <2>1 DEF IInv, TypeOK, CloseInv, Ended, Calls
  <2> QED BY <2>3, <2>4, <2>5, <2>6, <2>7 DEF IInv
<1> QED BY <1>4, <1>5 DEF ServeSubscribe, Goes

(* A served close() stops no reader yet.                                   *)
LEMMA ServeCloseKeeps ==
  ASSUME IInv, NEW c \in CloseCalls, ServeClose(c)
  PROVE  IInv'
<1>1. c \in Calls /\ c \notin SubscribeCalls
  BY CallsAssumption DEF Calls
<1>2. /\ actor = "receiving" /\ current = None /\ pc[c] = "sent"
      /\ commands' \in Seq(Calls)
      /\ IsInjective(commands')
      /\ \A y \in Calls :
           Contains(commands', y) <=> Contains(commands, y) /\ y # c
  BY <1>1, ServeTakes DEF ServeClose
<1>3. /\ UNCHANGED <<current, handle, joiner, writers, samples, reader, arrived,
                     unread, hand, senders, survivors, original, subscribers,
                     inbox, alive, got>>
      /\ actor' = "closing" /\ pc' = [pc EXCEPT ![c] = "joining"]
  BY DEF ServeClose, Goes, ddsVars, readerVars, fanoutVars, mapVars
<1>4. TypeOK'
  BY <1>1, <1>2, <1>3 DEF IInv, TypeOK
<1>5. CallsInv'
  BY <1>1, <1>2, <1>3 DEF IInv, TypeOK, CallsInv, Calls
<1>6. SendersInv'
  BY <1>1, <1>3 DEF IInv, TypeOK, SendersInv, Calls
<1>7. SamplesInv' /\ OncePerReader'
  BY <1>3 DEF IInv, SamplesInv, OncePerReader, Ended
<1>8. CloseInv'
  BY <1>1, <1>2, <1>3 DEF IInv, TypeOK, CloseInv, Calls
<1> QED BY <1>4, <1>5, <1>6, <1>7, <1>8 DEF IInv

(* No call is under way when the transport is dropped.                     *)
LEMMA AbandonKeeps ==
  ASSUME IInv, Abandon
  PROVE  IInv'
<1>1. /\ UNCHANGED <<commands, current, handle, joiner, writers, samples, reader,
                     arrived, unread, hand, senders, survivors, original,
                     subscribers, inbox, alive, got>>
      /\ actor = "receiving" /\ actor' = "closing" /\ commands = <<>>
  BY DEF Abandon, ddsVars, readerVars, fanoutVars, mapVars
<1>2. current = None
  BY <1>1 DEF IInv, CallsInv
<1>3. ASSUME NEW x \in Calls
      PROVE  /\ pc[x] \in {"idle", "ok", "error"}
             /\ pc'[x] = IF pc[x] = "idle" THEN "never" ELSE pc[x]
  BY DEF Abandon
<1>4. TypeOK'
  <2>1. pc' \in [Calls -> {"idle", "registered", "sent", "joining", "ok",
                           "error", "never"}]
    BY <1>3 DEF Abandon
  <2> QED BY <1>1, <2>1 DEF IInv, TypeOK
<1>5. CallsInv'
  BY <1>1, <1>2, <1>3, EmptyList DEF IInv, CallsInv, Calls
<1>6. SendersInv'
  BY <1>1, <1>3 DEF IInv, SendersInv, Calls
<1>7. SamplesInv' /\ OncePerReader'
  BY <1>1 DEF IInv, SamplesInv, OncePerReader, Ended
<1>8. CloseInv'
  BY <1>1, <1>3 DEF IInv, TypeOK, CloseInv, Calls
<1> QED BY <1>4, <1>5, <1>6, <1>7, <1>8 DEF IInv

(* The actor stops when no reader is at work, and drops the queue.         *)
LEMMA StopKeeps ==
  ASSUME IInv, Stop
  PROVE  IInv'
<1>1. /\ UNCHANGED <<pc, current, handle, joiner, writers, samples, reader,
                     arrived, unread, hand, senders, survivors, original,
                     subscribers, inbox, alive, got>>
      /\ actor = "closing" /\ actor' = "stopped" /\ commands' = <<>>
      /\ \A r \in Readers : Ended(r)
  BY DEF Stop, ddsVars, readerVars, fanoutVars, mapVars
<1>2. TypeOK'
  BY <1>1, EmptyList DEF IInv, TypeOK
<1>3. CallsInv'
  BY <1>1, EmptyList DEF IInv, CallsInv
<1>4. SendersInv'
  BY <1>1 DEF IInv, SendersInv
<1>5. SamplesInv' /\ OncePerReader' /\ CloseInv'
  BY <1>1 DEF IInv, SamplesInv, OncePerReader, CloseInv, Ended
<1> QED BY <1>2, <1>3, <1>4, <1>5 DEF IInv

-----------------------------------------------------------------------------
(* Steps of the readers.                                                   *)

(* What a step of reader r leaves to show, if the calls do not move: the   *)
(* reader is at work and stays so, or it is at work and ends.              *)
LEMMA ReaderFrame ==
  ASSUME IInv, NEW r \in Readers, ~Ended(r),
         UNCHANGED <<callVars, closeVars>>,
         \E place \in {"waiting", "draining", "sending", "ended"} :
           reader' = [reader EXCEPT ![r] = place]
  PROVE  /\ CallsInv' /\ CloseInv'
         /\ reader' \in [Readers -> {"absent", "waiting", "draining", "sending",
                                     "ended"}]
<1>1. PICK place \in {"waiting", "draining", "sending", "ended"} :
        reader' = [reader EXCEPT ![r] = place]
  OBVIOUS
<1>2. actor # "stopped"
  BY DEF IInv, CloseInv
<1>3. CallsInv'
  BY <1>1 DEF IInv, TypeOK, CallsInv, callVars, closeVars, Ended, Readers
<1>4. CloseInv'
  BY <1>2 DEF IInv, CloseInv, callVars, closeVars
<1> QED BY <1>1, <1>3, <1>4 DEF IInv, TypeOK

(* A task that ends drops what its reader holds.                           *)
LEMMA EndsKeeps ==
  ASSUME IInv, NEW r \in Readers, reader[r] = "waiting", Ends(r)
  PROVE  IInv'
<1>1. /\ UNCHANGED <<pc, commands, actor, current, handle, joiner, writers,
                     samples, hand, senders, survivors, original, subscribers,
                     inbox, alive, got>>
      /\ reader' = [reader EXCEPT ![r] = "ended"]
      /\ arrived' = [arrived EXCEPT ![r] = 0]
      /\ unread' = [unread EXCEPT ![r] = 0]
  BY DEF Ends, Becomes, callVars, closeVars, ddsVars, fanoutVars, mapVars
<1>2. /\ CallsInv' /\ CloseInv'
      /\ reader' \in [Readers -> {"absent", "waiting", "draining", "sending",
                                  "ended"}]
  BY <1>1, ReaderFrame DEF Ended, callVars, closeVars
<1>3. TypeOK'
  BY <1>1, <1>2 DEF IInv, TypeOK
<1>4. SendersInv' /\ OncePerReader'
  BY <1>1 DEF IInv, SendersInv, OncePerReader
<1>5. SamplesInv'
  BY <1>1 DEF IInv, TypeOK, SamplesInv, Ended
<1> QED BY <1>2, <1>3, <1>4, <1>5 DEF IInv

(* What comes to a reader is newer than what it has handed on.             *)
LEMMA ArriveKeeps ==
  ASSUME IInv, NEW r \in Readers, Arrive(r)
  PROVE  IInv'
<1>1. /\ UNCHANGED <<pc, commands, actor, current, handle, joiner, writers,
                     samples, reader, hand, senders, survivors, original,
                     subscribers, inbox, alive, got>>
      /\ ~Ended(r)
  BY DEF Arrive, callVars, closeVars, ddsVars, fanoutVars, mapVars
<1>2. samples[Topic[r]] \in Nat /\ arrived[r] \in Nat /\ hand[r] \in Nat
  BY DEF IInv, TypeOK, Readers, Topics
<1>3. PICK n \in arrived[r] + 1 .. samples[Topic[r]] :
        /\ arrived' = [arrived EXCEPT ![r] = n]
        /\ unread' = [unread EXCEPT ![r] = n]
  BY DEF Arrive
<1>4. n \in Nat /\ arrived[r] < n /\ hand[r] <= arrived[r]
  BY <1>1, <1>2 DEF IInv, SamplesInv
<1>5. TypeOK'
  BY <1>1, <1>3, <1>4 DEF IInv, TypeOK
<1>6. CallsInv' /\ SendersInv' /\ CloseInv' /\ OncePerReader'
  BY <1>1 DEF IInv, CallsInv, SendersInv, CloseInv, OncePerReader, Ended
<1>7. SamplesInv'
  BY <1>1, <1>2, <1>3, <1>4 DEF IInv, TypeOK, SamplesInv, Ended
<1> QED BY <1>5, <1>6, <1>7 DEF IInv

(* A reader turns from waiting to draining, or back.                       *)
LEMMA WakeKeeps ==
  ASSUME IInv, NEW r \in Readers, Wake(r) \/ Drained(r)
  PROVE  IInv'
<1>1. /\ UNCHANGED <<pc, commands, actor, current, handle, joiner, writers,
                     samples, arrived, unread, hand, senders, survivors,
                     original, subscribers, inbox, alive, got>>
      /\ reader[r] \in {"waiting", "draining"}
      /\ \/ reader' = [reader EXCEPT ![r] = "draining"]
         \/ reader' = [reader EXCEPT ![r] = "waiting"]
  BY
     DEF Wake, Drained, Becomes, callVars, closeVars, ddsVars, fanoutVars,
         mapVars
<1>2. /\ CallsInv' /\ CloseInv'
      /\ reader' \in [Readers -> {"absent", "waiting", "draining", "sending",
                                  "ended"}]
  BY <1>1, ReaderFrame DEF Ended, callVars, closeVars
<1>3. TypeOK'
  BY <1>1, <1>2 DEF IInv, TypeOK
<1>4. SendersInv' /\ OncePerReader'
  BY <1>1 DEF IInv, SendersInv, OncePerReader
<1>5. SamplesInv'
  BY <1>1 DEF IInv, TypeOK, SamplesInv, Ended
<1> QED BY <1>2, <1>3, <1>4, <1>5 DEF IInv

(* A sample that is taken is new to every subscriber of the topic.         *)
LEMMA TakeKeeps ==
  ASSUME IInv, NEW r \in Readers, Take(r)
  PROVE  IInv'
<1> DEFINE t == Topic[r]
<1>1. /\ UNCHANGED <<pc, commands, actor, current, handle, joiner, writers,
                     samples, arrived, subscribers, inbox, alive, got>>
      /\ reader[r] = "draining" /\ unread[r] # 0
      /\ unread' = [unread EXCEPT ![r] = 0]
  BY DEF Take, callVars, closeVars, ddsVars, mapVars
<1>2. /\ unread[r] \in Nat /\ hand[r] \in Nat /\ arrived[r] \in Nat
      /\ hand[r] < unread[r] /\ unread[r] <= arrived[r]
      /\ t \in Topics
      /\ subscribers[t] \in Seq(SubscribeCalls)
  BY <1>1 DEF IInv, TypeOK, SamplesInv, Ended, Readers, Topics
<1>3. CASE BeginFanout(r, unread[r])
  <2>1. /\ reader' = [reader EXCEPT ![r] = "sending"]
        /\ hand' = [hand EXCEPT ![r] = unread[r]]
        /\ senders' = [senders EXCEPT ![r] = subscribers[t]]
        /\ survivors' = [survivors EXCEPT ![r] = <<>>]
        /\ original' = [original EXCEPT ![r] = Len(subscribers[t])]
    BY <1>3 DEF BeginFanout, Becomes
  <2>2. /\ CallsInv' /\ CloseInv'
        /\ reader' \in [Readers -> {"absent", "waiting", "draining", "sending",
                                    "ended"}]
    BY <1>1, <2>1, ReaderFrame DEF Ended, callVars, closeVars
  <2>3. TypeOK'
    BY <1>1, <1>2, <2>1, <2>2, EmptyList DEF IInv, TypeOK
  <2>4. SendersInv'
    BY <1>1, <1>2, <2>1, EmptyList DEF IInv, TypeOK, SendersInv
  <2>5. \A q \in Readers, s \in SubscribeCalls :
          /\ got[s][q] \in Nat /\ hand[q] \in Nat /\ got[s][q] <= hand[q]
          /\ hand'[q] = IF q = r THEN unread[r] ELSE hand[q]
          /\ q # r => senders'[q] = senders[q]
    BY <2>1 DEF IInv, TypeOK, SamplesInv
  <2>6. OncePerReader'
    BY <1>1, <1>2, <2>5 DEF IInv, OncePerReader
  <2>7. SamplesInv'
    <3>1. \A s \in SubscribeCalls, q \in Readers : got'[s][q] <= hand'[q]
      BY <1>1, <1>2, <2>5
    <3>2. \A q \in Readers :
            /\ reader'[q] = "absent" => hand'[q] = 0 /\ unread'[q] = 0
            /\ unread'[q] # 0 => hand'[q] < unread'[q]
            /\ ~Ended(q)' => hand'[q] <= arrived'[q] /\ unread'[q] <= arrived'[q]
      BY <1>1, <1>2, <2>1 DEF IInv, TypeOK, SamplesInv, Ended
    <3> QED BY <3>1, <3>2 DEF SamplesInv
  <2> QED BY <2>2, <2>3, <2>4, <2>6, <2>7 DEF IInv
<1>4. CASE UNCHANGED <<reader, fanoutVars>>
  <2>1. TypeOK'
    BY <1>1, <1>4 DEF IInv, TypeOK, fanoutVars
  <2>2. CallsInv' /\ SendersInv' /\ CloseInv' /\ OncePerReader'
    BY <1>1, <1>4 DEF IInv, CallsInv, SendersInv, CloseInv, OncePerReader,
       fanoutVars, Ended
  <2>3. SamplesInv'
    BY <1>1, <1>2, <1>4 DEF IInv, TypeOK, SamplesInv, fanoutVars, Ended
  <2> QED BY <2>1, <2>2, <2>3 DEF IInv
<1> QED BY <1>3, <1>4 DEF Take

(* The subscriber that a sample is handed to leaves the senders as it is   *)
(* marked, and joins the survivors.                                        *)
LEMMA TrySendKeeps ==
  ASSUME IInv, NEW r \in Readers, TrySend(r)
  PROVE  IInv'
<1> DEFINE s == Head(senders[r])
<1>1. /\ UNCHANGED <<pc, commands, actor, current, handle, joiner, writers,
                     samples, reader, arrived, unread, hand, original,
                     subscribers, alive>>
      /\ senders[r] # <<>>
      /\ senders' = [senders EXCEPT ![r] = Tail(senders[r])]
  BY DEF TrySend, callVars, closeVars, ddsVars, readerVars, IInv, TypeOK
<1>2. senders[r] \in Seq(SubscribeCalls) /\ IsInjective(senders[r])
      /\ survivors[r] \in Seq(SubscribeCalls) /\ IsInjective(survivors[r])
  BY DEF IInv, TypeOK, SendersInv
<1>3. /\ s \in SubscribeCalls
      /\ Tail(senders[r]) \in Seq(SubscribeCalls)
      /\ IsInjective(Tail(senders[r]))
      /\ Contains(senders[r], s)
      /\ \A y \in SubscribeCalls :
           Contains(Tail(senders[r]), y) <=> Contains(senders[r], y) /\ y # s
  BY <1>1, <1>2, TailList
<1>4. /\ ~Contains(survivors[r], s)
      /\ pc[s] # "idle"
  BY <1>3 DEF IInv, SendersInv
<1>5. CallsInv' /\ CloseInv'
  BY <1>1 DEF IInv, CallsInv, CloseInv, Ended
<1>6. \A q \in Readers, y \in SubscribeCalls :
        /\ senders'[q] = IF q = r THEN Tail(senders[r]) ELSE senders[q]
        /\ got[y][q] \in Nat /\ hand[q] \in Nat /\ got[y][q] <= hand[q]
  BY <1>1 DEF IInv, TypeOK, SamplesInv
<1>7. CASE /\ Accepts(s)
           /\ inbox' = [inbox EXCEPT ![s] = @ + 1]
           /\ got' = [got EXCEPT ![s][r] = hand[r]]
           /\ survivors' = [survivors EXCEPT ![r] = Append(survivors[r], s)]
  <2>1. /\ Append(survivors[r], s) \in Seq(SubscribeCalls)
        /\ IsInjective(Append(survivors[r], s))
        /\ \A y \in SubscribeCalls :
             Contains(Append(survivors[r], s), y) <=>
               Contains(survivors[r], y) \/ y = s
    BY <1>2, <1>3, <1>4, AppendList
  <2>2. inbox' \in [SubscribeCalls -> 0 .. Capacity]
    BY <1>3, <1>7, SizeAssumption DEF Accepts, IInv, TypeOK
  <2>3. got' \in [SubscribeCalls -> [Readers -> Nat]]
    BY <1>3, <1>7 DEF IInv, TypeOK
  <2>4. TypeOK'
    BY <1>1, <1>3, <1>7, <2>1, <2>2, <2>3 DEF IInv, TypeOK
  <2>5. SendersInv'
    <3>1. \A q \in Readers :
            survivors'[q] = IF q = r THEN Append(survivors[r], s)
                            ELSE survivors[q]
      BY <1>7 DEF IInv, TypeOK
    <3>2. \A q \in Readers :
            IsInjective(senders'[q]) /\ IsInjective(survivors'[q])
      BY <1>3, <1>6, <2>1, <3>1 DEF IInv, SendersInv
    <3>3. \A q \in Readers, y \in SubscribeCalls :
            /\ Contains(senders'[q], y) => pc[y] # "idle"
            /\ Contains(survivors'[q], y) => pc[y] # "idle"
            /\ ~(Contains(senders'[q], y) /\ Contains(survivors'[q], y))
      BY <1>3, <1>4, <1>6, <2>1, <3>1 DEF IInv, SendersInv
    <3> QED BY <1>1, <3>2, <3>3 DEF IInv, SendersInv
  <2>6. \A q \in Readers, y \in SubscribeCalls :
          got'[y][q] = IF y = s /\ q = r THEN hand[r] ELSE got[y][q]
    BY <1>3, <1>7 DEF IInv, TypeOK
  <2>7. SamplesInv'
    <3>1. \A y \in SubscribeCalls, q \in Readers : got'[y][q] <= hand[q]
      BY <1>6, <2>6
    <3> QED BY <1>1, <3>1 DEF IInv, SamplesInv, Ended
  <2>8. OncePerReader'
    BY <1>1, <1>3, <1>6, <2>6 DEF IInv, OncePerReader
  <2> QED BY <1>5, <2>4, <2>5, <2>7, <2>8 DEF IInv
<1>8. CASE UNCHANGED <<inbox, got, survivors>>
  <2>1. TypeOK'
    BY <1>1, <1>3, <1>8 DEF IInv, TypeOK
  <2>2. SendersInv'
    BY <1>1, <1>3, <1>6, <1>8 DEF IInv, SendersInv
  <2>3. SamplesInv'
    BY <1>1, <1>8 DEF IInv, SamplesInv, Ended
  <2>4. OncePerReader'
    BY <1>1, <1>3, <1>6, <1>8 DEF IInv, OncePerReader
  <2> QED BY <1>5, <2>1, <2>2, <2>3, <2>4 DEF IInv
<1> QED BY <1>7, <1>8 DEF TrySend, IInv, TypeOK

(* Survivors written over the map are a list without repetition.           *)
LEMMA WriteBackKeeps ==
  ASSUME IInv, NEW r \in Readers, WriteBack(r)
  PROVE  IInv'
<1> DEFINE t == Topic[r]
<1>1. /\ UNCHANGED <<pc, commands, actor, current, handle, joiner, writers,
                     samples, arrived, unread, hand, senders, inbox, alive, got>>
      /\ reader[r] = "sending"
      /\ reader' = [reader EXCEPT ![r] = "draining"]
      /\ survivors' = [survivors EXCEPT ![r] = <<>>]
      /\ original' = [original EXCEPT ![r] = 0]
      /\ \/ subscribers' = [subscribers EXCEPT ![t] = survivors[r]]
         \/ subscribers' = subscribers
  BY DEF WriteBack, Becomes, callVars, closeVars, ddsVars
<1>2. /\ CallsInv' /\ CloseInv'
      /\ reader' \in [Readers -> {"absent", "waiting", "draining", "sending",
                                  "ended"}]
  BY <1>1, ReaderFrame DEF Ended, callVars, closeVars
<1>3. t \in Topics /\ survivors[r] \in Seq(SubscribeCalls)
  BY DEF IInv, TypeOK, Readers, Topics
<1>4. TypeOK'
  BY <1>1, <1>2, <1>3, EmptyList DEF IInv, TypeOK
<1>5. SendersInv'
  BY <1>1, <1>3, EmptyList DEF IInv, TypeOK, SendersInv
<1>6. SamplesInv'
  BY <1>1 DEF IInv, TypeOK, SamplesInv, Ended
<1>7. OncePerReader'
  BY <1>1 DEF IInv, OncePerReader
<1> QED BY <1>2, <1>4, <1>5, <1>6, <1>7 DEF IInv

-----------------------------------------------------------------------------
(* Steps of the owners of handles and of other participants.               *)

(* The owner of a handle receives, or drops it.                            *)
LEMMA HandleKeeps ==
  ASSUME IInv, NEW s \in SubscribeCalls, Receive(s) \/ DropHandle(s)
  PROVE  IInv'
<1>1. UNCHANGED <<pc, commands, actor, current, handle, joiner, writers, samples,
                  reader, arrived, unread, hand, senders, survivors, original,
                  subscribers>>
  BY DEF Receive, DropHandle, DropReceiver, callVars, closeVars, ddsVars,
     readerVars, fanoutVars
<1>2. /\ SamplesInv' /\ OncePerReader'
      /\ inbox' \in [SubscribeCalls -> 0 .. Capacity]
      /\ alive' \in [SubscribeCalls -> BOOLEAN]
      /\ got' \in [SubscribeCalls -> [Readers -> Nat]]
  <2>1. CASE Receive(s)
    <3>1. UNCHANGED <<alive, got>> /\ inbox' = [inbox EXCEPT ![s] = @ - 1]
          /\ inbox[s] > 0
      BY <2>1 DEF Receive
    <3>2. inbox' \in [SubscribeCalls -> 0 .. Capacity]
      BY <3>1, SizeAssumption DEF IInv, TypeOK
    <3>3. SamplesInv' /\ OncePerReader'
      BY <1>1, <3>1 DEF IInv, SamplesInv, OncePerReader, Ended
    <3> QED BY <3>1, <3>2, <3>3 DEF IInv, TypeOK
  <2>2. CASE DropHandle(s)
    BY <1>1, <2>2, DropReceiverKeeps DEF DropHandle, fanoutVars
  <2> QED BY <2>1, <2>2
<1>3. TypeOK'
  BY <1>1, <1>2 DEF IInv, TypeOK
<1>4. CallsInv' /\ SendersInv' /\ CloseInv'
  BY <1>1 DEF IInv, CallsInv, SendersInv, CloseInv, Ended
<1> QED BY <1>2, <1>3, <1>4 DEF IInv

(* A sample is written elsewhere.                                          *)
LEMMA RemoteWriteKeeps ==
  ASSUME IInv, NEW t \in Topics, RemoteWrite(t)
  PROVE  IInv'
<1>1. /\ UNCHANGED <<pc, commands, actor, current, handle, joiner, writers,
                     reader, arrived, unread, hand, senders, survivors, original,
                     subscribers, inbox, alive, got>>
      /\ samples' = [samples EXCEPT ![t] = @ + 1]
  BY DEF RemoteWrite, callVars, closeVars, readerVars, fanoutVars, mapVars
<1>2. TypeOK'
  BY <1>1 DEF IInv, TypeOK
<1>3. CallsInv' /\ SendersInv' /\ SamplesInv' /\ CloseInv' /\ OncePerReader'
  BY <1>1 DEF IInv, CallsInv, SendersInv, SamplesInv, CloseInv, OncePerReader,
     Ended
<1> QED BY <1>2, <1>3 DEF IInv

(* Nothing happens.                                                        *)
LEMMA StutterKeeps == IInv /\ UNCHANGED vars => IInv'
BY DEF IInv, TypeOK, CallsInv, SendersInv, SamplesInv, CloseInv, OncePerReader,
   Ended, vars, callVars, closeVars, ddsVars, readerVars, fanoutVars, mapVars

-----------------------------------------------------------------------------
(* Every step preserves the inductive invariant.                           *)
THEOREM StepIInv == IInv /\ [Next]_vars => IInv'
<1> SUFFICES ASSUME IInv, [Next]_vars PROVE IInv'
  OBVIOUS
<1>1. CASE \E s \in SubscribeCalls : Subscribe(s) \/ Receive(s) \/ DropHandle(s)
  BY <1>1, SubscribeKeeps, HandleKeeps
<1>2. CASE \E x \in PublishCalls \cup CloseCalls : SendCommand(x)
  BY <1>2, SendCommandKeeps DEF Calls
<1>3. CASE \E x \in Calls : CallStep(x)
  BY <1>3, SendCommandKeeps, OrphanedKeeps, JoinKeeps DEF CallStep
<1>4. CASE ActorStep
  BY <1>4, ServePublishKeeps, MatchingEndsKeeps, ServeSubscribeKeeps,
     ServeCloseKeeps, StopKeeps DEF ActorStep
<1>5. CASE Write \/ Abandon
  BY <1>5, MatchingEndsKeeps, AbandonKeeps
<1>6. CASE \E r \in Readers : Arrive(r) \/ ReaderStep(r) \/ WaitFails(r)
  BY <1>6, ArriveKeeps, WakeKeeps, EndsKeeps, TakeKeeps, TrySendKeeps,
     WriteBackKeeps DEF ReaderStep, ShutDown, WaitFails
<1>7. CASE \E t \in Topics : RemoteWrite(t)
  BY <1>7, RemoteWriteKeeps
<1>8. CASE UNCHANGED vars
  BY <1>8, StutterKeeps
<1> QED BY <1>1, <1>2, <1>3, <1>4, <1>5, <1>6, <1>7, <1>8 DEF Next

(* The inductive invariant holds throughout every behaviour.               *)
THEOREM Invariance == Spec => []IInv
BY InitIInv, StepIInv, PTL DEF Spec, Safety

(* Types of the calls, the actor, the readers and the map.                 *)
THEOREM TypeCorrect == Spec => []TypeOK
<1>1. IInv => TypeOK
  BY DEF IInv
<1> QED BY <1>1, Invariance, PTL

(* handle_incoming() of one reader, run by its task between those of all   *)
(* other readers, gives a sample to a subscriber at most once and never    *)
(* gives it an older one later.                                            *)
THEOREM OncePerReaderTheorem == Spec => []OncePerReader
<1>1. IInv => OncePerReader
  BY DEF IInv
<1> QED BY <1>1, Invariance, PTL

(* After the close() that took the actor's handle has returned, the actor  *)
(* and all reader tasks are gone.                                          *)
THEOREM ClosedMeansEndedTheorem == Spec => []ClosedMeansEnded
<1>1. IInv => ClosedMeansEnded
  BY DEF IInv, CloseInv, ClosedMeansEnded
<1> QED BY <1>1, Invariance, PTL
-----------------------------------------------------------------------------
(* Nobody stays registered who missed a sample.  Where one reader only has *)
(* handed on samples of a topic, the map changes by its fan-outs and by    *)
(* the calls that enter it.                                                *)

(* How many senders the fan-out of r has not evicted.  With fewer than it  *)
(* began with it will write survivors back.                                *)
Kept(r) == Len(senders[r]) + Len(survivors[r])
Evicted(r) == Kept(r) < original[r]

(* No other reader of the topic has handed on a sample.                    *)
Alone(r) == \A q \in Readers \ {r} : Topic[q] = Topic[r] => hand[q] = 0

(* Who keeps the handle and is in the map has been given the sample, or is *)
(* still to be tried, or a list of survivors will replace the map: and all *)
(* survivors have been given it.                                           *)
AccountedFor(r) ==
  /\ \A s \in SubscribeCalls :
       alive[s] /\ reader[r] = "sending" /\ Contains(survivors[r], s)
         => got[s][r] = hand[r]
  /\ \A s \in SubscribeCalls :
       alive[s] /\ Contains(subscribers[Topic[r]], s) =>
         \/ got[s][r] = hand[r]
         \/ reader[r] = "sending" /\ Contains(senders[r], s)
         \/ reader[r] = "sending" /\ Evicted(r)

(* The second inductive invariant, on top of the first.                    *)
UpToDateInv ==
  /\ \A r \in Readers :
       reader[r] = "sending" =>
         /\ hand[r] # 0
         /\ Kept(r) <= original[r]
  /\ \A r \in Readers : Alone(r) => AccountedFor(r)

(* At first nobody is in the map and nobody sends.                         *)
LEMMA InitUpToDate == Init => UpToDateInv
BY EmptyList DEF Init, UpToDateInv, AccountedFor, Readers, Topics

(* A step outside the fan-outs and the map, that leaves to those who keep  *)
(* their handle what they got.                                             *)
LEMMA UpToDateFrame ==
  ASSUME UpToDateInv, UNCHANGED <<fanoutVars, subscribers>>,
         \A r \in Readers : reader'[r] = "sending" <=> reader[r] = "sending",
         \A s \in SubscribeCalls : alive'[s] => alive[s] /\ got'[s] = got[s]
  PROVE  UpToDateInv'
BY DEF UpToDateInv, AccountedFor, Alone, Evicted, Kept, fanoutVars

(* Who comes to the map is up to date with every reader.                   *)
LEMMA SubscribeUpToDate ==
  ASSUME IInv, UpToDateInv, NEW s \in SubscribeCalls, Subscribe(s)
  PROVE  UpToDateInv'
<1> DEFINE t == Topic[s]
<1>1. /\ UNCHANGED <<reader, hand, senders, survivors, original, alive>>
      /\ got' = [got EXCEPT ![s] = hand]
      /\ subscribers' = [subscribers EXCEPT ![t] = Append(subscribers[t], s)]
      /\ t \in Topics /\ pc[s] = "idle"
  BY DEF Subscribe, readerVars, fanoutVars, Topics
<1>2. /\ subscribers[t] \in Seq(SubscribeCalls)
      /\ IsInjective(subscribers[t])
      /\ ~Contains(subscribers[t], s)
  BY <1>1 DEF IInv, TypeOK, SendersInv
<1>3. \A y \in SubscribeCalls :
        Contains(Append(subscribers[t], s), y) <=>
          Contains(subscribers[t], y) \/ y = s
  BY <1>2, AppendList
<1>4. \A y \in SubscribeCalls :
        got'[y] = IF y = s THEN hand ELSE got[y]
  BY <1>1 DEF IInv, TypeOK
<1>5. \A r \in Readers, y \in SubscribeCalls :
        Contains(subscribers'[Topic[r]], y) =>
          Contains(subscribers[Topic[r]], y) \/ y = s
  BY <1>1, <1>3 DEF IInv, TypeOK, Readers, Topics
<1>6. ASSUME NEW r \in Readers, AccountedFor(r)
      PROVE  AccountedFor(r)'
  BY <1>1, <1>4, <1>5, <1>6 DEF AccountedFor, Evicted, Kept
<1> QED BY <1>1, <1>6 DEF UpToDateInv, Alone, Kept

(* A fan-out begins with everybody in the map still to be tried; another   *)
(* reader that begins one is no longer without samples.                    *)
LEMMA TakeUpToDate ==
  ASSUME IInv, UpToDateInv, NEW r \in Readers, Take(r)
  PROVE  UpToDateInv'
<1> DEFINE t == Topic[r]
<1>1. /\ UNCHANGED <<subscribers, alive, got>>
      /\ reader[r] = "draining" /\ unread[r] # 0
  BY DEF Take, mapVars
<1>2. CASE BeginFanout(r, unread[r])
  <2>1. /\ \A q \in Readers :
             /\ reader'[q] = IF q = r THEN "sending" ELSE reader[q]
             /\ hand'[q] = IF q = r THEN unread[r] ELSE hand[q]
             /\ q # r => /\ senders'[q] = senders[q]
                         /\ survivors'[q] = survivors[q]
                         /\ original'[q] = original[q]
        /\ senders'[r] = subscribers[t]
        /\ survivors'[r] = <<>>
        /\ original'[r] = Len(subscribers[t])
    BY <1>2 DEF BeginFanout, Becomes, IInv, TypeOK
  <2>2. /\ Kept(r)' <= original'[r]
        /\ \A s \in SubscribeCalls : ~Contains(survivors'[r], s)
    <3>1. Len(subscribers[t]) \in Nat
      BY DEF IInv, TypeOK, Readers, Topics
    <3> QED BY <2>1, <3>1, EmptyList DEF Kept
  <2>3. \A q \in Readers :
          reader'[q] = "sending" => hand'[q] # 0 /\ Kept(q)' <= original'[q]
    BY <1>1, <2>1, <2>2 DEF UpToDateInv, Kept
  <2>4. AccountedFor(r)'
    BY <1>1, <2>1, <2>2 DEF AccountedFor
  <2>5. ASSUME NEW q \in Readers, q # r, Alone(q)'
        PROVE  AccountedFor(q)'
    <3>1. Topic[q] # t
      BY <1>1, <2>1, <2>5 DEF Alone
    <3>2. Alone(q)
      BY <2>1, <2>5, <3>1 DEF Alone
    <3>3. AccountedFor(q)
      BY <3>2 DEF UpToDateInv
    <3> QED BY <1>1, <2>1, <2>5, <3>3 DEF AccountedFor, Evicted, Kept
  <2> QED BY <2>3, <2>4, <2>5 DEF UpToDateInv
<1>3. CASE UNCHANGED <<reader, fanoutVars>>
  BY <1>1, <1>3, UpToDateFrame
<1> QED BY <1>2, <1>3 DEF Take

(* The next sender is given the sample and survives, or is evicted.        *)
LEMMA TrySendUpToDate ==
  ASSUME IInv, UpToDateInv, NEW r \in Readers, TrySend(r)
  PROVE  UpToDateInv'
<1> DEFINE s == Head(senders[r])
<1>1. /\ UNCHANGED <<reader, hand, original, subscribers, alive>>
      /\ reader[r] = "sending" /\ senders[r] # <<>>
      /\ senders' = [senders EXCEPT ![r] = Tail(senders[r])]
  BY DEF TrySend, readerVars, IInv, TypeOK
<1>2. /\ senders[r] \in Seq(SubscribeCalls) /\ IsInjective(senders[r])
      /\ survivors[r] \in Seq(SubscribeCalls) /\ IsInjective(survivors[r])
      /\ original[r] \in Nat
  BY DEF IInv, TypeOK, SendersInv
<1>3. /\ s \in SubscribeCalls
      /\ \A y \in SubscribeCalls :
           Contains(Tail(senders[r]), y) <=> Contains(senders[r], y) /\ y # s
      /\ Contains(senders[r], s)
  BY <1>1, <1>2, TailList
<1>4. /\ Len(senders[r]) \in Nat /\ Len(survivors[r]) \in Nat
      /\ Len(Tail(senders[r])) = Len(senders[r]) - 1
  BY <1>1, <1>2
<1>5. \A q \in Readers :
        senders'[q] = IF q = r THEN Tail(senders[r]) ELSE senders[q]
  BY <1>1 DEF IInv, TypeOK
<1>6. CASE /\ got' = [got EXCEPT ![s][r] = hand[r]]
           /\ survivors' = [survivors EXCEPT ![r] = Append(survivors[r], s)]
  <2>1. /\ \A y \in SubscribeCalls :
             Contains(Append(survivors[r], s), y) <=>
               Contains(survivors[r], y) \/ y = s
        /\ Len(Append(survivors[r], s)) = Len(survivors[r]) + 1
    <3>1. ~Contains(survivors[r], s)
      BY <1>3 DEF IInv, SendersInv
    <3> QED BY <1>2, <1>3, <3>1, AppendList
  <2>2. \A q \in Readers :
          survivors'[q] = IF q = r THEN Append(survivors[r], s)
                          ELSE survivors[q]
    BY <1>6 DEF IInv, TypeOK
  <2>3. \A q \in Readers, y \in SubscribeCalls :
          got'[y][q] = IF y = s /\ q = r THEN hand[r] ELSE got[y][q]
    BY <1>3, <1>6 DEF IInv, TypeOK
  <2>4. Kept(r)' = Kept(r)
    <3>1. Len(senders'[r]) = Len(senders[r]) - 1
      BY <1>4, <1>5
    <3>2. Len(survivors'[r]) = Len(survivors[r]) + 1
      BY <2>1, <2>2
    <3> DEFINE a == Len(senders[r])
               b == Len(survivors[r])
               c == Len(senders'[r])
               d == Len(survivors'[r])
    <3>3. a \in Nat /\ b \in Nat /\ c = a - 1 /\ d = b + 1
      BY <1>4, <3>1, <3>2
    <3> HIDE DEF a, b, c, d
    <3>4. c + d = a + b
      BY <3>3
    <3> QED BY <3>4 DEF a, b, c, d, Kept
  <2>5. \A q \in Readers : Kept(q)' = Kept(q)
    BY <1>5, <2>2, <2>4 DEF Kept
  <2>6. \A q \in Readers :
          reader'[q] = "sending" => hand'[q] # 0 /\ Kept(q)' <= original'[q]
    BY <1>1, <2>5 DEF UpToDateInv
  <2>7. ASSUME NEW q \in Readers, AccountedFor(q)
        PROVE  AccountedFor(q)'
    <3>1. Evicted(q)' <=> Evicted(q)
      BY <1>1, <2>5 DEF Evicted
    <3>2. /\ \A y \in SubscribeCalls :
               Contains(survivors'[q], y) =>
                 Contains(survivors[q], y) \/ (y = s /\ q = r)
          /\ \A y \in SubscribeCalls :
               Contains(senders[q], y) =>
                 Contains(senders'[q], y) \/ (y = s /\ q = r)
      BY <1>3, <1>5, <2>1, <2>2
    <3> QED BY <1>1, <2>3, <2>7, <3>1, <3>2 DEF AccountedFor
  <2> QED BY <1>1, <2>6, <2>7 DEF UpToDateInv, Alone
<1>7. CASE UNCHANGED <<got, survivors>>
  <2>1. Len(senders'[r]) = Len(senders[r]) - 1
    BY <1>4, <1>5
  <2>2. Kept(r) \in Nat /\ Kept(r)' = Kept(r) - 1
    <3> DEFINE a == Len(senders[r])
               b == Len(survivors[r])
               c == Len(senders'[r])
    <3>1. a \in Nat /\ b \in Nat /\ c = a - 1 /\ survivors' = survivors
      BY <1>4, <1>7, <2>1
    <3>2. Kept(r) = a + b /\ Kept(r)' = c + b
      BY <3>1 DEF Kept
    <3> HIDE DEF a, b, c
    <3> QED BY <3>1, <3>2
  <2>3. Evicted(r)' /\ Kept(r)' <= original'[r]
    <3>1. Kept(r) <= original[r]
      BY <1>1 DEF UpToDateInv
    <3> QED BY <1>1, <1>2, <2>2, <3>1 DEF Evicted
  <2>4. \A q \in Readers :
          reader'[q] = "sending" => hand'[q] # 0 /\ Kept(q)' <= original'[q]
    BY <1>1, <1>5, <1>7, <2>3 DEF UpToDateInv, Kept
  <2>5. ASSUME NEW q \in Readers, AccountedFor(q)
        PROVE  AccountedFor(q)'
    <3>1. CASE q = r
      BY <1>1, <1>7, <2>3, <2>5, <3>1 DEF AccountedFor
    <3>2. CASE q # r
      BY <1>1, <1>5, <1>7, <2>5, <3>2 DEF AccountedFor, Evicted, Kept
    <3> QED BY <3>1, <3>2
  <2> QED BY <1>1, <2>5, <2>4 DEF UpToDateInv, Alone
<1> QED BY <1>6, <1>7 DEF TrySend, IInv, TypeOK

(* Survivors that replace the map have all been given the sample; when     *)
(* they do not replace it nobody was evicted.                              *)
LEMMA WriteBackUpToDate ==
  ASSUME IInv, UpToDateInv, NEW r \in Readers, WriteBack(r)
  PROVE  UpToDateInv'
<1> DEFINE t == Topic[r]
<1>1. /\ UNCHANGED <<hand, senders, alive, got>>
      /\ reader[r] = "sending" /\ senders[r] = <<>>
      /\ subscribers' = IF Len(survivors[r]) # original[r]
                        THEN [subscribers EXCEPT ![t] = survivors[r]]
                        ELSE subscribers
  BY DEF WriteBack
<1>2. \A q \in Readers :
        /\ reader'[q] = IF q = r THEN "draining" ELSE reader[q]
        /\ q # r => /\ survivors'[q] = survivors[q]
                    /\ original'[q] = original[q]
  BY DEF WriteBack, Becomes, IInv, TypeOK
<1>3. /\ Len(survivors[r]) \in Nat /\ original[r] \in Nat
      /\ t \in Topics
      /\ hand[r] # 0
      /\ Len(senders[r]) = 0
  BY <1>1 DEF IInv, TypeOK, UpToDateInv, Readers, Topics
<1>4. \A q \in Readers :
        reader'[q] = "sending" => hand'[q] # 0 /\ Kept(q)' <= original'[q]
  BY <1>1, <1>2 DEF UpToDateInv, Kept
<1>5. ASSUME AccountedFor(r)
      PROVE  AccountedFor(r)'
  <2>1. SUFFICES ASSUME NEW s \in SubscribeCalls, alive[s],
                        Contains(subscribers'[t], s)
                 PROVE  got[s][r] = hand[r]
    BY <1>1, <1>2 DEF AccountedFor
  <2>2. CASE Len(survivors[r]) # original[r]
    <3>1. subscribers'[t] = survivors[r]
      BY <1>1, <1>3, <2>2 DEF IInv, TypeOK
    <3> QED BY <1>1, <1>5, <2>1, <3>1 DEF AccountedFor
  <2>3. CASE Len(survivors[r]) = original[r]
    <3>1. subscribers' = subscribers /\ ~Evicted(r)
      <4>1. Kept(r) = original[r]
        BY <1>3, <2>3 DEF Kept
      <4>2. ~Evicted(r)
        BY <1>3, <4>1 DEF Evicted
      <4>3. subscribers' = subscribers
        BY <1>1, <2>3
      <4> QED BY <4>2, <4>3
    <3>2. ~Contains(senders[r], s)
      BY <1>1, EmptyList
    <3> QED BY <1>5, <2>1, <3>1, <3>2 DEF AccountedFor
  <2> QED BY <2>2, <2>3
<1>6. ASSUME NEW q \in Readers, q # r, Alone(q)'
      PROVE  AccountedFor(q)'
  <2>1. Topic[q] # t
    BY <1>1, <1>3, <1>6 DEF Alone
  <2>2. AccountedFor(q)
    BY <1>1, <1>6 DEF Alone, UpToDateInv
  <2>3. subscribers'[Topic[q]] = subscribers[Topic[q]]
    BY <1>1, <1>3, <2>1 DEF IInv, TypeOK, Readers, Topics
  <2> QED BY <1>1, <1>2, <1>6, <2>2, <2>3 DEF AccountedFor, Evicted, Kept
<1>7. Alone(r)' => AccountedFor(r)
  BY <1>1 DEF Alone, UpToDateInv
<1> QED BY <1>4, <1>5, <1>6, <1>7 DEF UpToDateInv

(* Calls other than the first step of subscribe() leave the map alone.     *)
LEMMA GivesUpUpToDate ==
  ASSUME IInv, UpToDateInv, NEW x \in Calls, GivesUp(x),
         UNCHANGED <<reader, fanoutVars>>
  PROVE  UpToDateInv'
<1>1. CASE x \in SubscribeCalls /\ DropReceiver(x)
  <2>1. /\ subscribers' = subscribers
        /\ \A s \in SubscribeCalls : alive'[s] => alive[s] /\ got'[s] = got[s]
    BY <1>1 DEF DropReceiver, IInv, TypeOK
  <2> QED BY <2>1, UpToDateFrame
<1>2. CASE UNCHANGED mapVars
  BY <1>2, UpToDateFrame DEF mapVars
<1> QED BY <1>1, <1>2 DEF GivesUp

(* A handle that is dropped is no concern any more.                        *)
LEMMA DropHandleUpToDate ==
  ASSUME IInv, UpToDateInv, NEW s \in SubscribeCalls, DropHandle(s)
  PROVE  UpToDateInv'
<1>1. /\ UNCHANGED <<reader, fanoutVars, subscribers>>
      /\ \A y \in SubscribeCalls : alive'[y] => alive[y] /\ got'[y] = got[y]
  BY DEF DropHandle, DropReceiver, readerVars, IInv, TypeOK
<1> QED BY <1>1, UpToDateFrame

(* The call that sends its command, or cannot, or is never answered.       *)
LEMMA CallUpToDate ==
  ASSUME IInv, UpToDateInv, NEW x \in Calls,
         \/ SendCommand(x)
         \/ Orphaned(x)
         \/ Join(x)
         \/ JoinReturns(x)
  PROVE  UpToDateInv'
<1>1. CASE GivesUp(x) /\ UNCHANGED <<readerVars, fanoutVars>>
  BY <1>1, GivesUpUpToDate DEF readerVars
<1>2. CASE UNCHANGED <<readerVars, fanoutVars, mapVars>>
  BY <1>2, UpToDateFrame DEF readerVars, mapVars
<1> QED BY <1>1, <1>2 DEF SendCommand, Orphaned, Join, JoinReturns

(* A step of the actor, which makes readers but hands nothing on.          *)
LEMMA ActorUpToDate ==
  ASSUME IInv, UpToDateInv, ActorStep \/ Write \/ Abandon
  PROVE  UpToDateInv'
<1>1. CASE UNCHANGED <<readerVars, fanoutVars, mapVars>>
  BY <1>1, UpToDateFrame DEF readerVars, mapVars
<1>2. ASSUME NEW s \in SubscribeCalls, ServeSubscribe(s)
      PROVE  UpToDateInv'
  <2>1. CASE /\ reader' = [reader EXCEPT ![s] = "waiting"]
             /\ UNCHANGED mapVars
    <3>1. reader[s] # "sending"
      <4>1. pc[s] = "sent"
        <5>1. Head(commands) = s /\ commands # <<>>
          BY <1>2 DEF ServeSubscribe, Serve
        <5>2. Contains(commands, s)
          BY <5>1 DEF IInv, TypeOK, Contains
        <5> QED BY <5>2 DEF IInv, CallsInv, Calls
      <4> QED BY <4>1 DEF IInv, CallsInv
    <3>2. \A r \in Readers : reader'[r] = "sending" <=> reader[r] = "sending"
      BY <2>1, <3>1 DEF IInv, TypeOK
    <3>3. UNCHANGED <<fanoutVars, subscribers, alive, got>>
      BY <1>2, <2>1 DEF ServeSubscribe, mapVars
    <3> QED BY <3>2, <3>3, UpToDateFrame
  <2>2. CASE GivesUp(s) /\ UNCHANGED reader
    BY <1>2, <2>2, GivesUpUpToDate DEF ServeSubscribe, Calls
  <2> QED BY <1>2, <2>1, <2>2 DEF ServeSubscribe
<1> QED
  BY <1>1, <1>2 DEF ActorStep, ServePublish, MatchFails, ServeClose, Stop,
           Write, Abandon

(* A reader that is not handing on a sample, and will not with this step.  *)
LEMMA IdleReaderUpToDate ==
  ASSUME IInv, UpToDateInv, NEW r \in Readers,
         \/ Arrive(r)
         \/ Wake(r)
         \/ Drained(r)
         \/ ShutDown(r)
         \/ WaitFails(r)
  PROVE  UpToDateInv'
<1>1. /\ UNCHANGED <<fanoutVars, mapVars>>
      /\ \/ UNCHANGED reader
         \/ /\ reader[r] # "sending"
            /\ \E place \in {"waiting", "draining", "ended"} :
                 reader' = [reader EXCEPT ![r] = place]
  BY DEF Arrive, Wake, Drained, ShutDown, WaitFails, Ends, Becomes
<1>2. \A q \in Readers : reader'[q] = "sending" <=> reader[q] = "sending"
  BY <1>1 DEF IInv, TypeOK
<1> QED BY <1>1, <1>2, UpToDateFrame DEF mapVars

(* Every step preserves the second invariant.                              *)
LEMMA StepUpToDate == IInv /\ UpToDateInv /\ [Next]_vars => UpToDateInv'
<1> SUFFICES ASSUME IInv, UpToDateInv, [Next]_vars PROVE UpToDateInv'
  OBVIOUS
<1>1. CASE \E s \in SubscribeCalls : Subscribe(s) \/ DropHandle(s)
  BY <1>1, SubscribeUpToDate, DropHandleUpToDate
<1>2. CASE \E s \in SubscribeCalls : Receive(s)
  BY <1>2, UpToDateFrame DEF Receive, readerVars
<1>3. CASE \E x \in PublishCalls \cup CloseCalls : SendCommand(x)
  BY <1>3, CallUpToDate DEF Calls
<1>4. CASE \E x \in Calls : CallStep(x)
  BY <1>4, CallUpToDate DEF CallStep
<1>5. CASE ActorStep \/ Write \/ Abandon
  BY <1>5, ActorUpToDate
<1>6. CASE \E r \in Readers : Arrive(r) \/ ReaderStep(r) \/ WaitFails(r)
  BY <1>6, IdleReaderUpToDate, TakeUpToDate, TrySendUpToDate, WriteBackUpToDate
  DEF ReaderStep
<1>7. CASE \E t \in Topics : RemoteWrite(t)
  BY <1>7, UpToDateFrame DEF RemoteWrite, readerVars, mapVars
<1>8. CASE UNCHANGED vars
  BY <1>8, UpToDateFrame DEF vars, readerVars, mapVars
<1> QED BY <1>1, <1>2, <1>3, <1>4, <1>5, <1>6, <1>7, <1>8 DEF Next

(* handle_incoming() evicts every subscriber that misses a sample, as long *)
(* as one reader alone has handed on samples of its topic: who is in the   *)
(* map between its fan-outs and keeps the handle has been given the last.  *)
THEOREM RegisteredIsUpToDateTheorem == Spec => []RegisteredIsUpToDate
<1>1. UpToDateInv => RegisteredIsUpToDate
  BY DEF UpToDateInv, RegisteredIsUpToDate, Alone, AccountedFor
<1>2. Spec => []UpToDateInv
  BY InitUpToDate, StepUpToDate, Invariance, PTL DEF Spec, Safety
<1> QED BY <1>1, <1>2, PTL
=============================================================================

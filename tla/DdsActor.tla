------------------------------ MODULE DdsActor ------------------------------
(***************************************************************************)
(* The DDS transport (src/transport/dds/dust_dds.rs): publish(),           *)
(* subscribe() and close() send commands to an actor that owns the domain  *)
(* participant and the writers.  Every subscribe() makes a reader of its   *)
(* own and a task that takes the reader's samples and hands them to all    *)
(* local subscribers of the topic, so the readers of one topic fan out     *)
(* side by side.                                                           *)
(*                                                                         *)
(* A reader keeps the last sample only: one that is not taken in time is   *)
(* replaced by the next.                                                   *)
(***************************************************************************)
EXTENDS Naturals, Sequences, SequencesExt

CONSTANTS
  PublishCalls, SubscribeCalls, CloseCalls, \* the calls of the trait's methods
  Topic,       \* Topic[x]: of publish() or subscribe() call x
  Capacity,    \* of an inbox: mpsc::channel(16)
  MaxRemote,   \* bound: samples from elsewhere on each topic
  None

Calls == PublishCalls \cup SubscribeCalls \cup CloseCalls
Topics == {Topic[x] : x \in PublishCalls \cup SubscribeCalls}

(* The reader that subscribe() call s makes goes by the name of s.         *)
Readers == SubscribeCalls

ASSUME CallsAssumption ==
  /\ PublishCalls \cap SubscribeCalls = {}
  /\ CloseCalls \cap (PublishCalls \cup SubscribeCalls) = {}
  /\ None \notin Calls
ASSUME SizeAssumption == Capacity \in Nat \ {0} /\ MaxRemote \in Nat

VARIABLES
  pc,        \* pc[x]: where call x stands
  commands,  \* the actor's command channel
  actor,     \* what the actor task is doing
  current,   \* the publish() it is busy with
  handle,    \* the actor's JoinHandle: "kept" in tasks or "taken"
  joiner,    \* the close() that awaits it, with the lock of tasks held
  writers,   \* topics that have a DataWriter
  samples,   \* samples[t]: how many were written on t, by us or elsewhere
  reader,    \* reader[r]: what r's task is doing
  arrived,   \* arrived[r]: the last sample that came to r
  unread,    \* unread[r]: the sample it holds, or 0
  hand,      \* hand[r]: the one its task is handing on
  senders, survivors, original, \* of that fan-out, as in Fanout
  subscribers, \* subscribers[t]: the senders stored under topic t
  inbox,     \* inbox[s]: how many messages wait for s
  alive,     \* alive[s]: its receiver has not been dropped
  got        \* history: got[s][r]: the last sample that r handed to s, or
             \* was handing on when s came

callVars == <<pc, commands>>
closeVars == <<actor, current, handle, joiner>>
ddsVars == <<writers, samples>>
readerVars == <<reader, arrived, unread>>
fanoutVars == <<hand, senders, survivors, original>>
mapVars == <<subscribers, inbox, alive, got>>
vars == <<callVars, closeVars, ddsVars, readerVars, fanoutVars, mapVars>>

Init ==
  /\ pc = [x \in Calls |-> "idle"]
  /\ commands = <<>>
  /\ actor = "receiving"
  /\ current = None
  /\ handle = "kept"
  /\ joiner = None
  /\ writers = {}
  /\ samples = [t \in Topics |-> 0]
  /\ reader = [r \in Readers |-> "absent"]
  /\ arrived = [r \in Readers |-> 0]
  /\ unread = [r \in Readers |-> 0]
  /\ hand = [r \in Readers |-> 0]
  /\ senders = [r \in Readers |-> <<>>]
  /\ survivors = [r \in Readers |-> <<>>]
  /\ original = [r \in Readers |-> 0]
  /\ subscribers = [t \in Topics |-> <<>>]
  /\ inbox = [s \in SubscribeCalls |-> 0]
  /\ alive = [s \in SubscribeCalls |-> TRUE]
  /\ got = [s \in SubscribeCalls |-> [r \in Readers |-> 0]]

-----------------------------------------------------------------------------
(* The callers.                                                            *)

Goes(x, place) == pc' = [pc EXCEPT ![x] = place]

(* subscribe() enters its sender in the map, before its reader exists.     *)
Subscribe(s) ==
  /\ pc[s] = "idle"
  /\ Goes(s, "registered")
  /\ subscribers' = [subscribers EXCEPT ![Topic[s]] = Append(@, s)]
  /\ got' = [got EXCEPT ![s] = hand]
  /\ UNCHANGED <<commands, closeVars, ddsVars, readerVars, fanoutVars, inbox,
                 alive>>

DropReceiver(s) ==
  /\ alive' = [alive EXCEPT ![s] = FALSE]
  /\ inbox' = [inbox EXCEPT ![s] = 0]
  /\ got' = [got EXCEPT ![s] = [r \in Readers |-> 0]]
  /\ UNCHANGED subscribers

(* A call finds the channel closed or its responder dropped.  close() goes *)
(* on; others fail, and the receiver that a subscribe() made is dropped.   *)
GivesUp(x) ==
  \/ x \in CloseCalls /\ Goes(x, "joining") /\ UNCHANGED mapVars
  \/ x \in PublishCalls /\ Goes(x, "error") /\ UNCHANGED mapVars
  \/ x \in SubscribeCalls /\ Goes(x, "error") /\ DropReceiver(x)

(* The channel takes commands until the actor's task has ended.            *)
SendCommand(x) ==
  /\ pc[x] = IF x \in SubscribeCalls THEN "registered" ELSE "idle"
  /\ \/ /\ actor # "stopped"
        /\ commands' = Append(commands, x)
        /\ Goes(x, "sent")
        /\ UNCHANGED mapVars
     \/ actor = "stopped" /\ GivesUp(x) /\ UNCHANGED commands
  /\ UNCHANGED <<closeVars, ddsVars, readerVars, fanoutVars>>

(* The actor has ended with the command of x unserved.                     *)
Orphaned(x) ==
  /\ pc[x] = "sent"
  /\ actor = "stopped"
  /\ GivesUp(x)
  /\ UNCHANGED <<commands, closeVars, ddsVars, readerVars, fanoutVars>>

(* An answered close() locks tasks and awaits the handle it finds there.   *)
(* It may find none: a task that create() spawns brings the handle there.  *)
Join(c) ==
  /\ pc[c] = "joining" /\ joiner = None
  /\ \/ handle = "kept" /\ handle' = "taken" /\ joiner' = c /\ UNCHANGED pc
     \/ Goes(c, "ok") /\ UNCHANGED <<handle, joiner>>
  /\ UNCHANGED <<commands, actor, current, ddsVars, readerVars, fanoutVars,
                 mapVars>>

JoinReturns(c) ==
  /\ joiner = c
  /\ actor = "stopped"
  /\ joiner' = None
  /\ Goes(c, "ok")
  /\ UNCHANGED <<commands, actor, current, handle, ddsVars, readerVars,
                 fanoutVars, mapVars>>

-----------------------------------------------------------------------------
(* The actor.                                                              *)

Serve(x) ==
  /\ actor = "receiving"
  /\ commands # <<>> /\ Head(commands) = x
  /\ commands' = Tail(commands)

(* publish() logs the actor's answer and returns Ok, whatever it is.       *)
Answered(p) ==
  /\ actor' = "receiving"
  /\ current' = None
  /\ Goes(p, "ok")

(* The first publish on a topic makes a writer, which can fail.  Then the  *)
(* actor turns to matching, whether it has to wait or not.                 *)
ServePublish(p) ==
  /\ Serve(p)
  /\ \/ /\ writers' = writers \cup {Topic[p]}
        /\ actor' = "matching"
        /\ current' = p
        /\ UNCHANGED pc
     \/ /\ Topic[p] \notin writers
        /\ Answered(p)
        /\ UNCHANGED writers
  /\ UNCHANGED <<handle, joiner, samples, readerVars, fanoutVars,
                 mapVars>>

(* A wait without the limit of five seconds.                               *)
MatchFails_never == actor = "matching" /\ FALSE /\ UNCHANGED vars

(* Five seconds pass, the reader that woke us is gone, or a status cannot  *)
(* be read.  Until then the actor serves nothing else.                     *)
MatchFails ==
  /\ actor = "matching"
  /\ Answered(current)
  /\ UNCHANGED <<commands, handle, joiner, ddsVars, readerVars, fanoutVars,
                 mapVars>>

(* A reader, here or elsewhere, has matched the writer.  The sample is     *)
(* written, or that fails.                                                 *)
Write ==
  /\ actor = "matching"
  /\ Answered(current)
  /\ \/ samples' = [samples EXCEPT ![Topic[current]] = @ + 1]
     \/ UNCHANGED samples
  /\ UNCHANGED <<commands, handle, joiner, writers, readerVars, fanoutVars,
                 mapVars>>

(* A reader and its task are made; any of the calls that takes can fail.   *)
(* The durability is volatile: earlier samples do not come to it.          *)
ServeSubscribe(s) ==
  /\ Serve(s)
  /\ \/ /\ reader' = [reader EXCEPT ![s] = "waiting"]
        /\ arrived' = [arrived EXCEPT ![s] = samples[Topic[s]]]
        /\ Goes(s, "ok")
        /\ UNCHANGED mapVars
     \/ GivesUp(s) /\ UNCHANGED <<reader, arrived>>
  /\ UNCHANGED <<closeVars, ddsVars, unread, fanoutVars>>

(* Close is answered, and the readers are told to stop.                    *)
ServeClose(c) ==
  /\ Serve(c)
  /\ Goes(c, "joining")
  /\ actor' = "closing"
  /\ UNCHANGED <<current, handle, joiner, ddsVars, readerVars, fanoutVars,
                 mapVars>>

(* The transport is dropped, which ends the channel.  Calls borrow the     *)
(* transport, so none is under way and none will begin.                    *)
Abandon ==
  /\ actor = "receiving"
  /\ commands = <<>>
  /\ \A x \in Calls : pc[x] \in {"idle", "ok", "error"}
  /\ pc' = [x \in Calls |-> IF pc[x] = "idle" THEN "never" ELSE pc[x]]
  /\ actor' = "closing"
  /\ UNCHANGED <<commands, current, handle, joiner, ddsVars, readerVars,
                 fanoutVars, mapVars>>

Ended(r) == reader[r] \in {"absent", "ended"}

(* The actor's task that does not await the tasks of its readers.          *)
Stop_detached ==
  /\ actor = "closing"
  /\ actor' = "stopped"
  /\ commands' = <<>>
  /\ UNCHANGED <<pc, current, handle, joiner, ddsVars, readerVars, fanoutVars,
                 mapVars>>

(* All tasks have ended: the actor's ends too, and with it the channel and *)
(* the commands that are in it.                                            *)
Stop ==
  /\ actor = "closing"
  /\ \A r \in Readers : Ended(r)
  /\ actor' = "stopped"
  /\ commands' = <<>>
  /\ UNCHANGED <<pc, current, handle, joiner, ddsVars, readerVars, fanoutVars,
                 mapVars>>

-----------------------------------------------------------------------------
(* The task of reader r.                                                   *)

Becomes(r, place) == reader' = [reader EXCEPT ![r] = place]

(* Its task ends, and the reader goes with what it holds.                  *)
Ends(r) ==
  /\ Becomes(r, "ended")
  /\ arrived' = [arrived EXCEPT ![r] = 0]
  /\ unread' = [unread EXCEPT ![r] = 0]
  /\ UNCHANGED <<callVars, closeVars, ddsVars, fanoutVars, mapVars>>

(* A sample comes to the reader and replaces the one it holds.  One may    *)
(* already have been replaced on the way, in the history of its writer.    *)
Arrive(r) ==
  /\ ~Ended(r)
  /\ \E n \in arrived[r] + 1 .. samples[Topic[r]] :
        /\ arrived' = [arrived EXCEPT ![r] = n]
        /\ unread' = [unread EXCEPT ![r] = n]
  /\ UNCHANGED <<callVars, closeVars, ddsVars, reader, fanoutVars, mapVars>>

(* The select! of run_topic_reader(): data is available, or the shutdown   *)
(* is seen.                                                                *)
Wake(r) ==
  /\ reader[r] = "waiting"
  /\ unread[r] # 0
  /\ Becomes(r, "draining")
  /\ UNCHANGED <<callVars, closeVars, ddsVars, arrived, unread, fanoutVars,
                 mapVars>>

ShutDown(r) ==
  /\ reader[r] = "waiting"
  /\ actor = "closing"
  /\ Ends(r)

(* The wait set cannot be prepared, or the wait fails.                     *)
WaitFails(r) ==
  /\ reader[r] = "waiting"
  /\ Ends(r)

(* The senders of the topic are copied for a sample that decodes.          *)
BeginFanout(r, sample) ==
  /\ Becomes(r, "sending")
  /\ hand' = [hand EXCEPT ![r] = sample]
  /\ senders' = [senders EXCEPT ![r] = subscribers[Topic[r]]]
  /\ survivors' = [survivors EXCEPT ![r] = <<>>]
  /\ original' = [original EXCEPT ![r] = Len(subscribers[Topic[r]])]

(* A sample that is read and not taken.                                    *)
Take_rereads(r) ==
  /\ reader[r] = "draining"
  /\ unread[r] # 0
  /\ \/ BeginFanout(r, unread[r])
     \/ UNCHANGED <<reader, fanoutVars>>
  /\ UNCHANGED <<callVars, closeVars, ddsVars, arrived, unread, mapVars>>

(* drain_reader() takes a sample; one that does not decode is skipped.     *)
(* When take() fails the sample stays and wakes the task again.            *)
Take(r) ==
  /\ reader[r] = "draining"
  /\ unread[r] # 0
  /\ unread' = [unread EXCEPT ![r] = 0]
  /\ \/ BeginFanout(r, unread[r])
     \/ UNCHANGED <<reader, fanoutVars>>
  /\ UNCHANGED <<callVars, closeVars, ddsVars, arrived, mapVars>>

(* NoData: back to waiting.                                                *)
Drained(r) ==
  /\ reader[r] = "draining"
  /\ unread[r] = 0
  /\ Becomes(r, "waiting")
  /\ UNCHANGED <<callVars, closeVars, ddsVars, arrived, unread, fanoutVars,
                 mapVars>>

Accepts_overfull(s) == alive[s]
Accepts(s) == alive[s] /\ inbox[s] < Capacity

(* A full inbox keeps its place in the map without the message.            *)
TrySend_keepsSlow(r) ==
  /\ reader[r] = "sending" /\ senders[r] # <<>>
  /\ LET s == Head(senders[r]) IN
       /\ survivors' = IF alive[s] THEN [survivors EXCEPT ![r] = Append(@, s)]
                       ELSE survivors
       /\ IF Accepts(s)
          THEN /\ inbox' = [inbox EXCEPT ![s] = @ + 1]
               /\ got' = [got EXCEPT ![s][r] = hand[r]]
          ELSE UNCHANGED <<inbox, got>>
  /\ senders' = [senders EXCEPT ![r] = Tail(@)]
  /\ UNCHANGED <<callVars, closeVars, ddsVars, readerVars, hand, original,
                 subscribers, alive>>

(* handle_incoming(): the next of the copied senders takes the message and *)
(* survives, or does neither.                                              *)
TrySend(r) ==
  /\ reader[r] = "sending" /\ senders[r] # <<>>
  /\ LET s == Head(senders[r]) IN
       \/ /\ Accepts(s)
          /\ inbox' = [inbox EXCEPT ![s] = @ + 1]
          /\ got' = [got EXCEPT ![s][r] = hand[r]]
          /\ survivors' = [survivors EXCEPT ![r] = Append(@, s)]
       \/ ~Accepts(s) /\ UNCHANGED <<inbox, got, survivors>>
  /\ senders' = [senders EXCEPT ![r] = Tail(@)]
  /\ UNCHANGED <<callVars, closeVars, ddsVars, readerVars, hand, original,
                 subscribers, alive>>

(* The survivors replace what the map now holds, also what the task of     *)
(* another reader of the topic has written there.                          *)
WriteBack(r) ==
  /\ reader[r] = "sending" /\ senders[r] = <<>>
  /\ subscribers' = IF Len(survivors[r]) # original[r]
                    THEN [subscribers EXCEPT ![Topic[r]] = survivors[r]]
                    ELSE subscribers
  /\ survivors' = [survivors EXCEPT ![r] = <<>>]
  /\ original' = [original EXCEPT ![r] = 0]
  /\ Becomes(r, "draining")
  /\ UNCHANGED <<callVars, closeVars, ddsVars, arrived, unread, hand, senders,
                 inbox, alive, got>>

-----------------------------------------------------------------------------
(* The owners of handles, and the other participants.                      *)

Receive(s) ==
  /\ pc[s] = "ok" /\ alive[s]
  /\ inbox[s] > 0
  /\ inbox' = [inbox EXCEPT ![s] = @ - 1]
  /\ UNCHANGED <<callVars, closeVars, ddsVars, readerVars, fanoutVars,
                 subscribers, alive, got>>

DropHandle(s) ==
  /\ pc[s] = "ok" /\ alive[s]
  /\ DropReceiver(s)
  /\ UNCHANGED <<callVars, closeVars, ddsVars, readerVars, fanoutVars>>

RemoteWrite(t) ==
  /\ samples[t] < MaxRemote
  /\ samples' = [samples EXCEPT ![t] = @ + 1]
  /\ UNCHANGED <<callVars, closeVars, writers, readerVars, fanoutVars,
                 mapVars>>

-----------------------------------------------------------------------------
ActorStep ==
  \/ \E p \in PublishCalls : ServePublish(p)
  \/ MatchFails
  \/ \E s \in SubscribeCalls : ServeSubscribe(s)
  \/ \E c \in CloseCalls : ServeClose(c)
  \/ Stop

ReaderStep(r) ==
  \/ Wake(r) \/ ShutDown(r)
  \/ Take(r) \/ TrySend(r) \/ WriteBack(r) \/ Drained(r)

CallStep(x) ==
  \/ x \in SubscribeCalls /\ SendCommand(x)
  \/ Orphaned(x)
  \/ x \in CloseCalls /\ (Join(x) \/ JoinReturns(x))

Next ==
  \/ \E s \in SubscribeCalls : Subscribe(s) \/ Receive(s) \/ DropHandle(s)
  \/ \E x \in PublishCalls \cup CloseCalls : SendCommand(x)
  \/ \E x \in Calls : CallStep(x)
  \/ ActorStep
  \/ Write
  \/ Abandon
  \/ \E r \in Readers : Arrive(r) \/ ReaderStep(r) \/ WaitFails(r)
  \/ \E t \in Topics : RemoteWrite(t)

(* What is under way: calls that have begun, the actor and its timer, the  *)
(* tasks of the readers.  No reader need ever match, so Write is not there.*)
Progress ==
  \/ \E x \in Calls : CallStep(x)
  \/ ActorStep
  \/ \E r \in Readers : ReaderStep(r)

(* While something under way can go on, something does.  That is enough:   *)
(* finitely many calls and samples leave nobody to starve the others.      *)
Fairness == WF_vars(Progress)

Safety == Init /\ [][Next]_vars
Spec == Safety /\ Fairness

-----------------------------------------------------------------------------
(* Types of the calls, the actor, the readers and the map.                 *)
TypeOK ==
  /\ pc \in [Calls -> {"idle", "registered", "sent", "joining", "ok", "error",
                       "never"}]
  /\ commands \in Seq(Calls)
  /\ actor \in {"receiving", "matching", "closing", "stopped"}
  /\ current \in PublishCalls \cup {None}
  /\ handle \in {"kept", "taken"}
  /\ joiner \in CloseCalls \cup {None}
  /\ writers \subseteq Topics
  /\ samples \in [Topics -> Nat]
  /\ reader \in [Readers -> {"absent", "waiting", "draining", "sending",
                             "ended"}]
  /\ arrived \in [Readers -> Nat]
  /\ unread \in [Readers -> Nat]
  /\ hand \in [Readers -> Nat]
  /\ senders \in [Readers -> Seq(SubscribeCalls)]
  /\ survivors \in [Readers -> Seq(SubscribeCalls)]
  /\ original \in [Readers -> Nat]
  /\ subscribers \in [Topics -> Seq(SubscribeCalls)]
  /\ inbox \in [SubscribeCalls -> 0 .. Capacity]
  /\ alive \in [SubscribeCalls -> BOOLEAN]
  /\ got \in [SubscribeCalls -> [Readers -> Nat]]

(* However many readers a topic has, each hands a sample to a subscriber   *)
(* at most once, and never an older one after a newer: a subscriber gets   *)
(* at most as many copies as there are readers.                            *)
OncePerReader ==
  \A r \in Readers, s \in SubscribeCalls :
    Contains(senders[r], s) => got[s][r] < hand[r]

(* As long as one reader only has handed on samples of the topic, whoever  *)
(* is in the map between its fan-outs and keeps the handle has been given  *)
(* the last of them, or came after it: nobody stays registered who missed  *)
(* one.  With two readers that is lost: the write-back of one brings back  *)
(* a subscriber that the other has evicted.                                *)
RegisteredIsUpToDate ==
  \A r \in Readers :
    /\ reader[r] # "sending"
    /\ \A q \in Readers \ {r} : Topic[q] = Topic[r] => hand[q] = 0
    => \A s \in SubscribeCalls :
         alive[s] /\ Contains(subscribers[Topic[r]], s) => got[s][r] = hand[r]

(* When the close() that found the actor's handle has returned, no task    *)
(* is left to hand on a sample, and the actor is gone.                     *)
ClosedMeansEnded ==
  handle = "taken" /\ joiner = None =>
    actor = "stopped" /\ \A r \in Readers : Ended(r)

(* Every call returns, also behind a publish() that waits for a reader to  *)
(* match and behind a Close that waits for readers that are draining; and  *)
(* no reader is left with a sample that its task does not take.            *)
EverythingSettles ==
  <>[](/\ \A x \in Calls : pc[x] \in {"idle", "ok", "error", "never"}
       /\ \A r \in Readers :
            \/ Ended(r)
            \/ reader[r] = "waiting" /\ unread[r] = 0)
=============================================================================

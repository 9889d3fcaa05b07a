------------------------ MODULE BrokerLifecycleProofs ------------------------
(***************************************************************************)
(* Theorems about BrokerLifecycle, for any number of clones.               *)
(***************************************************************************)
EXTENDS BrokerLifecycle, TLAPS

(* The mode that build() infers is that of the queues asked for: a task is *)
(* started exactly for these.                                              *)
LEMMA TasksFitQueues ==
  ASSUME builder \in TransportBuilder, Accepted(builder), NEW k \in Tasks
  PROVE  StartsTask(k) <=> TaskQueue[k] \in QueuesOf(builder)
<1> DEFINE queues == QueuesOf(builder)
<1>1. /\ builder.sugar \subseteq DOMAIN Sugar
      /\ builder.queues \subseteq {"request", "response"}
  BY DEF TransportBuilder
<1>2. queues \subseteq {"request", "response"} /\ queues # {}
  BY <1>1 DEF Accepted, QueuesOf, Sugar
<1>3. queues \in {{"request"}, {"response"}, {"request", "response"}}
  BY <1>2
<1> QED BY <1>3 DEF StartsTask, Runs, mode, ModeOf, Tasks, TaskQueue

LEMMA InitIInv == Init => IInv
BY LifecycleAssumption, TasksFitQueues
DEF Init, IInv, TypeOK, ReceiverIsTakenOnce, OneRunWaits, Tasks

(* Cloning, dropping and the calls of shutdown() move handles among states *)
(* in which nobody waits in run() or has come back from it.                *)
LEMMA HandlesElsewhere ==
  ASSUME IInv, NEW h \in Handles, NEW s \in {"live", "closing", "dropped"},
         handle[h] \in {"none", "live", "closing"}, Becomes(h, s),
         UNCHANGED shutdown_rx, shutdown_tx' \in {shutdown_tx, "sent"}
  PROVE  ReceiverIsTakenOnce' /\ OneRunWaits'
BY DEF IInv, TypeOK, ReceiverIsTakenOnce, OneRunWaits, Becomes

(* A run() either takes the receiver and waits, or finds it taken.         *)
LEMMA RunKeeps ==
  ASSUME IInv, NEW h \in Handles, Run(h)
  PROVE  IInv'
<1>1. TypeOK'
  BY DEF IInv, TypeOK, Run, Becomes, settings
<1>2. CASE shutdown_rx = "held"
  BY <1>1, <1>2
     DEF IInv, TypeOK, ReceiverIsTakenOnce, OneRunWaits, Run, Becomes
<1>3. CASE shutdown_rx # "held"
  BY <1>1, <1>3
     DEF IInv, TypeOK, ReceiverIsTakenOnce, OneRunWaits, Run, Becomes
<1> QED BY <1>2, <1>3

(* A waiting run() ends: after the signal, or because it is dropped.       *)
LEMMA RunEndKeeps ==
  ASSUME IInv, NEW h \in Handles, RunReturns(h) \/ Abort(h)
  PROVE  IInv'
<1>1. TypeOK'
  BY DEF IInv, TypeOK, RunReturns, Abort, Becomes, settings
<1>2. ReceiverIsTakenOnce' /\ OneRunWaits'
  BY
     DEF IInv, TypeOK, ReceiverIsTakenOnce, OneRunWaits, RunReturns, Abort,
         Becomes
<1> QED BY <1>1, <1>2 DEF IInv

(* The receiver tasks do not touch what run() and shutdown() share.        *)
LEMMA TasksKeep ==
  ASSUME IInv, NEW k \in Tasks, TaskSubscribes(k) \/ TaskEnds(k)
  PROVE  IInv'
<1>1. UNCHANGED <<settings, handle, shutdown_tx, shutdown_rx, closed>>
  BY DEF TaskSubscribes, TaskEnds
<1>2. /\ task' \in [Tasks -> {"absent", "subscribing", "receiving", "ended"}]
      /\ task[k] # "absent"
      /\ \A j \in Tasks : task'[j] = "absent" <=> task[j] = "absent"
  BY DEF IInv, TypeOK, TaskSubscribes, TaskEnds
<1>3. \A j \in open' : j \in Tasks /\ task[j] # "absent"
  BY <1>2 DEF IInv, TypeOK, TaskSubscribes, TaskEnds
<1>4. TypeOK'
  BY <1>1, <1>2, <1>3
     DEF IInv, TypeOK, settings
<1> QED BY <1>1, <1>4 DEF IInv, ReceiverIsTakenOnce, OneRunWaits

LEMMA StepIInv == IInv /\ [Next]_vars => IInv'
<1> SUFFICES ASSUME IInv, [Next]_vars PROVE IInv'
  OBVIOUS
<1>1. ASSUME NEW g \in Handles, NEW h \in Handles, Clone(g, h) PROVE IInv'
  <2>1. TypeOK'
    BY <1>1 DEF IInv, TypeOK, Clone, Becomes, settings
  <2> QED BY <1>1, <2>1, HandlesElsewhere DEF IInv, Clone
<1>2. ASSUME NEW h \in Handles, Drop(h) PROVE IInv'
  <2>1. TypeOK'
    BY <1>2 DEF IInv, TypeOK, Drop, Becomes, settings
  <2> QED BY <1>2, <2>1, HandlesElsewhere DEF IInv, Drop
<1>3. ASSUME NEW h \in Handles, Signal(h) PROVE IInv'
  <2>1. TypeOK'
    BY <1>3 DEF IInv, TypeOK, Signal, Becomes, settings
  <2> QED BY <1>3, <2>1, HandlesElsewhere DEF IInv, Signal
<1>4. ASSUME NEW h \in Handles, Close(h) PROVE IInv'
  <2>1. TypeOK'
    BY <1>4 DEF IInv, TypeOK, Close, Becomes, settings
  <2> QED BY <1>4, <2>1, HandlesElsewhere DEF IInv, Close
<1>5. CASE UNCHANGED vars
  BY <1>5 DEF vars, settings, IInv, TypeOK, ReceiverIsTakenOnce, OneRunWaits
<1> QED
  BY <1>1, <1>2, <1>3, <1>4, <1>5, RunKeeps, RunEndKeeps, TasksKeep DEF Next

(* In every reachable state the receiver of the shutdown signal has at     *)
(* most one taker, and the state is well typed.                            *)
THEOREM LifecycleInvariance == Spec => []IInv
<1>1. Init => IInv
  BY InitIInv
<1>2. IInv /\ [Next]_vars => IInv'
  BY StepIInv
<1> QED BY <1>1, <1>2, PTL DEF Spec

(* Types; in particular, whatever the builder was asked for, a broker has  *)
(* the receiver task of a queue exactly when that queue was asked for.     *)
THEOREM TypeCorrect == Spec => []TypeOK
<1>1. IInv => TypeOK
  BY DEF IInv
<1> QED BY <1>1, LifecycleInvariance, PTL

(* Of any number of clones at most one waits in run(); one that returned   *)
(* before a shutdown() came after it.                                      *)
THEOREM OneRunWaitsTheorem == Spec => []OneRunWaits
<1>1. IInv => OneRunWaits
  BY DEF IInv
<1> QED BY <1>1, LifecycleInvariance, PTL
=============================================================================

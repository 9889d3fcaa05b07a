----------------------------- MODULE RpcService -----------------------------
(***************************************************************************)
(* What the RPC layer promises to the program that calls request_to(),     *)
(* without brokers, correlation ids or messages.  A call is refused at     *)
(* once, or submitted; a submitted call may be executed by a handler any   *)
(* number of times, before or after it returns; it returns once, and the   *)
(* value it returns was computed by a handler for this very call.          *)
(***************************************************************************)
CONSTANTS Calls,     \* the request_to() invocations
          Values,    \* what a handler can compute
          None

VARIABLES phase,     \* phase[c]: "idle", "active" or "returned"
          submitted, \* the calls that reached the transport layer
          replies,   \* the replies handlers have computed
          result,    \* result[c]: how the call returned
          answer     \* answer[c]: the reply behind an answer, or None

vars == <<phase, submitted, replies, result, answer>>

(* The variants of RpcError a call can return before and after a handler   *)
(* may have seen it.                                                       *)
Refusals == {"InvalidMode", "Serialization"}
Failures == {"Serialization", "Transport", "Timeout", "TransportRetryable"}

Init ==
  /\ phase = [c \in Calls |-> "idle"]
  /\ submitted = {}
  /\ replies = {}
  /\ result = [c \in Calls |-> None]
  /\ answer = [c \in Calls |-> None]

(* The call is refused before anything is sent.                            *)
Refuse(c) ==
  /\ phase[c] = "idle"
  /\ phase' = [phase EXCEPT ![c] = "returned"]
  /\ \E e \in Refusals : result' = [result EXCEPT ![c] = e]
  /\ UNCHANGED <<submitted, replies, answer>>

Submit(c) ==
  /\ phase[c] = "idle"
  /\ phase' = [phase EXCEPT ![c] = "active"]
  /\ submitted' = submitted \cup {c}
  /\ UNCHANGED <<replies, result, answer>>

(* A handler computes a reply; "at least once" means this may happen again *)
(* and may happen after the caller has given up.                           *)
Execute(c) ==
  /\ c \in submitted
  /\ \E v \in Values : replies' = replies \cup {[call |-> c, value |-> v]}
  /\ UNCHANGED <<phase, submitted, result, answer>>

(* The reply reaches the caller: only while it waits, and only once.       *)
Hear(c) ==
  /\ phase[c] = "active"
  /\ answer[c] = None
  /\ \E r \in replies :
        /\ r.call = c
        /\ answer' = [answer EXCEPT ![c] = r]
  /\ UNCHANGED <<phase, submitted, replies, result>>

ReturnOk(c) ==
  /\ phase[c] = "active"
  /\ answer[c] # None
  /\ phase' = [phase EXCEPT ![c] = "returned"]
  /\ result' = [result EXCEPT ![c] = "Ok"]
  /\ UNCHANGED <<submitted, replies, answer>>

(* A failed call keeps no answer, unless the answer could not be decoded.  *)
ReturnError(c) ==
  /\ phase[c] = "active"
  /\ phase' = [phase EXCEPT ![c] = "returned"]
  /\ \E e \in Failures :
        /\ e = "Serialization" => answer[c] # None
        /\ e \in {"Timeout", "TransportRetryable"} => answer[c] = None
        /\ result' = [result EXCEPT ![c] = e]
        /\ answer' = [answer EXCEPT ![c] =
                        IF e = "Serialization" THEN @ ELSE None]
  /\ UNCHANGED <<submitted, replies>>

(* The program stops waiting for the call.                                 *)
Abandon(c) ==
  /\ phase[c] = "active"
  /\ phase' = [phase EXCEPT ![c] = "returned"]
  /\ answer' = [answer EXCEPT ![c] = None]
  /\ UNCHANGED <<submitted, replies, result>>

Next ==
  \E c \in Calls :
    \/ Refuse(c)
    \/ Submit(c)
    \/ Execute(c)
    \/ Hear(c)
    \/ ReturnOk(c)
    \/ ReturnError(c)
    \/ Abandon(c)

(* Every submitted call returns.                                           *)
Fairness == \A c \in Calls : WF_vars(ReturnOk(c) \/ ReturnError(c))

Safety == Init /\ [][Next]_vars
Spec == Safety /\ Fairness
=============================================================================

------------------------------ MODULE NodeFaults ------------------------------
(***************************************************************************)
(* Node with a transport whose send may fail.  Transport::send is outside  *)
(* the repository; a failing send throws out of expressInterest, and so   *)
(* out to the application, after the code has already taken the id and    *)
(* pushed the entry onto pendingInterestTable_.                            *)
(***************************************************************************)
EXTENDS Node

VARIABLE
  sendFailed   \* ids of the expressInterest calls whose send threw

fvars == <<vars, sendFailed>>

(* expressInterest when transport_->send throws: connect, take the id,     *)
(* push the entry; the send and the return of the id never happen.        *)
ExpressInterestSendFails(name, lifetime) ==
  /\ CanCallApi
  /\ lastPendingInterestId < MaxPendingInterestId
  /\ connected' = TRUE
  /\ lastPendingInterestId' = lastPendingInterestId + 1
  /\ pendingInterestTable' =
       pendingInterestTable \cup
         {PendingInterest(lastPendingInterestId + 1, name, lifetime, "app", 0, <<>>)}
  /\ sendFailed' = sendFailed \cup {lastPendingInterestId + 1}
  /\ UNCHANGED <<timeVars, loopVars, sent, rptVars, history>>

FaultInit == Init /\ sendFailed = {}

FaultNext ==
  \/ Next /\ UNCHANGED sendFailed
  \/ \E n \in AppNames, l \in Lifetimes : ExpressInterestSendFails(n, l)

FaultSpec == FaultInit /\ [][FaultNext]_fvars

(* A failed call leaves nothing behind: the application never hears from   *)
(* an expressInterest that threw, neither onData nor onTimeout (spec,      *)
(* TransportError: no table insertion is performed for a failed send).     *)
FailedSendNeverCallsBack ==
  \A id \in sendFailed : fired[id] = 0
=============================================================================

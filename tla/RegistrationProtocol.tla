------------------------- MODULE RegistrationProtocol -------------------------
(***************************************************************************)
(* What registerPrefix promises, stated per registration id and without    *)
(* the probe Interest, the ndndId or the self-registration message.        *)
(*                                                                         *)
(* An id is handed out once, in increasing order.  It is registered at     *)
(* once, or it waits on its probe ("probing").  A probe ends once: it is   *)
(* answered (the id enters the table), it times out (the id has failed,    *)
(* and failed is final), or it is cancelled.  Removal takes an id out of   *)
(* the table; it does not end a probe.                                     *)
(***************************************************************************)
EXTENDS Naturals

CONSTANTS
  Ids,      \* the ids the counter may hand out
  MaxId     \* the last of them

VARIABLES
  status,   \* status[id]: "unused", "probing", "failed" or "closed"
  table,    \* the ids whose onInterest is in the table
  lastId    \* the last id handed out

vars == <<status, table, lastId>>

Init ==
  /\ status = [id \in Ids |-> "unused"]
  /\ table = {}
  /\ lastId = 0

(* registerPrefix with no ndndId known yet: the next id waits on a probe.  *)
RegisterProbing ==
  /\ lastId < MaxId
  /\ status[lastId + 1] = "unused"
  /\ status' = [status EXCEPT ![lastId + 1] = "probing"]
  /\ lastId' = lastId + 1
  /\ UNCHANGED table

(* registerPrefix with the ndndId known: the next id is registered at once.*)
RegisterDirect ==
  /\ lastId < MaxId
  /\ status[lastId + 1] = "unused"
  /\ status' = [status EXCEPT ![lastId + 1] = "closed"]
  /\ table' = table \cup {lastId + 1}
  /\ lastId' = lastId + 1

(* The probe is answered: the id enters the table.                         *)
Answer(id) ==
  /\ status[id] = "probing"
  /\ status' = [status EXCEPT ![id] = "closed"]
  /\ table' = table \cup {id}
  /\ UNCHANGED lastId

(* The probe times out: onRegisterFailed, once and for good.               *)
Fail(id) ==
  /\ status[id] = "probing"
  /\ status' = [status EXCEPT ![id] = "failed"]
  /\ UNCHANGED <<table, lastId>>

(* The probe is cancelled: the id will never enter the table by it.        *)
Abandon(id) ==
  /\ status[id] = "probing"
  /\ status' = [status EXCEPT ![id] = "closed"]
  /\ UNCHANGED <<table, lastId>>

(* removeRegisteredPrefix: the id leaves the table.                        *)
Remove(id) ==
  /\ table' = table \ {id}
  /\ UNCHANGED <<status, lastId>>

Next ==
  \/ RegisterProbing
  \/ RegisterDirect
  \/ \E id \in Ids : Answer(id) \/ Fail(id) \/ Abandon(id) \/ Remove(id)

Spec == Init /\ [][Next]_vars

=============================================================================

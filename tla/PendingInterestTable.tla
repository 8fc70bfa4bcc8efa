------------------------- MODULE PendingInterestTable -------------------------
(***************************************************************************)
(* What the Pending Interest Table promises its users, stated per Interest *)
(* id and without the vector, the timer or the callbacks.                  *)
(*                                                                         *)
(* An id is handed out once, in increasing order, and becomes pending.     *)
(* A pending id either completes (its onData or its onTimeout runs, once)  *)
(* or is cancelled by removePendingInterest; either way it is never        *)
(* pending again, and nothing happens to it any more.                      *)
(***************************************************************************)
EXTENDS Naturals

CONSTANTS
  Ids,      \* the ids the counter may hand out
  MaxId     \* the last of them

VARIABLES
  status,   \* status[id]: "unused", "pending", "done" or "cancelled"
  lastId    \* the last id handed out

vars == <<status, lastId>>

Status == {"unused", "pending", "done", "cancelled"}

Init ==
  /\ status = [id \in Ids |-> "unused"]
  /\ lastId = 0

(* expressInterest: the next id becomes pending.                           *)
Issue ==
  /\ lastId < MaxId
  /\ status[lastId + 1] = "unused"
  /\ status' = [status EXCEPT ![lastId + 1] = "pending"]
  /\ lastId' = lastId + 1

(* A matching Data or the timer completes a pending id.                    *)
Complete(id) ==
  /\ status[id] = "pending"
  /\ status' = [status EXCEPT ![id] = "done"]
  /\ UNCHANGED lastId

(* removePendingInterest cancels a pending id.                             *)
Cancel(id) ==
  /\ status[id] = "pending"
  /\ status' = [status EXCEPT ![id] = "cancelled"]
  /\ UNCHANGED lastId

Next ==
  \/ Issue
  \/ \E id \in Ids : Complete(id) \/ Cancel(id)

Spec == Init /\ [][Next]_vars

=============================================================================

----------------------------- MODULE NodeProofs -----------------------------
(***************************************************************************)
(* Proofs about Node for every value of its constants: the type            *)
(* invariant, and the at-most-once delivery of the PIT callbacks.          *)
(***************************************************************************)
EXTENDS Node, FiniteSetTheorems, TLAPS

USE TimeAssumption, IdAssumption

TypeInv == TypeOK /\ SweepIndexPositive

(* A position in a finite table is a positive natural.                     *)
LEMMA PositionType ==
  ASSUME NEW T, IsFiniteSet(T), NEW e \in T, e.id \in Int
  PROVE  Position(T, e) \in Nat \ {0}
<1>1. IsFiniteSet({f \in T : f.id <= e.id})
  BY FS_Subset
<1>2. {f \in T : f.id <= e.id} # {}
  OBVIOUS
<1>. QED
  BY <1>1, <1>2, FS_EmptySet, FS_CardinalityType DEF Position

(* The new entry of expressInterest and of the ndndId probe has its type.  *)
LEMMA NewEntryType ==
  ASSUME TypeOK,
         lastPendingInterestId < MaxPendingInterestId,
         NEW name, NEW lifetime \in Lifetimes, NEW cb, NEW reg, NEW prefix,
         \/ cb = "app" /\ name \in AppNames /\ reg = 0 /\ prefix = <<>>
         \/ cb = "fetcher" /\ name = ProbeName /\ reg \in RegIds /\ prefix \in RegNames
  PROVE  PendingInterest(lastPendingInterestId + 1, name, lifetime, cb, reg, prefix)
           \in PitEntry
  BY DEF TypeOK, PendingInterest, PitEntry, PitIds

----------------------------------------------------------------------------
THEOREM TypeInit == Init => TypeInv
<1> SUFFICES ASSUME Init PROVE TypeInv
  OBVIOUS
<1>1. IsFiniteSet(pendingInterestTable)
  BY FS_EmptySet DEF Init
<1>2. fired \in [PitIds -> Nat]
  BY DEF Init
<1>3. clock \in 0..MaxTime /\ timerDue \in Nat /\ nowMilliseconds \in 0..MaxTime
  BY DEF Init
<1>4. lastPendingInterestId \in 0..MaxPendingInterestId
      /\ lastRegisteredPrefixId \in 0..MaxRegisteredPrefixId
  BY DEF Init
<1>. QED
  BY <1>1, <1>2, <1>3, <1>4 DEF Init, TypeInv, TypeOK, SweepIndexPositive

(* Each step of Next keeps the type.                                       *)
THEOREM TypeStep == TypeInv /\ [Next]_vars => TypeInv'
<1> SUFFICES ASSUME TypeInv, [Next]_vars PROVE TypeInv'
  OBVIOUS
<1>. USE DEF TypeInv, TypeOK, SweepIndexPositive
<1>1. ASSUME NEW n \in AppNames, NEW l \in Lifetimes, ExpressInterest(n, l)
      PROVE  TypeInv'
  <2>1. PendingInterest(lastPendingInterestId + 1, n, l, "app", 0, <<>>) \in PitEntry
    BY <1>1, NewEntryType DEF ExpressInterest, DoExpressInterest
  <2>2. IsFiniteSet(pendingInterestTable')
    BY <1>1, FS_AddElement DEF ExpressInterest, DoExpressInterest
  <2>. QED
    BY <1>1, <2>1, <2>2 DEF ExpressInterest, DoExpressInterest, timeVars, loopVars, rptVars, history
<1>2. ASSUME NEW id \in PitIds, RemovePendingInterest(id)
      PROVE  TypeInv'
  <2>1. IsFiniteSet(pendingInterestTable')
    BY <1>2, FS_Subset DEF RemovePendingInterest
  <2>. QED
    BY <1>2, <2>1 DEF RemovePendingInterest, timeVars, loopVars, rptVars
<1>3. ASSUME NEW p \in RegNames, RegisterPrefix(p)
      PROVE  TypeInv'
  <2>1. CASE ndndId = NoNdndId
    <3>1. PendingInterest(lastPendingInterestId + 1, ProbeName, ProbeLifetime,
                          "fetcher", lastRegisteredPrefixId + 1, p) \in PitEntry
      <4>1. ProbeLifetime \in Lifetimes \/ TRUE
        OBVIOUS
      <4>. QED
        BY <1>3, <2>1 DEF RegisterPrefix, DoExpressInterest, PendingInterest,
                          PitEntry, PitIds, RegIds
    <3>2. IsFiniteSet(pendingInterestTable')
      BY <1>3, <2>1, FS_AddElement DEF RegisterPrefix, DoExpressInterest
    <3>. QED
      BY <1>3, <2>1, <3>1, <3>2 DEF RegisterPrefix, DoExpressInterest, timeVars, loopVars, history
  <2>2. CASE ndndId # NoNdndId
    BY <1>3, <2>2 DEF RegisterPrefix, RegisterPrefixHelper, RptEntry, RegIds,
                      timeVars, loopVars, pitVars, history
  <2>. QED
    BY <2>1, <2>2
<1>4. ASSUME NEW id \in RegIds, RemoveRegisteredPrefix(id)
      PROVE  TypeInv'
  BY <1>4 DEF RemoveRegisteredPrefix, timeVars, loopVars, pitVars
<1>5. CASE Shutdown
  BY <1>5 DEF Shutdown, timeVars, pitVars, rptVars, history
<1>6. ASSUME NEW n \in DataNames, ReceiveData(n)
      PROVE  TypeInv'
  <2>1. PICK e \in pendingInterestTable :
               /\ IsEntryForExpressedInterest(e, n)
               /\ pendingInterestTable' = pendingInterestTable \ {e}
               /\ fired' = [fired EXCEPT ![e.id] = @ + 1]
               /\ \/ /\ e.cb = "app"
                     /\ UNCHANGED <<sent, rptVars>>
                  \/ /\ e.cb = "fetcher"
                     /\ ndndId' = HubNdndId
                     /\ RegisterPrefixHelper(e.reg, e.prefix, HubNdndId)
                     /\ UNCHANGED lastRegisteredPrefixId
               /\ UNCHANGED <<timeVars, loopVars, connected, lastPendingInterestId,
                              cancelled, regFailed, regRemoved, dueAtTick, lastDispatch>>
    BY <1>6 DEF ReceiveData
  <2>2. e \in PitEntry
    OBVIOUS
  <2>3. IsFiniteSet(pendingInterestTable')
    BY <2>1, FS_Subset
  <2>4. registeredPrefixTable' \subseteq RptEntry
    <3>1. CASE e.cb = "app"
      BY <2>1, <3>1 DEF rptVars
    <3>2. CASE e.cb = "fetcher"
      <4>1. e.reg \in RegIds /\ e.prefix \in RegNames
        BY <2>2, <3>2 DEF PitEntry
      <4>. QED
        BY <2>1, <3>2, <4>1 DEF RegisterPrefixHelper, RptEntry
    <3>. QED
      BY <2>1, <3>1, <3>2
  <2>5. fired' \in [PitIds -> Nat]
    BY <2>1, <2>2 DEF PitEntry
  <2>. QED
    BY <2>1, <2>3, <2>4, <2>5 DEF timeVars, loopVars, rptVars
<1>7. ASSUME NEW n \in DataNames, DropData(n)
      PROVE  TypeInv'
  BY <1>7 DEF DropData, vars, timeVars, loopVars, pitVars, rptVars, history
<1>8. ASSUME NEW n \in InterestNames, ReceiveInterest(n)
      PROVE  TypeInv'
  BY <1>8 DEF ReceiveInterest, timeVars, loopVars, pitVars, rptVars
<1>9. ASSUME NEW n \in InterestNames, DropInterest(n)
      PROVE  TypeInv'
  BY <1>9 DEF DropInterest, vars, timeVars, loopVars, pitVars, rptVars, history
<1>10. CASE TimerFire
  <2>1. Cardinality(pendingInterestTable) \in Nat
    BY FS_CardinalityType
  <2>2. dueAtTick' \subseteq PitIds
    BY <1>10 DEF TimerFire, PitEntry
  <2>. QED
    BY <1>10, <2>1, <2>2 DEF TimerFire, timeVars, pitVars, rptVars
<1>11. CASE SweepTimeout
  <2>1. PICK e \in pendingInterestTable :
               /\ loop = "sweep"
               /\ Position(pendingInterestTable, e) = sweepIndex
               /\ pendingInterestTable' = pendingInterestTable \ {e}
               /\ fired' = [fired EXCEPT ![e.id] = @ + 1]
               /\ regFailed' = IF e.cb = "fetcher" THEN regFailed \cup {e.reg}
                                                   ELSE regFailed
               /\ loop' = "timeoutCb"
               /\ UNCHANGED <<timeVars, running, sweepIndex, nowMilliseconds,
                              connected, sent, lastPendingInterestId, rptVars,
                              cancelled, regRemoved, dueAtTick, lastDispatch>>
    BY <1>11 DEF SweepTimeout
  <2>2. e \in PitEntry
    OBVIOUS
  <2>3. e.id \in Int
    BY <2>2 DEF PitEntry, PitIds
  <2>6. sweepIndex >= 1
    BY <2>1, <2>3, PositionType
  <2>4. IsFiniteSet(pendingInterestTable')
    BY <2>1, FS_Subset
  <2>5. regFailed' \subseteq RegIds
    BY <2>1, <2>2 DEF PitEntry
  <2>. QED
    BY <2>1, <2>2, <2>6, <2>4, <2>5 DEF PitEntry, PitIds, timeVars, rptVars
<1>12. CASE SweepSkip
  <2>1. PICK e \in pendingInterestTable :
               /\ Position(pendingInterestTable, e) = sweepIndex
               /\ sweepIndex' = sweepIndex - 1
               /\ UNCHANGED <<timeVars, running, loop, nowMilliseconds,
                              connected, sent, pitVars, rptVars, history>>
    BY <1>12 DEF SweepSkip
  <2>2. e.id \in Int
    BY DEF PitEntry, PitIds
  <2>3. sweepIndex >= 1
    BY <2>1, <2>2, PositionType
  <2>. QED
    BY <1>12, <2>1, <2>3 DEF SweepSkip, timeVars, pitVars, rptVars, history
<1>13. CASE SweepOutOfBounds
  <2>1. Cardinality(pendingInterestTable) \in Nat
    BY FS_CardinalityType
  <2>. QED
    BY <1>13, <2>1 DEF SweepOutOfBounds, timeVars, pitVars, rptVars, history
<1>14. CASE TimeoutCallbackReturn
  BY <1>14 DEF TimeoutCallbackReturn, timeVars, pitVars, rptVars, history
<1>15. CASE SweepEnd
  BY <1>15 DEF SweepEnd, pitVars, rptVars, history
<1>16. CASE Tick
  BY <1>16 DEF Tick, loopVars, pitVars, rptVars, history
<1>17. CASE Terminated \/ UNCHANGED vars
  BY <1>17 DEF Terminated, vars, timeVars, loopVars, pitVars, rptVars, history
<1>. QED
  BY <1>1, <1>2, <1>3, <1>4, <1>5, <1>6, <1>7, <1>8, <1>9, <1>10, <1>11,
     <1>12, <1>13, <1>14, <1>15, <1>16, <1>17
  DEF Next, AppStep, ForwarderStep, SweepStep

(* Type correctness: every reachable state of the Node has TypeOK.        *)
THEOREM TypeCorrect == Spec => []TypeOK
<1>1. Init => TypeInv
  BY TypeInit
<1>2. TypeInv /\ [Next]_vars => TypeInv'
  BY TypeStep
<1>3. TypeInv => TypeOK
  BY DEF TypeInv
<1>. QED
  BY <1>1, <1>2, <1>3, PTL DEF Spec

----------------------------------------------------------------------------
(* The part of IInv beyond the type: the live entries and the callbacks.   *)
LiveInv == PendingEntriesLive /\ CallbackAtMostOnce

(* What DoExpressInterest does to the table: it appends one entry, of the *)
(* next id.                                                                *)
LEMMA DoExpressInterestAppends ==
  ASSUME NEW name, NEW lifetime, NEW cb, NEW reg, NEW prefix,
         DoExpressInterest(name, lifetime, cb, reg, prefix)
  PROVE  \E new : /\ new.id = lastPendingInterestId + 1
                  /\ pendingInterestTable' = pendingInterestTable \cup {new}
                  /\ lastPendingInterestId' = lastPendingInterestId + 1
                  /\ lastPendingInterestId < MaxPendingInterestId
<1> DEFINE new == PendingInterest(lastPendingInterestId + 1, name, lifetime, cb, reg, prefix)
<1>1. new.id = lastPendingInterestId + 1
  BY DEF PendingInterest
<1>. QED
  BY <1>1 DEF DoExpressInterest

(* Appending the entry with the next id (expressInterest, the probe of     *)
(* registerPrefix) keeps LiveInv: the id was never answered or cancelled.  *)
LEMMA AddEntryLive ==
  ASSUME TypeOK, LiveInv,
         lastPendingInterestId < MaxPendingInterestId,
         NEW new, new.id = lastPendingInterestId + 1,
         pendingInterestTable' = pendingInterestTable \cup {new},
         lastPendingInterestId' = lastPendingInterestId + 1,
         UNCHANGED <<fired, cancelled>>
  PROVE  LiveInv'
<1>1. new.id \in PitIds /\ fired[new.id] = 0 /\ new.id \notin cancelled
  BY DEF TypeOK, LiveInv, PendingEntriesLive, PitIds
<1>2. \A e \in pendingInterestTable : e.id < new.id
  BY DEF TypeOK, LiveInv, PendingEntriesLive, PitEntry, PitIds
<1>. QED
  BY <1>1, <1>2 DEF TypeOK, LiveInv, PendingEntriesLive, CallbackAtMostOnce, PitEntry, PitIds

(* Erasing an entry and then running its onData or onTimeout once          *)
(* (onReceiveElement, checkPitExpire) keeps LiveInv: no other entry        *)
(* carries its id, so every entry left is still unanswered.                *)
LEMMA FireEntryLive ==
  ASSUME TypeOK, LiveInv,
         NEW e \in pendingInterestTable,
         pendingInterestTable' = pendingInterestTable \ {e},
         fired' = [fired EXCEPT ![e.id] = @ + 1],
         UNCHANGED <<lastPendingInterestId, cancelled>>
  PROVE  LiveInv'
<1>1. e.id \in PitIds /\ e.id <= lastPendingInterestId
      /\ fired[e.id] = 0 /\ e.id \notin cancelled
  BY DEF TypeOK, LiveInv, PendingEntriesLive, PitEntry
<1>2. \A f \in pendingInterestTable' : f.id # e.id
  BY DEF LiveInv, PendingEntriesLive
<1>3. fired' \in [PitIds -> Nat] /\ fired'[e.id] = 1
      /\ \A id \in PitIds \ {e.id} : fired'[id] = fired[id]
  BY <1>1 DEF TypeOK
<1>4. PendingEntriesLive'
  BY <1>1, <1>2, <1>3 DEF TypeOK, LiveInv, PendingEntriesLive, PitEntry
<1>5. CallbackAtMostOnce'
  BY <1>1, <1>3 DEF LiveInv, CallbackAtMostOnce
<1>. QED
  BY <1>4, <1>5 DEF LiveInv

(* Each step of Next keeps LiveInv.                                        *)
THEOREM LiveStep == TypeOK /\ LiveInv /\ [Next]_vars => LiveInv'
<1> SUFFICES ASSUME TypeOK, LiveInv, [Next]_vars PROVE LiveInv'
  OBVIOUS
<1>. DEFINE Same == UNCHANGED <<pendingInterestTable, lastPendingInterestId, fired, cancelled>>
<1>0. Same => LiveInv'
  BY DEF LiveInv, PendingEntriesLive, CallbackAtMostOnce
<1>1. ASSUME NEW n \in AppNames, NEW l \in Lifetimes, ExpressInterest(n, l)
      PROVE  LiveInv'
  <2>1. PICK new : /\ new.id = lastPendingInterestId + 1
                   /\ pendingInterestTable' = pendingInterestTable \cup {new}
                   /\ lastPendingInterestId' = lastPendingInterestId + 1
                   /\ lastPendingInterestId < MaxPendingInterestId
    BY <1>1, DoExpressInterestAppends DEF ExpressInterest
  <2>2. UNCHANGED <<fired, cancelled>>
    BY <1>1 DEF ExpressInterest, history
  <2>. QED
    BY <2>1, <2>2, AddEntryLive
<1>2. ASSUME NEW id \in PitIds, RemovePendingInterest(id)
      PROVE  LiveInv'
  <2>1. pendingInterestTable' \subseteq pendingInterestTable
        /\ \A e \in pendingInterestTable' : e.id # id
    BY <1>2 DEF RemovePendingInterest
  <2>2. (\E e \in pendingInterestTable : e.id = id) => fired[id] = 0 /\ id <= lastPendingInterestId
    BY DEF LiveInv, PendingEntriesLive
  <2>3. cancelled' \subseteq cancelled \cup {id}
        /\ (id \in cancelled' \ cancelled => fired[id] = 0 /\ id <= lastPendingInterestId)
    BY <1>2, <2>2 DEF RemovePendingInterest
  <2>4. UNCHANGED <<fired, lastPendingInterestId>>
    BY <1>2 DEF RemovePendingInterest
  <2>5. \A e \in pendingInterestTable' :
          e.id <= lastPendingInterestId' /\ fired'[e.id] = 0 /\ e.id \notin cancelled'
    BY <2>1, <2>3, <2>4 DEF LiveInv, PendingEntriesLive
  <2>6. \A e, f \in pendingInterestTable' : e.id = f.id => e = f
    BY <2>1 DEF LiveInv, PendingEntriesLive
  <2>7. \A j \in PitIds : j > lastPendingInterestId' => fired'[j] = 0 /\ j \notin cancelled'
    BY <2>3, <2>4 DEF LiveInv, PendingEntriesLive, TypeOK, PitIds
  <2>8. PendingEntriesLive'
    BY <2>5, <2>6, <2>7 DEF PendingEntriesLive
  <2>9. CallbackAtMostOnce'
    BY <2>3, <2>4 DEF LiveInv, CallbackAtMostOnce
  <2>. QED
    BY <2>8, <2>9 DEF LiveInv
<1>3. ASSUME NEW p \in RegNames, RegisterPrefix(p)
      PROVE  LiveInv'
  <2>1. CASE ndndId = NoNdndId
    <3>1. PICK new : /\ new.id = lastPendingInterestId + 1
                     /\ pendingInterestTable' = pendingInterestTable \cup {new}
                     /\ lastPendingInterestId' = lastPendingInterestId + 1
                     /\ lastPendingInterestId < MaxPendingInterestId
      BY <1>3, <2>1, DoExpressInterestAppends DEF RegisterPrefix
    <3>2. UNCHANGED <<fired, cancelled>>
      BY <1>3 DEF RegisterPrefix, history
    <3>. QED
      BY <3>1, <3>2, AddEntryLive
  <2>2. CASE ndndId # NoNdndId
    BY <1>3, <2>2, <1>0 DEF RegisterPrefix, pitVars, history
  <2>. QED
    BY <2>1, <2>2
<1>4. ASSUME NEW n \in DataNames, ReceiveData(n)
      PROVE  LiveInv'
  BY <1>4, FireEntryLive DEF ReceiveData
<1>5. CASE SweepTimeout
  BY <1>5, FireEntryLive DEF SweepTimeout
<1>6. CASE \/ \E id \in RegIds : RemoveRegisteredPrefix(id)
           \/ Shutdown
           \/ \E n \in DataNames : DropData(n)
           \/ \E n \in InterestNames : ReceiveInterest(n) \/ DropInterest(n)
           \/ TimerFire \/ SweepSkip \/ SweepOutOfBounds \/ TimeoutCallbackReturn
           \/ SweepEnd \/ Tick \/ Terminated \/ UNCHANGED vars
  <2>. Same
    BY <1>6 DEF RemoveRegisteredPrefix, Shutdown, DropData, ReceiveInterest,
                DropInterest, TimerFire, SweepSkip, SweepOutOfBounds,
                TimeoutCallbackReturn, SweepEnd, Tick, Terminated, vars,
                pitVars, history
  <2>. QED
    BY <1>0
<1>. QED
  BY <1>1, <1>2, <1>3, <1>4, <1>5, <1>6
  DEF Next, AppStep, ForwarderStep, SweepStep

(* At-most-once delivery (CallbackAtMostOnce): in every reachable state,   *)
(* no PIT entry had its onData or onTimeout called twice, and none after   *)
(* removePendingInterest cancelled it, whatever the callbacks re-entered.  *)
THEOREM AtMostOnce == Spec => []CallbackAtMostOnce
<1>1. Init => TypeInv /\ LiveInv
  <2>. SUFFICES ASSUME Init PROVE TypeInv /\ LiveInv
    OBVIOUS
  <2>1. TypeInv
    BY TypeInit
  <2>. QED
    BY <2>1 DEF Init, LiveInv, PendingEntriesLive, CallbackAtMostOnce
<1>2. TypeInv /\ LiveInv /\ [Next]_vars => (TypeInv /\ LiveInv)'
  BY TypeStep, LiveStep DEF TypeInv
<1>3. TypeInv /\ LiveInv => CallbackAtMostOnce
  BY DEF LiveInv
<1>. QED
  BY <1>1, <1>2, <1>3, PTL DEF Spec

----------------------------------------------------------------------------
(* The refinement of PendingInterestTable.  Each lemma is one kind of      *)
(* step: it names the abstract step that the detailed one maps to.        *)

(* Appending the next id is the abstract Issue.                            *)
LEMMA IssueRefines ==
  ASSUME TypeOK, LiveInv,
         lastPendingInterestId < MaxPendingInterestId,
         NEW new, new.id = lastPendingInterestId + 1,
         pendingInterestTable' = pendingInterestTable \cup {new},
         lastPendingInterestId' = lastPendingInterestId + 1,
         UNCHANGED <<fired, cancelled>>
  PROVE  PIT!Issue
<1> DEFINE n == lastPendingInterestId + 1
<1>1. n \in PitIds
  BY DEF TypeOK, PitIds
<1>2. \A e \in pendingInterestTable : e.id <= lastPendingInterestId
  BY DEF LiveInv, PendingEntriesLive
<1>3. PitStatus[n] = "unused"
  <2>1. ~\E e \in pendingInterestTable : e.id = n
    BY <1>2 DEF TypeOK, PitEntry, PitIds
  <2>. QED
    BY <1>1, <2>1 DEF PitStatus, TypeOK
<1>4. ASSUME NEW id \in PitIds
      PROVE  PitStatus'[id] = IF id = n THEN "pending" ELSE PitStatus[id]
  <2>1. CASE id = n
    <3>1. \E e \in pendingInterestTable' : e.id = id
      BY <2>1
    <3>. QED
      BY <1>4, <2>1, <3>1 DEF PitStatus
  <2>2. CASE id # n
    <3>1. (\E e \in pendingInterestTable' : e.id = id)
            <=> (\E e \in pendingInterestTable : e.id = id)
      BY <2>2
    <3>2. (id > lastPendingInterestId') <=> (id > lastPendingInterestId)
      BY <1>4, <2>2 DEF TypeOK, PitIds
    <3>. QED
      BY <2>2, <3>1, <3>2 DEF PitStatus
  <2>. QED
    BY <2>1, <2>2
<1>5. PitStatus' = [PitStatus EXCEPT ![n] = "pending"]
  BY <1>1, <1>4 DEF PitStatus
<1>. QED
  BY <1>3, <1>5 DEF PIT!Issue

(* Erasing an entry and running its callback once is the abstract          *)
(* Complete of its id.                                                     *)
LEMMA CompleteRefines ==
  ASSUME TypeOK, LiveInv,
         NEW e \in pendingInterestTable,
         pendingInterestTable' = pendingInterestTable \ {e},
         fired' = [fired EXCEPT ![e.id] = @ + 1],
         UNCHANGED <<lastPendingInterestId, cancelled>>
  PROVE  \E id \in PitIds : PIT!Complete(id)
<1>1. e.id \in PitIds /\ e.id <= lastPendingInterestId
      /\ fired[e.id] = 0 /\ e.id \notin cancelled
  BY DEF TypeOK, LiveInv, PendingEntriesLive, PitEntry
<1>2. \A f \in pendingInterestTable : f.id = e.id => f = e
  BY DEF LiveInv, PendingEntriesLive
<1>3. PitStatus[e.id] = "pending"
  BY <1>1 DEF PitStatus
<1>4. ASSUME NEW id \in PitIds
      PROVE  PitStatus'[id] = IF id = e.id THEN "done" ELSE PitStatus[id]
  <2>1. CASE id = e.id
    <3>1. ~\E f \in pendingInterestTable' : f.id = id
      BY <1>2, <2>1
    <3>2. fired'[id] = 1
      BY <1>1, <2>1 DEF TypeOK
    <3>3. ~(id > lastPendingInterestId') /\ id \notin cancelled'
      BY <1>1, <2>1 DEF PitIds, TypeOK
    <3>. QED
      BY <1>1, <2>1, <3>1, <3>2, <3>3 DEF PitStatus
  <2>2. CASE id # e.id
    <3>1. (\E f \in pendingInterestTable' : f.id = id)
            <=> (\E f \in pendingInterestTable : f.id = id)
      BY <2>2
    <3>2. fired'[id] = fired[id]
      BY <1>4, <2>2 DEF TypeOK
    <3>. QED
      BY <2>2, <3>1, <3>2 DEF PitStatus
  <2>. QED
    BY <2>1, <2>2
<1>5. PitStatus' = [PitStatus EXCEPT ![e.id] = "done"]
  BY <1>1, <1>4 DEF PitStatus
<1>. QED
  BY <1>1, <1>3, <1>5 DEF PIT!Complete

(* removePendingInterest of a pending id is the abstract Cancel.           *)
LEMMA CancelRefines ==
  ASSUME TypeOK, LiveInv,
         NEW id \in PitIds, \E e \in pendingInterestTable : e.id = id,
         pendingInterestTable' = {e \in pendingInterestTable : e.id # id},
         cancelled' = cancelled \cup {id},
         UNCHANGED <<lastPendingInterestId, fired>>
  PROVE  PIT!Cancel(id)
<1>1. id <= lastPendingInterestId /\ fired[id] = 0
  BY DEF LiveInv, PendingEntriesLive
<1>2. PitStatus[id] = "pending"
  BY DEF PitStatus
<1>3. ASSUME NEW j \in PitIds
      PROVE  PitStatus'[j] = IF j = id THEN "cancelled" ELSE PitStatus[j]
  <2>1. CASE j = id
    <3>1. ~\E f \in pendingInterestTable' : f.id = j
      BY <2>1
    <3>2. ~(j > lastPendingInterestId') /\ j \in cancelled' /\ fired'[j] = 0
      BY <1>1, <2>1 DEF PitIds, TypeOK
    <3>. QED
      BY <2>1, <3>1, <3>2 DEF PitStatus
  <2>2. CASE j # id
    <3>1. (\E f \in pendingInterestTable' : f.id = j)
            <=> (\E f \in pendingInterestTable : f.id = j)
      BY <2>2
    <3>2. (j \in cancelled') <=> (j \in cancelled)
      BY <2>2
    <3>. QED
      BY <2>2, <3>1, <3>2 DEF PitStatus
  <2>. QED
    BY <2>1, <2>2
<1>4. PitStatus' = [j \in PitIds |-> IF j = id THEN "cancelled" ELSE PitStatus[j]]
  BY <1>3 DEF PitStatus
<1>5. PitStatus' = [PitStatus EXCEPT ![id] = "cancelled"]
  BY <1>4 DEF PitStatus
<1>. QED
  BY <1>2, <1>5 DEF PIT!Cancel

(* Each step of Next is a step of the abstract PIT or leaves it as it is.  *)
THEOREM RefineStep ==
  TypeOK /\ LiveInv /\ [Next]_vars => [PIT!Next]_PIT!vars
<1> SUFFICES ASSUME TypeOK, LiveInv, [Next]_vars PROVE [PIT!Next]_PIT!vars
  OBVIOUS
<1>. DEFINE Same == UNCHANGED <<pendingInterestTable, lastPendingInterestId, fired, cancelled>>
<1>0. Same => UNCHANGED PIT!vars
  BY DEF PIT!vars, PitStatus
<1>1. ASSUME NEW n \in AppNames, NEW l \in Lifetimes, ExpressInterest(n, l)
      PROVE  [PIT!Next]_PIT!vars
  <2>1. PICK new : /\ new.id = lastPendingInterestId + 1
                   /\ pendingInterestTable' = pendingInterestTable \cup {new}
                   /\ lastPendingInterestId' = lastPendingInterestId + 1
                   /\ lastPendingInterestId < MaxPendingInterestId
    BY <1>1, DoExpressInterestAppends DEF ExpressInterest
  <2>2. UNCHANGED <<fired, cancelled>>
    BY <1>1 DEF ExpressInterest, history
  <2>3. PIT!Issue
    BY <2>1, <2>2, IssueRefines
  <2>. QED
    BY <2>3 DEF PIT!Next
<1>2. ASSUME NEW id \in PitIds, RemovePendingInterest(id)
      PROVE  [PIT!Next]_PIT!vars
  <2>1. CASE \E e \in pendingInterestTable : e.id = id
    <3>1. PIT!Cancel(id)
      BY <1>2, <2>1, CancelRefines DEF RemovePendingInterest
    <3>. QED
      BY <3>1 DEF PIT!Next
  <2>2. CASE ~\E e \in pendingInterestTable : e.id = id
    <3>1. pendingInterestTable' = pendingInterestTable
      BY <1>2, <2>2 DEF RemovePendingInterest
    <3>. QED
      BY <1>2, <2>2, <3>1, <1>0 DEF RemovePendingInterest
  <2>. QED
    BY <2>1, <2>2
<1>3. ASSUME NEW p \in RegNames, RegisterPrefix(p)
      PROVE  [PIT!Next]_PIT!vars
  <2>1. CASE ndndId = NoNdndId
    <3>1. PICK new : /\ new.id = lastPendingInterestId + 1
                     /\ pendingInterestTable' = pendingInterestTable \cup {new}
                     /\ lastPendingInterestId' = lastPendingInterestId + 1
                     /\ lastPendingInterestId < MaxPendingInterestId
      BY <1>3, <2>1, DoExpressInterestAppends DEF RegisterPrefix
    <3>2. UNCHANGED <<fired, cancelled>>
      BY <1>3 DEF RegisterPrefix, history
    <3>3. PIT!Issue
      BY <3>1, <3>2, IssueRefines
    <3>. QED
      BY <3>3 DEF PIT!Next
  <2>2. CASE ndndId # NoNdndId
    BY <1>3, <2>2, <1>0 DEF RegisterPrefix, pitVars, history
  <2>. QED
    BY <2>1, <2>2
<1>4. ASSUME NEW n \in DataNames, ReceiveData(n)
      PROVE  [PIT!Next]_PIT!vars
  BY <1>4, CompleteRefines DEF ReceiveData, PIT!Next
<1>5. CASE SweepTimeout
  BY <1>5, CompleteRefines DEF SweepTimeout, PIT!Next
<1>6. CASE \/ \E id \in RegIds : RemoveRegisteredPrefix(id)
           \/ Shutdown
           \/ \E n \in DataNames : DropData(n)
           \/ \E n \in InterestNames : ReceiveInterest(n) \/ DropInterest(n)
           \/ TimerFire \/ SweepSkip \/ SweepOutOfBounds \/ TimeoutCallbackReturn
           \/ SweepEnd \/ Tick \/ Terminated \/ UNCHANGED vars
  <2>. Same
    BY <1>6 DEF RemoveRegisteredPrefix, Shutdown, DropData, ReceiveInterest,
                DropInterest, TimerFire, SweepSkip, SweepOutOfBounds,
                TimeoutCallbackReturn, SweepEnd, Tick, Terminated, vars,
                pitVars, history
  <2>. QED
    BY <1>0
<1>. QED
  BY <1>1, <1>2, <1>3, <1>4, <1>5, <1>6
  DEF Next, AppStep, ForwarderStep, SweepStep

(* Node implements the abstract Pending Interest Table (PitRefinement):    *)
(* under every interleaving of API calls, re-entrant callbacks, Data and   *)
(* checkPitExpire sweeps, the ids of pendingInterestTable_ follow          *)
(* unused -> pending -> done or cancelled, for all values of the constants.*)
THEOREM Refinement == Spec => PitRefinement
<1>1. Init => PIT!Init
  <2>. SUFFICES ASSUME Init PROVE PIT!Init
    OBVIOUS
  <2>1. \A id \in PitIds : ~\E e \in pendingInterestTable : e.id = id
    BY DEF Init
  <2>2. \A id \in PitIds : id > lastPendingInterestId
    BY DEF Init, PitIds
  <2>3. PitStatus = [id \in PitIds |-> "unused"]
    BY <2>1, <2>2 DEF PitStatus
  <2>. QED
    BY <2>3 DEF Init, PIT!Init
<1>2. Init => TypeInv /\ LiveInv
  <2>. SUFFICES ASSUME Init PROVE TypeInv /\ LiveInv
    OBVIOUS
  <2>1. TypeInv
    BY TypeInit
  <2>. QED
    BY <2>1 DEF Init, LiveInv, PendingEntriesLive, CallbackAtMostOnce
<1>3. TypeInv /\ LiveInv /\ [Next]_vars => (TypeInv /\ LiveInv)'
  BY TypeStep, LiveStep DEF TypeInv
<1>4. TypeInv /\ LiveInv /\ [Next]_vars => [PIT!Next]_PIT!vars
  BY RefineStep DEF TypeInv
<1>. QED
  BY <1>1, <1>2, <1>3, <1>4, PTL DEF Spec, PitRefinement, PIT!Spec


=============================================================================

--------------------------- MODULE NodeSweepProofs ---------------------------
(***************************************************************************)
(* The proof that checkPitExpire leaves no expired entry behind           *)
(* (SweepLeavesNoExpired), for every value of the constants, although the  *)
(* timeout callbacks may add and erase entries under the backwards loop.   *)
(*                                                                         *)
(* The argument is the invariant SweepOrder: an entry due when the timer  *)
(* fired keeps a position at or below the loop index, because erasing     *)
(* entries only lowers positions and appending (a larger id) leaves them   *)
(* alone; and the stale nowMilliseconds the loop compares with is never    *)
(* below the time the timer fired at.                                      *)
(***************************************************************************)
EXTENDS NodeProofs

(* A table whose entries carry integer ids, as pendingInterestTable_ does. *)
IdTable(T) == IsFiniteSet(T) /\ \A x \in T : x.id \in Int

(* A position is at most the size of the table.                            *)
LEMMA PositionLeSize ==
  ASSUME NEW T, IdTable(T), NEW f \in T
  PROVE  Position(T, f) <= Cardinality(T)
BY FS_Subset DEF IdTable, Position

(* Erasing entries never raises a position.                                *)
LEMMA PositionSubset ==
  ASSUME NEW T, IdTable(T), NEW S \in SUBSET T, NEW f \in S
  PROVE  Position(S, f) <= Position(T, f)
<1>1. IsFiniteSet({g \in T : g.id <= f.id})
  BY FS_Subset DEF IdTable
<1>. QED
  BY <1>1, FS_Subset DEF Position

(* An entry of a smaller id sits at a smaller position.                    *)
LEMMA PositionStrict ==
  ASSUME NEW T, IdTable(T), NEW f \in T, NEW e \in T, f.id < e.id
  PROVE  Position(T, f) < Position(T, e)
<1> DEFINE A == {g \in T : g.id <= f.id}
           B == {g \in T : g.id <= e.id}
<1>1. IsFiniteSet(B) /\ A \subseteq B
  BY FS_Subset DEF IdTable
<1>2. e \in B /\ e \notin A
  BY DEF IdTable
<1>3. Cardinality(A) # Cardinality(B)
  BY <1>1, <1>2, FS_Subset
<1>4. Cardinality(A) <= Cardinality(B)
  BY <1>1, FS_Subset
<1>5. Cardinality(A) \in Nat /\ Cardinality(B) \in Nat
  BY <1>1, FS_Subset, FS_CardinalityType
<1>. QED
  BY <1>3, <1>4, <1>5 DEF Position

(* Adding or erasing an entry of a larger id leaves a position unchanged.  *)
LEMMA PositionLarger ==
  ASSUME NEW T, NEW f \in T, NEW g, f.id \in Int, g.id \in Int, f.id < g.id
  PROVE  /\ Position(T \cup {g}, f) = Position(T, f)
         /\ Position(T \ {g}, f) = Position(T, f)
<1>1. {h \in T \cup {g} : h.id <= f.id} = {h \in T : h.id <= f.id}
  OBVIOUS
<1>2. {h \in T \ {g} : h.id <= f.id} = {h \in T : h.id <= f.id}
  OBVIOUS
<1>. QED
  BY <1>1, <1>2 DEF Position

(* pendingInterestTable_ under TypeOK is such a table.                     *)
LEMMA PitIdTable ==
  ASSUME TypeOK
  PROVE  IdTable(pendingInterestTable)
BY DEF TypeOK, IdTable, PitEntry, PitIds

----------------------------------------------------------------------------
(* Appending the next id (expressInterest, the ndndId probe) keeps         *)
(* SweepOrder: the new id is not due and moves no due entry.               *)
LEMMA AddKeepsOrder ==
  ASSUME TypeOK, LiveInv, SweepOrder,
         NEW new, new.id = lastPendingInterestId + 1,
         pendingInterestTable' = pendingInterestTable \cup {new},
         lastPendingInterestId' = lastPendingInterestId + 1,
         UNCHANGED <<dueAtTick, loop, sweepIndex, nowMilliseconds, clock>>
  PROVE  SweepOrder'
<1>1. \A e \in pendingInterestTable : e.id \in Int /\ e.id < new.id
  BY DEF TypeOK, LiveInv, PendingEntriesLive, PitEntry, PitIds
<1>2. new.id \notin dueAtTick
  BY DEF SweepOrder, TypeOK, PitIds
<1>3. \A e \in pendingInterestTable :
        Position(pendingInterestTable', e) = Position(pendingInterestTable, e)
  BY <1>1, PositionLarger DEF TypeOK, PitIds
<1>4. \A id \in dueAtTick' : id <= lastPendingInterestId'
  BY DEF SweepOrder, TypeOK, PitIds
<1>. QED
  BY <1>2, <1>3, <1>4 DEF SweepOrder

(* Erasing entries (removePendingInterest, a Data match) keeps SweepOrder. *)
LEMMA EraseKeepsOrder ==
  ASSUME TypeOK, SweepOrder,
         pendingInterestTable' \subseteq pendingInterestTable,
         UNCHANGED <<dueAtTick, loop, sweepIndex, nowMilliseconds, clock,
                     lastPendingInterestId>>
  PROVE  SweepOrder'
<1>1. \A e \in pendingInterestTable' :
        Position(pendingInterestTable', e) <= Position(pendingInterestTable, e)
  BY PitIdTable, PositionSubset
<1>2. \A e \in pendingInterestTable' :
        Position(pendingInterestTable', e) \in Nat /\ Position(pendingInterestTable, e) \in Nat
  BY PitIdTable, PositionType, FS_Subset DEF IdTable
<1>. QED
  BY <1>1, <1>2 DEF SweepOrder, TypeOK

(* A step that leaves the table, the counter and the sweep alone and at    *)
(* most advances the clock keeps SweepOrder.                               *)
LEMMA OtherKeepsOrder ==
  ASSUME TypeOK, SweepOrder, clock' \in Nat, clock' >= clock,
         UNCHANGED <<pendingInterestTable, lastPendingInterestId, dueAtTick, loop,
                     sweepIndex, nowMilliseconds>>
  PROVE  SweepOrder'
<1>1. /\ pendingInterestTable' = pendingInterestTable
      /\ lastPendingInterestId' = lastPendingInterestId
      /\ dueAtTick' = dueAtTick /\ loop' = loop
      /\ sweepIndex' = sweepIndex /\ nowMilliseconds' = nowMilliseconds
  OBVIOUS
<1>2. nowMilliseconds' <= clock'
  BY <1>1 DEF SweepOrder, TypeOK
<1>. QED
  BY <1>1, <1>2, Zenon DEF SweepOrder


----------------------------------------------------------------------------
(* The steps of checkPitExpire.                                            *)

(* The timer fires: every entry due now sits at or below i = size().       *)
LEMMA TimerFireKeepsOrder ==
  ASSUME TypeOK, LiveInv, SweepOrder, TimerFire
  PROVE  SweepOrder'
<1>1. /\ loop' = "sweep"
      /\ nowMilliseconds' = clock
      /\ sweepIndex' = Cardinality(pendingInterestTable)
      /\ dueAtTick' = {e.id : e \in {f \in pendingInterestTable : IsTimedOut(f, clock)}}
      /\ UNCHANGED <<clock, pendingInterestTable, lastPendingInterestId>>
  BY DEF TimerFire, timeVars, pitVars
<1>2. \A id \in dueAtTick' : id <= lastPendingInterestId'
  BY <1>1 DEF LiveInv, PendingEntriesLive
<1>3. \A e \in pendingInterestTable : e.id \in dueAtTick' => e.deadline <= clock
  BY <1>1 DEF LiveInv, PendingEntriesLive, IsTimedOut
<1>4. \A e \in pendingInterestTable :
        Position(pendingInterestTable, e) <= Cardinality(pendingInterestTable)
  BY PitIdTable, PositionLeSize
<1>5. nowMilliseconds' <= clock'
  BY <1>1 DEF TypeOK
<1>. QED
  BY <1>1, <1>2, <1>3, <1>4, <1>5 DEF SweepOrder

(* The entry at i has expired and is erased before its onTimeout runs:     *)
(* every other due entry has a smaller id, keeps its position and that is  *)
(* below i.                                                                *)
LEMMA SweepTimeoutKeepsOrder ==
  ASSUME TypeOK, LiveInv, SweepOrder, SweepTimeout
  PROVE  SweepOrder'
<1>1. PICK e \in pendingInterestTable :
        /\ loop = "sweep"
        /\ Position(pendingInterestTable, e) = sweepIndex
        /\ pendingInterestTable' = pendingInterestTable \ {e}
        /\ loop' = "timeoutCb"
        /\ UNCHANGED <<sweepIndex, nowMilliseconds, clock, dueAtTick, lastPendingInterestId>>
  BY DEF SweepTimeout, timeVars, pitVars, history
<1>2. ASSUME NEW f \in pendingInterestTable', f.id \in dueAtTick
      PROVE  Position(pendingInterestTable', f) < sweepIndex
  <2>1. f \in pendingInterestTable /\ f # e
    BY <1>1
  <2>2. f.id # e.id
    BY <2>1 DEF LiveInv, PendingEntriesLive
  <2>3. f.id \in Int /\ e.id \in Int
    BY <2>1, PitIdTable DEF IdTable
  <2>4. Position(pendingInterestTable, f) <= sweepIndex
    BY <1>1, <1>2, <2>1 DEF SweepOrder
  <2>0. IdTable(pendingInterestTable)
    BY PitIdTable
  <2>5. ~(e.id < f.id)
    <3>. SUFFICES ASSUME e.id < f.id PROVE FALSE
      OBVIOUS
    <3>1. Position(pendingInterestTable, e) < Position(pendingInterestTable, f)
      BY <2>0, <2>1, PositionStrict
    <3>2. Position(pendingInterestTable, f) \in Nat
      BY <2>0, <2>1, PositionType DEF IdTable
    <3>. QED
      BY <1>1, <2>4, <3>1, <3>2 DEF TypeOK
  <2>6. f.id < e.id
    BY <2>2, <2>3, <2>5
  <2>7. Position(pendingInterestTable', f) = Position(pendingInterestTable, f)
    BY <1>1, <2>1, <2>3, <2>6, PositionLarger
  <2>8. Position(pendingInterestTable, f) < Position(pendingInterestTable, e)
    BY <2>1, <2>6, PitIdTable, PositionStrict
  <2>. QED
    BY <1>1, <2>7, <2>8
<1>. QED
  BY <1>1, <1>2 DEF SweepOrder

(* The entry at i has not expired: a due entry at i would be that entry,   *)
(* and it has expired, so every due entry is below i.                      *)
LEMMA SweepSkipKeepsOrder ==
  ASSUME TypeOK, LiveInv, SweepOrder, SweepSkip
  PROVE  SweepOrder'
<1>1. PICK e \in pendingInterestTable :
        /\ loop = "sweep"
        /\ Position(pendingInterestTable, e) = sweepIndex
        /\ ~IsTimedOut(e, nowMilliseconds)
        /\ sweepIndex' = sweepIndex - 1
        /\ UNCHANGED <<loop, nowMilliseconds, clock, dueAtTick,
                       pendingInterestTable, lastPendingInterestId>>
  BY DEF SweepSkip, timeVars, pitVars, history
<1>2. ASSUME NEW f \in pendingInterestTable, f.id \in dueAtTick
      PROVE  Position(pendingInterestTable, f) <= sweepIndex - 1
  <2>1. Position(pendingInterestTable, f) <= sweepIndex
        /\ f.deadline <= nowMilliseconds
    BY <1>1, <1>2 DEF SweepOrder
  <2>2. f # e
    BY <1>1, <2>1 DEF IsTimedOut
  <2>3. f.id # e.id
    BY <2>2 DEF LiveInv, PendingEntriesLive
  <2>4. f.id \in Int /\ e.id \in Int
    BY PitIdTable DEF IdTable
  <2>0. IdTable(pendingInterestTable)
    BY PitIdTable
  <2>5. Position(pendingInterestTable, f) # Position(pendingInterestTable, e)
    <3>0. Position(pendingInterestTable, f) \in Nat
          /\ Position(pendingInterestTable, e) \in Nat
      BY <2>0, PositionType DEF IdTable
    <3>1. CASE f.id < e.id
      <4>1. Position(pendingInterestTable, f) < Position(pendingInterestTable, e)
        BY <2>0, <3>1, PositionStrict
      <4>. QED
        BY <3>0, <4>1
    <3>2. CASE e.id < f.id
      <4>1. Position(pendingInterestTable, e) < Position(pendingInterestTable, f)
        BY <2>0, <3>2, PositionStrict
      <4>. QED
        BY <3>0, <4>1
    <3>. QED
      BY <2>3, <2>4, <3>1, <3>2
  <2>6. Position(pendingInterestTable, f) \in Nat
    BY PitIdTable, PositionType DEF IdTable
  <2>. QED
    BY <1>1, <2>1, <2>5, <2>6 DEF TypeOK
<1>. QED
  BY <1>1, <1>2 DEF SweepOrder

(* i is past the end: on the branch that goes on, every entry, due or not, *)
(* is at most size() < i, so below the new i.                              *)
LEMMA SweepOutOfBoundsKeepsOrder ==
  ASSUME TypeOK, SweepOrder, SweepOutOfBounds
  PROVE  SweepOrder'
<1>1. /\ loop = "sweep"
      /\ sweepIndex > Cardinality(pendingInterestTable)
      /\ UNCHANGED <<nowMilliseconds, clock, dueAtTick, pendingInterestTable,
                     lastPendingInterestId>>
  BY DEF SweepOutOfBounds, timeVars, pitVars, history
<1>2. CASE loop' = "crashed"
  BY <1>1, <1>2 DEF SweepOrder
<1>3. CASE sweepIndex' = sweepIndex - 1 /\ loop' = loop
  <2>1. \A f \in pendingInterestTable :
          Position(pendingInterestTable, f) <= Cardinality(pendingInterestTable)
    BY PitIdTable, PositionLeSize
  <2>2. Cardinality(pendingInterestTable) \in Nat
    BY FS_CardinalityType DEF TypeOK
  <2>3. \A f \in pendingInterestTable : Position(pendingInterestTable, f) \in Nat
    BY PitIdTable, PositionType DEF IdTable
  <2>. QED
    BY <1>1, <1>3, <2>1, <2>2, <2>3 DEF SweepOrder, TypeOK
<1>. QED
  BY <1>2, <1>3 DEF SweepOutOfBounds

(* The timeout callback returns: now is refreshed (it only grows) and the  *)
(* --i brings the due entries from below i to at most i.                   *)
LEMMA CallbackReturnKeepsOrder ==
  ASSUME TypeOK, SweepOrder, TimeoutCallbackReturn
  PROVE  SweepOrder'
<1>1. /\ loop = "timeoutCb" /\ loop' = "sweep"
      /\ nowMilliseconds' = clock /\ sweepIndex' = sweepIndex - 1
      /\ UNCHANGED <<clock, dueAtTick, pendingInterestTable, lastPendingInterestId>>
  BY DEF TimeoutCallbackReturn, timeVars, pitVars, history
<1>2. \A f \in pendingInterestTable : Position(pendingInterestTable, f) \in Nat
  BY PitIdTable, PositionType DEF IdTable
<1>3. sweepIndex \in Nat /\ clock \in Nat /\ nowMilliseconds \in Nat
  BY DEF TypeOK
<1>4. nowMilliseconds' <= clock'
  BY <1>1, <1>3
<1>5. \A id \in dueAtTick' : id <= lastPendingInterestId'
  BY <1>1 DEF SweepOrder
<1>6. ASSUME NEW e \in pendingInterestTable', e.id \in dueAtTick'
      PROVE  /\ e.deadline <= nowMilliseconds'
             /\ loop' = "sweep" => Position(pendingInterestTable', e) <= sweepIndex'
             /\ loop' # "idle"
  <2>1. e.deadline <= nowMilliseconds /\ Position(pendingInterestTable, e) < sweepIndex
    BY <1>1, <1>6 DEF SweepOrder
  <2>2. e.deadline \in Int
    BY <1>1, <1>6 DEF TypeOK, PitEntry
  <2>3. Position(pendingInterestTable, e) \in Nat
    BY <1>1, <1>2, <1>6
  <2>4. nowMilliseconds <= clock
    BY DEF SweepOrder
  <2>. QED
    BY <1>1, <1>3, <2>1, <2>2, <2>3, <2>4
<1>. QED
  BY <1>1, <1>4, <1>5, <1>6 DEF SweepOrder

(* The loop ends at i = 0: no due entry can sit at a position below 1.     *)
LEMMA SweepEndKeepsOrder ==
  ASSUME TypeOK, SweepOrder, SweepEnd
  PROVE  SweepOrder'
<1>1. /\ loop = "sweep" /\ loop' = "idle" /\ sweepIndex = 0
      /\ UNCHANGED <<nowMilliseconds, clock, dueAtTick, pendingInterestTable,
                     lastPendingInterestId, sweepIndex>>
  BY DEF SweepEnd, pitVars, history
<1>2. \A f \in pendingInterestTable : Position(pendingInterestTable, f) \in Nat \ {0}
  BY PitIdTable, PositionType DEF IdTable
<1>3. \A f \in pendingInterestTable : f.id \notin dueAtTick
  BY <1>1, <1>2 DEF SweepOrder
<1>. QED
  BY <1>1, <1>3 DEF SweepOrder

----------------------------------------------------------------------------
(* SweepOrder is preserved by every step of the node.                     *)
THEOREM SweepStep_Order == TypeOK /\ LiveInv /\ SweepOrder /\ [Next]_vars => SweepOrder'
<1> SUFFICES ASSUME TypeOK, LiveInv, SweepOrder, [Next]_vars PROVE SweepOrder'
  OBVIOUS
<1>0. clock \in Nat
  BY DEF TypeOK
<1>1. ASSUME NEW n \in AppNames, NEW l \in Lifetimes, ExpressInterest(n, l)
      PROVE  SweepOrder'
  <2>1. PICK new : /\ new.id = lastPendingInterestId + 1
                   /\ pendingInterestTable' = pendingInterestTable \cup {new}
                   /\ lastPendingInterestId' = lastPendingInterestId + 1
                   /\ lastPendingInterestId < MaxPendingInterestId
    BY <1>1, DoExpressInterestAppends DEF ExpressInterest
  <2>2. UNCHANGED <<dueAtTick, loop, sweepIndex, nowMilliseconds, clock>>
    BY <1>1 DEF ExpressInterest, timeVars, loopVars, history
  <2>. QED
    BY <2>1, <2>2, AddKeepsOrder
<1>2. ASSUME NEW id \in PitIds, RemovePendingInterest(id)
      PROVE  SweepOrder'
  <2>1. pendingInterestTable' \subseteq pendingInterestTable
    BY <1>2 DEF RemovePendingInterest
  <2>2. UNCHANGED <<dueAtTick, loop, sweepIndex, nowMilliseconds, clock,
                    lastPendingInterestId>>
    BY <1>2 DEF RemovePendingInterest, timeVars, loopVars
  <2>. QED
    BY <2>1, <2>2, EraseKeepsOrder
<1>3. ASSUME NEW p \in RegNames, RegisterPrefix(p)
      PROVE  SweepOrder'
  <2>0. UNCHANGED <<dueAtTick, loop, sweepIndex, nowMilliseconds, clock>>
    BY <1>3 DEF RegisterPrefix, timeVars, loopVars, history
  <2>1. CASE ndndId = NoNdndId
    <3>1. PICK new : /\ new.id = lastPendingInterestId + 1
                     /\ pendingInterestTable' = pendingInterestTable \cup {new}
                     /\ lastPendingInterestId' = lastPendingInterestId + 1
                     /\ lastPendingInterestId < MaxPendingInterestId
      BY <1>3, <2>1, DoExpressInterestAppends DEF RegisterPrefix
    <3>. QED
      BY <2>0, <3>1, AddKeepsOrder
  <2>2. CASE ndndId # NoNdndId
    <3>1. UNCHANGED <<pendingInterestTable, lastPendingInterestId>>
      BY <1>3, <2>2 DEF RegisterPrefix, pitVars
    <3>. QED
      BY <1>0, <2>0, <3>1, OtherKeepsOrder
  <2>. QED
    BY <2>1, <2>2
<1>4. ASSUME NEW n \in DataNames, ReceiveData(n)
      PROVE  SweepOrder'
  <2>1. pendingInterestTable' \subseteq pendingInterestTable
    BY <1>4 DEF ReceiveData
  <2>2. UNCHANGED <<dueAtTick, loop, sweepIndex, nowMilliseconds, clock,
                    lastPendingInterestId>>
    BY <1>4 DEF ReceiveData, timeVars, loopVars
  <2>. QED
    BY <2>1, <2>2, EraseKeepsOrder
<1>5. CASE TimerFire
  BY <1>5, TimerFireKeepsOrder
<1>6. CASE SweepTimeout
  BY <1>6, SweepTimeoutKeepsOrder
<1>7. CASE SweepSkip
  BY <1>7, SweepSkipKeepsOrder
<1>8. CASE SweepOutOfBounds
  BY <1>8, SweepOutOfBoundsKeepsOrder
<1>9. CASE TimeoutCallbackReturn
  BY <1>9, CallbackReturnKeepsOrder
<1>10. CASE SweepEnd
  BY <1>10, SweepEndKeepsOrder
<1>11. CASE Tick
  <2>1. clock' = clock + 1
        /\ UNCHANGED <<pendingInterestTable, lastPendingInterestId, dueAtTick, loop,
                       sweepIndex, nowMilliseconds>>
    BY <1>11 DEF Tick, loopVars, pitVars, history
  <2>. QED
    BY <1>0, <2>1, OtherKeepsOrder
<1>12. CASE \/ \E id \in RegIds : RemoveRegisteredPrefix(id)
            \/ Shutdown
            \/ \E n \in DataNames : DropData(n)
            \/ \E n \in InterestNames : ReceiveInterest(n) \/ DropInterest(n)
            \/ Terminated \/ UNCHANGED vars
  <2>1. UNCHANGED <<clock, pendingInterestTable, lastPendingInterestId, dueAtTick,
                    loop, sweepIndex, nowMilliseconds>>
    BY <1>12 DEF RemoveRegisteredPrefix, Shutdown, DropData, ReceiveInterest,
                 DropInterest, Terminated, vars, timeVars, loopVars, pitVars, history
  <2>. QED
    BY <1>0, <2>1, OtherKeepsOrder
<1>. QED
  BY <1>1, <1>2, <1>3, <1>4, <1>5, <1>6, <1>7, <1>8, <1>9, <1>10, <1>11, <1>12
  DEF Next, AppStep, ForwarderStep, SweepStep

(* No expired entry survives a sweep (SweepLeavesNoExpired): whenever      *)
(* checkPitExpire is not running, no entry that had expired when it last   *)
(* started is still in pendingInterestTable_, whatever its timeout         *)
(* callbacks erased or added, for every number of entries and lifetimes.   *)
THEOREM SweepCorrect == Spec => []SweepLeavesNoExpired
<1>1. Init => TypeInv /\ LiveInv /\ SweepOrder
  <2>. SUFFICES ASSUME Init PROVE TypeInv /\ LiveInv /\ SweepOrder
    OBVIOUS
  <2>1. TypeInv
    BY TypeInit
  <2>2. LiveInv
    BY DEF Init, LiveInv, PendingEntriesLive, CallbackAtMostOnce
  <2>3. SweepOrder
    BY DEF Init, SweepOrder
  <2>. QED
    BY <2>1, <2>2, <2>3
<1>2. TypeInv /\ LiveInv /\ SweepOrder /\ [Next]_vars
        => (TypeInv /\ LiveInv /\ SweepOrder)'
  BY TypeStep, LiveStep, SweepStep_Order DEF TypeInv
<1>3. SweepOrder => SweepLeavesNoExpired
  BY DEF SweepOrder, SweepLeavesNoExpired
<1>. QED
  BY <1>1, <1>2, <1>3, PTL DEF Spec

=============================================================================

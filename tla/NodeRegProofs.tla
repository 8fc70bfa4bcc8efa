---------------------------- MODULE NodeRegProofs ----------------------------
(***************************************************************************)
(* The proof that a registration never both fails and registers           *)
(* (FailedNeverRegistered), for every value of the constants.             *)
(*                                                                         *)
(* The argument is the invariant RegistrationLive: registerPrefix takes a  *)
(* fresh id, a registration has at most one NdndIdFetcher probe, and       *)
(* while the probe is pending neither of its two outcomes has happened.   *)
(* The probe is erased in the step that runs its onData or its onTimeout,  *)
(* so the second outcome can never follow the first.                       *)
(***************************************************************************)
EXTENDS NodeSweepProofs

USE TimeAssumption, IdAssumption

(* What DoExpressInterest appends: the entry with the next id and the      *)
(* callbacks, registration and prefix it was given.                        *)
LEMMA DoExpressInterestEntry ==
  ASSUME NEW name, NEW lifetime, NEW cb, NEW reg, NEW prefix,
         DoExpressInterest(name, lifetime, cb, reg, prefix)
  PROVE  \E new : /\ new.cb = cb /\ new.reg = reg
                  /\ pendingInterestTable' = pendingInterestTable \cup {new}
<1> DEFINE new == PendingInterest(lastPendingInterestId + 1, name, lifetime, cb, reg, prefix)
<1>1. new.cb = cb /\ new.reg = reg
  BY DEF PendingInterest
<1>. QED
  BY <1>1 DEF DoExpressInterest

(* A step that at most drops probes and registrations, and leaves the      *)
(* failures and the counter alone, keeps RegistrationLive.                 *)
LEMMA ShrinkKeepsReg ==
  ASSUME RegistrationLive,
         Probes' \subseteq Probes,
         registeredPrefixTable' \subseteq registeredPrefixTable,
         UNCHANGED <<regFailed, lastRegisteredPrefixId>>
  PROVE  RegistrationLive'
BY DEF RegistrationLive, FailedNeverRegistered

(* The probe's onData (registerPrefixHelper) or its onTimeout              *)
(* (onRegisterFailed) ends the registration of an erased probe e: no other *)
(* probe is left for it, and it had neither outcome yet.                   *)
LEMMA SettleKeepsReg ==
  ASSUME TypeOK, RegistrationLive,
         NEW e \in Probes,
         Probes' \subseteq Probes \ {e},
         \/ /\ registeredPrefixTable' = registeredPrefixTable \cup {[id |-> e.reg, prefix |-> e.prefix]}
            /\ UNCHANGED regFailed
         \/ /\ regFailed' = regFailed \cup {e.reg}
            /\ UNCHANGED registeredPrefixTable,
         UNCHANGED lastRegisteredPrefixId
  PROVE  RegistrationLive'
<1>1. \A f \in Probes' : f.reg # e.reg
  BY DEF RegistrationLive
<1>2. e.reg <= lastRegisteredPrefixId /\ e.reg \notin regFailed
      /\ \A r \in registeredPrefixTable : r.id # e.reg
  BY DEF RegistrationLive
<1>. QED
  BY <1>1, <1>2 DEF RegistrationLive, FailedNeverRegistered

(* registerPrefix takes the next id: it has no probe, no failure and no    *)
(* entry yet, so adding its probe or its entry keeps RegistrationLive.     *)
LEMMA FreshKeepsReg ==
  ASSUME TypeOK, RegistrationLive,
         lastRegisteredPrefixId' = lastRegisteredPrefixId + 1,
         UNCHANGED regFailed,
         \/ /\ \E new : /\ new.reg = lastRegisteredPrefixId + 1
                        /\ Probes' = Probes \cup {new}
            /\ UNCHANGED registeredPrefixTable
         \/ /\ \E p : registeredPrefixTable' =
                        registeredPrefixTable \cup {[id |-> lastRegisteredPrefixId + 1, prefix |-> p]}
            /\ Probes' = Probes
  PROVE  RegistrationLive'
<1> DEFINE n == lastRegisteredPrefixId + 1
<1>1. lastRegisteredPrefixId \in Nat
  BY DEF TypeOK
<1>2. \A f \in Probes : f.reg \in Int
  BY DEF Probes, TypeOK, PitEntry, RegIds
<1>3. \A r \in registeredPrefixTable : r.id \in Int
  BY DEF TypeOK, RptEntry, RegIds
<1>4. /\ n \notin regFailed
      /\ \A r \in registeredPrefixTable : r.id # n
      /\ \A f \in Probes : f.reg # n
  BY <1>1, <1>2, <1>3 DEF RegistrationLive, TypeOK, RegIds
<1>5. /\ \A id \in regFailed : id <= n
      /\ \A r \in registeredPrefixTable : r.id <= n
      /\ \A f \in Probes : f.reg <= n
  BY <1>1, <1>2, <1>3 DEF RegistrationLive, TypeOK, RegIds
<1>. QED
  BY <1>4, <1>5 DEF RegistrationLive, FailedNeverRegistered
(* Each step of Next keeps RegistrationLive.                               *)
THEOREM RegStep == TypeOK /\ RegistrationLive /\ [Next]_vars => RegistrationLive'
<1> SUFFICES ASSUME TypeOK, RegistrationLive, [Next]_vars PROVE RegistrationLive'
  OBVIOUS
<1>0. UNCHANGED <<pendingInterestTable, registeredPrefixTable, regFailed,
                  lastRegisteredPrefixId>> => RegistrationLive'
  BY DEF RegistrationLive, FailedNeverRegistered, Probes
<1>1. ASSUME NEW n \in AppNames, NEW l \in Lifetimes, ExpressInterest(n, l)
      PROVE  RegistrationLive'
  <2>1. PICK new : new.cb = "app" /\ pendingInterestTable' = pendingInterestTable \cup {new}
    BY <1>1, DoExpressInterestEntry DEF ExpressInterest
  <2>2. Probes' = Probes
    BY <2>1 DEF Probes
  <2>3. UNCHANGED <<registeredPrefixTable, regFailed, lastRegisteredPrefixId>>
    BY <1>1 DEF ExpressInterest, rptVars, history
  <2>. QED
    BY <2>2, <2>3, ShrinkKeepsReg
<1>2. ASSUME NEW id \in PitIds, RemovePendingInterest(id)
      PROVE  RegistrationLive'
  <2>1. Probes' \subseteq Probes
    BY <1>2 DEF RemovePendingInterest, Probes
  <2>2. UNCHANGED <<registeredPrefixTable, regFailed, lastRegisteredPrefixId>>
    BY <1>2 DEF RemovePendingInterest, rptVars
  <2>. QED
    BY <2>1, <2>2, ShrinkKeepsReg
<1>3. ASSUME NEW p \in RegNames, RegisterPrefix(p)
      PROVE  RegistrationLive'
  <2>0. lastRegisteredPrefixId' = lastRegisteredPrefixId + 1 /\ UNCHANGED regFailed
    BY <1>3 DEF RegisterPrefix, history
  <2>1. CASE ndndId = NoNdndId
    <3>1. PICK new : /\ new.cb = "fetcher" /\ new.reg = lastRegisteredPrefixId + 1
                     /\ pendingInterestTable' = pendingInterestTable \cup {new}
      BY <1>3, <2>1, DoExpressInterestEntry DEF RegisterPrefix
    <3>2. Probes' = Probes \cup {new}
      BY <3>1 DEF Probes
    <3>3. UNCHANGED registeredPrefixTable
      BY <1>3, <2>1 DEF RegisterPrefix
    <3>. QED
      BY <2>0, <3>1, <3>2, <3>3, FreshKeepsReg
  <2>2. CASE ndndId # NoNdndId
    <3>1. registeredPrefixTable' =
            registeredPrefixTable \cup {[id |-> lastRegisteredPrefixId + 1, prefix |-> p]}
      BY <1>3, <2>2 DEF RegisterPrefix, RegisterPrefixHelper
    <3>2. Probes' = Probes
      BY <1>3, <2>2 DEF RegisterPrefix, pitVars, Probes
    <3>. QED
      BY <2>0, <3>1, <3>2, FreshKeepsReg
  <2>. QED
    BY <2>1, <2>2
<1>4. ASSUME NEW id \in RegIds, RemoveRegisteredPrefix(id)
      PROVE  RegistrationLive'
  <2>1. Probes' = Probes
    BY <1>4 DEF RemoveRegisteredPrefix, pitVars, Probes
  <2>2. registeredPrefixTable' \subseteq registeredPrefixTable
        /\ UNCHANGED <<regFailed, lastRegisteredPrefixId>>
    BY <1>4 DEF RemoveRegisteredPrefix
  <2>. QED
    BY <2>1, <2>2, ShrinkKeepsReg
<1>5. ASSUME NEW n \in DataNames, ReceiveData(n)
      PROVE  RegistrationLive'
  <2>1. PICK e \in pendingInterestTable :
               /\ pendingInterestTable' = pendingInterestTable \ {e}
               /\ \/ /\ e.cb = "app"
                     /\ UNCHANGED <<sent, rptVars>>
                  \/ /\ e.cb = "fetcher"
                     /\ RegisterPrefixHelper(e.reg, e.prefix, HubNdndId)
                     /\ UNCHANGED lastRegisteredPrefixId
               /\ UNCHANGED regFailed
    BY <1>5 DEF ReceiveData
  <2>2. Probes' \subseteq Probes \ {e}
    BY <2>1 DEF Probes
  <2>3. CASE e.cb = "app"
    <3>1. UNCHANGED <<registeredPrefixTable, lastRegisteredPrefixId>>
      BY <2>1, <2>3 DEF rptVars
    <3>. QED
      BY <2>1, <2>2, <3>1, ShrinkKeepsReg
  <2>4. CASE e.cb = "fetcher"
    <3>1. e \in Probes
      BY <2>4 DEF Probes
    <3>2. registeredPrefixTable' =
            registeredPrefixTable \cup {[id |-> e.reg, prefix |-> e.prefix]}
          /\ UNCHANGED lastRegisteredPrefixId
      BY <2>1, <2>4 DEF RegisterPrefixHelper
    <3>. QED
      BY <2>1, <2>2, <3>1, <3>2, SettleKeepsReg
  <2>. QED
    BY <2>1, <2>3, <2>4
<1>6. CASE SweepTimeout
  <2>1. PICK e \in pendingInterestTable :
               /\ pendingInterestTable' = pendingInterestTable \ {e}
               /\ regFailed' = IF e.cb = "fetcher" THEN regFailed \cup {e.reg} ELSE regFailed
               /\ UNCHANGED <<registeredPrefixTable, lastRegisteredPrefixId>>
    BY <1>6 DEF SweepTimeout, rptVars
  <2>2. Probes' \subseteq Probes \ {e}
    BY <2>1 DEF Probes
  <2>3. CASE e.cb = "fetcher"
    <3>1. e \in Probes /\ regFailed' = regFailed \cup {e.reg}
      BY <2>1, <2>3 DEF Probes
    <3>. QED
      BY <2>1, <2>2, <3>1, SettleKeepsReg
  <2>4. CASE e.cb # "fetcher"
    BY <2>1, <2>2, <2>4, ShrinkKeepsReg
  <2>. QED
    BY <2>3, <2>4
<1>7. CASE \/ Shutdown
           \/ \E n \in DataNames : DropData(n)
           \/ \E n \in InterestNames : ReceiveInterest(n) \/ DropInterest(n)
           \/ TimerFire \/ SweepSkip \/ SweepOutOfBounds \/ TimeoutCallbackReturn
           \/ SweepEnd \/ Tick \/ Terminated \/ UNCHANGED vars
  <2>. UNCHANGED <<pendingInterestTable, registeredPrefixTable, regFailed,
                   lastRegisteredPrefixId>>
    BY <1>7 DEF Shutdown, DropData, ReceiveInterest, DropInterest, TimerFire,
                SweepSkip, SweepOutOfBounds, TimeoutCallbackReturn, SweepEnd, Tick,
                Terminated, vars, pitVars, rptVars, history
  <2>. QED
    BY <1>0
<1>. QED
  BY <1>1, <1>2, <1>3, <1>4, <1>5, <1>6, <1>7
  DEF Next, AppStep, ForwarderStep, SweepStep

(* A registration never both fails and registers (FailedNeverRegistered):  *)
(* no id reported through onRegisterFailed by the NdndIdFetcher's timeout  *)
(* is ever in registeredPrefixTable_, for any number of registrations,     *)
(* probes and interleavings of their Data and timeouts.                    *)
THEOREM RegistrationCorrect == Spec => []FailedNeverRegistered
<1>1. Init => TypeInv /\ RegistrationLive
  <2>. SUFFICES ASSUME Init PROVE TypeInv /\ RegistrationLive
    OBVIOUS
  <2>1. TypeInv
    BY TypeInit
  <2>2. RegistrationLive
    BY DEF Init, RegistrationLive, FailedNeverRegistered, Probes
  <2>. QED
    BY <2>1, <2>2
<1>2. TypeInv /\ RegistrationLive /\ [Next]_vars => (TypeInv /\ RegistrationLive)'
  BY TypeStep, RegStep DEF TypeInv
<1>3. RegistrationLive => FailedNeverRegistered
  BY DEF RegistrationLive
<1>. QED
  BY <1>1, <1>2, <1>3, PTL DEF Spec

(* The whole inductive invariant IInv, which the inductive run checks, holds *)
(* in every reachable state: the type with the positive loop index, the    *)
(* live PIT entries with at-most-once callbacks, the sweep order and the   *)
(* live registrations together.                                            *)
THEOREM Inductive == Spec => []IInv
<1>. DEFINE All == TypeInv /\ LiveInv /\ SweepOrder /\ RegistrationLive
<1>1. Init => All
  <2>. SUFFICES ASSUME Init PROVE All
    OBVIOUS
  <2>1. TypeInv
    BY TypeInit
  <2>. QED
    BY <2>1 DEF Init, LiveInv, PendingEntriesLive, CallbackAtMostOnce, SweepOrder,
                RegistrationLive, FailedNeverRegistered, Probes
<1>2. All /\ [Next]_vars => All'
  BY TypeStep, LiveStep, SweepStep_Order, RegStep DEF TypeInv
<1>3. All => IInv
  BY DEF TypeInv, LiveInv, IInv
<1>. QED
  BY <1>1, <1>2, <1>3, PTL DEF Spec

----------------------------------------------------------------------------
(* The refinement of RegistrationProtocol.  Each lemma is one kind of      *)
(* step: it names the abstract step that the detailed one maps to.        *)

(* The status of an id that the step leaves alone stays what it was.       *)
LEMMA RegStatusSame ==
  ASSUME NEW j \in RegIds,
         (j > lastRegisteredPrefixId') <=> (j > lastRegisteredPrefixId),
         (\E e \in Probes' : e.reg = j) <=> (\E e \in Probes : e.reg = j),
         (j \in regFailed') <=> (j \in regFailed)
  PROVE  RegStatus'[j] = RegStatus[j]
BY DEF RegStatus

(* A step that changes the status of one id n is an EXCEPT at n.           *)
LEMMA RegStatusExcept ==
  ASSUME NEW n \in RegIds, NEW v,
         RegStatus'[n] = v,
         \A j \in RegIds \ {n} : RegStatus'[j] = RegStatus[j]
  PROVE  RegStatus' = [RegStatus EXCEPT ![n] = v]
<1>1. /\ RegStatus' = [j \in RegIds |-> RegStatus'[j]]
      /\ RegStatus = [j \in RegIds |-> RegStatus[j]]
  BY DEF RegStatus
<1>2. [RegStatus EXCEPT ![n] = v] = [j \in RegIds |-> IF j = n THEN v ELSE RegStatus[j]]
  BY <1>1
<1>. QED
  BY <1>1, <1>2

(* A step that leaves the probes, the failures, the counter and the table  *)
(* alone is a stutter of the protocol.                                     *)
LEMMA RegStutter ==
  ASSUME Probes' = Probes,
         UNCHANGED <<registeredPrefixTable, regFailed, lastRegisteredPrefixId>>
  PROVE  UNCHANGED REG!vars
BY DEF REG!vars, RegStatus, RegTable

(* The probe of a registerPrefix with no ndndId is RegisterProbing.        *)
LEMMA ProbingRefines ==
  ASSUME TypeOK, RegistrationLive,
         lastRegisteredPrefixId < MaxRegisteredPrefixId,
         lastRegisteredPrefixId' = lastRegisteredPrefixId + 1,
         NEW new, new.reg = lastRegisteredPrefixId + 1,
         Probes' = Probes \cup {new},
         UNCHANGED <<registeredPrefixTable, regFailed>>
  PROVE  REG!RegisterProbing
<1> DEFINE n == lastRegisteredPrefixId + 1
<1>1. n \in RegIds /\ lastRegisteredPrefixId \in Nat
  BY DEF TypeOK, RegIds
<1>2. RegStatus[n] = "unused"
  BY <1>1 DEF RegStatus
<1>3. RegStatus'[n] = "probing"
  BY <1>1 DEF RegStatus
<1>4. \A f \in Probes : f.reg <= lastRegisteredPrefixId /\ f.reg \in Int
  BY DEF RegistrationLive, Probes, TypeOK, PitEntry, RegIds
<1>5. ASSUME NEW j \in RegIds \ {n} PROVE RegStatus'[j] = RegStatus[j]
  <2>1. (j > lastRegisteredPrefixId') <=> (j > lastRegisteredPrefixId)
    BY <1>1 DEF RegIds
  <2>2. (\E e \in Probes' : e.reg = j) <=> (\E e \in Probes : e.reg = j)
    OBVIOUS
  <2>. QED
    BY <2>1, <2>2, RegStatusSame
<1>6. RegStatus' = [RegStatus EXCEPT ![n] = "probing"]
  BY <1>1, <1>3, <1>5, RegStatusExcept
<1>7. RegTable' = RegTable
  BY DEF RegTable
<1>. QED
  BY <1>2, <1>6, <1>7 DEF REG!RegisterProbing

(* registerPrefixHelper called by registerPrefix is RegisterDirect.        *)
LEMMA DirectRefines ==
  ASSUME TypeOK, RegistrationLive,
         lastRegisteredPrefixId < MaxRegisteredPrefixId,
         lastRegisteredPrefixId' = lastRegisteredPrefixId + 1,
         NEW p,
         registeredPrefixTable' =
           registeredPrefixTable \cup {[id |-> lastRegisteredPrefixId + 1, prefix |-> p]},
         Probes' = Probes,
         UNCHANGED regFailed
  PROVE  REG!RegisterDirect
<1> DEFINE n == lastRegisteredPrefixId + 1
<1>1. n \in RegIds /\ lastRegisteredPrefixId \in Nat
  BY DEF TypeOK, RegIds
<1>2. RegStatus[n] = "unused"
  BY <1>1 DEF RegStatus
<1>3. /\ \A f \in Probes : f.reg # n
      /\ n \notin regFailed
  <2>1. \A f \in Probes : f.reg <= lastRegisteredPrefixId /\ f.reg \in Int
    BY DEF RegistrationLive, Probes, TypeOK, PitEntry, RegIds
  <2>2. \A id \in regFailed : id <= lastRegisteredPrefixId /\ id \in Int
    BY DEF RegistrationLive, TypeOK, RegIds
  <2>. QED
    BY <1>1, <2>1, <2>2
<1>4. RegStatus'[n] = "closed"
  BY <1>1, <1>3 DEF RegStatus
<1>5. ASSUME NEW j \in RegIds \ {n} PROVE RegStatus'[j] = RegStatus[j]
  <2>1. (j > lastRegisteredPrefixId') <=> (j > lastRegisteredPrefixId)
    BY <1>1 DEF RegIds
  <2>. QED
    BY <2>1, RegStatusSame
<1>6. RegStatus' = [RegStatus EXCEPT ![n] = "closed"]
  BY <1>1, <1>4, <1>5, RegStatusExcept
<1>7. RegTable' = RegTable \cup {n}
  <2>1. [id |-> n, prefix |-> p].id = n
    OBVIOUS
  <2>. QED
    BY <2>1 DEF RegTable
<1>. QED
  BY <1>2, <1>6, <1>7 DEF REG!RegisterDirect

(* The end of a probe e: its Data (the id enters the table), its timeout   *)
(* (the id fails) or its cancellation.  The probe was the only one of its  *)
(* registration, so the status of e.reg goes from probing to the outcome. *)
LEMMA EndProbeStatus ==
  ASSUME TypeOK, RegistrationLive,
         NEW e \in Probes,
         Probes' = Probes \ {e},
         UNCHANGED lastRegisteredPrefixId,
         \/ UNCHANGED regFailed
         \/ regFailed' = regFailed \cup {e.reg}
  PROVE  /\ RegStatus[e.reg] = "probing"
         /\ RegStatus' = [RegStatus EXCEPT ![e.reg] =
                            IF e.reg \in regFailed' THEN "failed" ELSE "closed"]
<1>1. e.reg \in RegIds /\ e.reg <= lastRegisteredPrefixId /\ e.reg \notin regFailed
  BY DEF RegistrationLive, Probes, TypeOK, PitEntry
<1>2. \A f \in Probes' : f.reg # e.reg
  BY DEF RegistrationLive
<1>0. lastRegisteredPrefixId \in Nat /\ e.reg \in Nat
  BY <1>1 DEF TypeOK, RegIds
<1>3. RegStatus[e.reg] = "probing"
  <2>1. ~(e.reg > lastRegisteredPrefixId)
    BY <1>0, <1>1
  <2>. QED
    BY <1>1, <2>1 DEF RegStatus
<1>4. RegStatus'[e.reg] = IF e.reg \in regFailed' THEN "failed" ELSE "closed"
  <2>1. ~(e.reg > lastRegisteredPrefixId')
    BY <1>0, <1>1
  <2>2. ~\E f \in Probes' : f.reg = e.reg
    BY <1>2
  <2>. QED
    BY <1>1, <2>1, <2>2 DEF RegStatus
<1>5. ASSUME NEW j \in RegIds \ {e.reg} PROVE RegStatus'[j] = RegStatus[j]
  <2>1. (\E f \in Probes' : f.reg = j) <=> (\E f \in Probes : f.reg = j)
    OBVIOUS
  <2>2. (j \in regFailed') <=> (j \in regFailed)
    OBVIOUS
  <2>. QED
    BY <2>1, <2>2, RegStatusSame
<1>. QED
  BY <1>1, <1>3, <1>4, <1>5, RegStatusExcept

(* Each step of Next is a step of the registration protocol or leaves it   *)
(* as it is.                                                               *)
THEOREM RegRefineStep ==
  TypeOK /\ LiveInv /\ RegistrationLive /\ [Next]_vars => [REG!Next]_REG!vars
<1> SUFFICES ASSUME TypeOK, LiveInv, RegistrationLive, [Next]_vars
             PROVE  [REG!Next]_REG!vars
  OBVIOUS
<1>0. UNCHANGED <<pendingInterestTable, registeredPrefixTable, regFailed,
                  lastRegisteredPrefixId>> => UNCHANGED REG!vars
  BY RegStutter DEF Probes
<1>1. ASSUME NEW n \in AppNames, NEW l \in Lifetimes, ExpressInterest(n, l)
      PROVE  [REG!Next]_REG!vars
  <2>1. PICK new : new.cb = "app" /\ pendingInterestTable' = pendingInterestTable \cup {new}
    BY <1>1, DoExpressInterestEntry DEF ExpressInterest
  <2>2. Probes' = Probes
    BY <2>1 DEF Probes
  <2>3. UNCHANGED <<registeredPrefixTable, regFailed, lastRegisteredPrefixId>>
    BY <1>1 DEF ExpressInterest, rptVars, history
  <2>. QED
    BY <2>2, <2>3, RegStutter
<1>2. ASSUME NEW id \in PitIds, RemovePendingInterest(id)
      PROVE  [REG!Next]_REG!vars
  <2>0. /\ pendingInterestTable' = {e \in pendingInterestTable : e.id # id}
        /\ UNCHANGED <<registeredPrefixTable, regFailed, lastRegisteredPrefixId>>
    BY <1>2 DEF RemovePendingInterest, rptVars
  <2>1. CASE \E e \in Probes : e.id = id
    <3>1. PICK e \in Probes : e.id = id
      BY <2>1
    <3>2. pendingInterestTable' = pendingInterestTable \ {e}
      BY <2>0, <3>1 DEF LiveInv, PendingEntriesLive, Probes
    <3>3. Probes' = Probes \ {e}
      BY <3>2 DEF Probes
    <3>4. /\ RegStatus[e.reg] = "probing"
          /\ RegStatus' = [RegStatus EXCEPT ![e.reg] = "closed"]
      <4>1. e.reg \notin regFailed'
        BY <2>0, <3>1, <3>3 DEF RegistrationLive, Probes
      <4>2. /\ RegStatus[e.reg] = "probing"
            /\ RegStatus' = [RegStatus EXCEPT ![e.reg] =
                               IF e.reg \in regFailed' THEN "failed" ELSE "closed"]
        BY <2>0, <3>3, EndProbeStatus
      <4>. QED
        BY <4>1, <4>2
    <3>5. e.reg \in RegIds /\ RegTable' = RegTable
      BY <2>0 DEF Probes, TypeOK, PitEntry, RegTable
    <3>6. REG!Abandon(e.reg)
      BY <2>0, <3>4, <3>5 DEF REG!Abandon
    <3>. QED
      BY <3>5, <3>6 DEF REG!Next
  <2>2. CASE ~\E e \in Probes : e.id = id
    <3>1. Probes' = Probes
      BY <2>0, <2>2 DEF Probes
    <3>. QED
      BY <2>0, <3>1, RegStutter
  <2>. QED
    BY <2>1, <2>2
<1>3. ASSUME NEW p \in RegNames, RegisterPrefix(p)
      PROVE  [REG!Next]_REG!vars
  <2>0. /\ lastRegisteredPrefixId < MaxRegisteredPrefixId
        /\ lastRegisteredPrefixId' = lastRegisteredPrefixId + 1
        /\ UNCHANGED regFailed
    BY <1>3 DEF RegisterPrefix, history
  <2>1. CASE ndndId = NoNdndId
    <3>1. PICK new : /\ new.cb = "fetcher" /\ new.reg = lastRegisteredPrefixId + 1
                     /\ pendingInterestTable' = pendingInterestTable \cup {new}
      BY <1>3, <2>1, DoExpressInterestEntry DEF RegisterPrefix
    <3>2. Probes' = Probes \cup {new}
      BY <3>1 DEF Probes
    <3>3. UNCHANGED registeredPrefixTable
      BY <1>3, <2>1 DEF RegisterPrefix
    <3>. QED
      BY <2>0, <3>1, <3>2, <3>3, ProbingRefines DEF REG!Next
  <2>2. CASE ndndId # NoNdndId
    <3>1. registeredPrefixTable' =
            registeredPrefixTable \cup {[id |-> lastRegisteredPrefixId + 1, prefix |-> p]}
      BY <1>3, <2>2 DEF RegisterPrefix, RegisterPrefixHelper
    <3>2. Probes' = Probes
      BY <1>3, <2>2 DEF RegisterPrefix, pitVars, Probes
    <3>. QED
      BY <2>0, <3>1, <3>2, DirectRefines DEF REG!Next
  <2>. QED
    BY <2>1, <2>2
<1>4. ASSUME NEW id \in RegIds, RemoveRegisteredPrefix(id)
      PROVE  [REG!Next]_REG!vars
  <2>1. Probes' = Probes /\ UNCHANGED <<regFailed, lastRegisteredPrefixId>>
    BY <1>4 DEF RemoveRegisteredPrefix, pitVars, Probes
  <2>2. RegStatus' = RegStatus
    BY <2>1 DEF RegStatus
  <2>3. RegTable' = RegTable \ {id}
    BY <1>4 DEF RemoveRegisteredPrefix, RegTable
  <2>4. REG!Remove(id)
    BY <2>1, <2>2, <2>3 DEF REG!Remove
  <2>. QED
    BY <2>4 DEF REG!Next
<1>5. ASSUME NEW n \in DataNames, ReceiveData(n)
      PROVE  [REG!Next]_REG!vars
  <2>1. PICK e \in pendingInterestTable :
               /\ pendingInterestTable' = pendingInterestTable \ {e}
               /\ \/ /\ e.cb = "app"
                     /\ UNCHANGED <<sent, rptVars>>
                  \/ /\ e.cb = "fetcher"
                     /\ RegisterPrefixHelper(e.reg, e.prefix, HubNdndId)
                     /\ UNCHANGED lastRegisteredPrefixId
               /\ UNCHANGED regFailed
    BY <1>5 DEF ReceiveData
  <2>2. CASE e.cb = "app"
    <3>1. Probes' = Probes
      BY <2>1, <2>2 DEF Probes
    <3>2. UNCHANGED <<registeredPrefixTable, lastRegisteredPrefixId>>
      BY <2>1, <2>2 DEF rptVars
    <3>. QED
      BY <2>1, <3>1, <3>2, RegStutter
  <2>3. CASE e.cb = "fetcher"
    <3>1. e \in Probes /\ Probes' = Probes \ {e}
      BY <2>1, <2>3 DEF Probes
    <3>2. registeredPrefixTable' =
            registeredPrefixTable \cup {[id |-> e.reg, prefix |-> e.prefix]}
          /\ UNCHANGED lastRegisteredPrefixId
      BY <2>1, <2>3 DEF RegisterPrefixHelper
    <3>3. /\ RegStatus[e.reg] = "probing"
          /\ RegStatus' = [RegStatus EXCEPT ![e.reg] = "closed"]
      <4>1. e.reg \notin regFailed'
        BY <2>1, <3>1, <3>2 DEF RegistrationLive, Probes
      <4>2. /\ RegStatus[e.reg] = "probing"
            /\ RegStatus' = [RegStatus EXCEPT ![e.reg] =
                               IF e.reg \in regFailed' THEN "failed" ELSE "closed"]
        BY <2>1, <3>1, <3>2, EndProbeStatus
      <4>. QED
        BY <4>1, <4>2
    <3>4. e.reg \in RegIds /\ RegTable' = RegTable \cup {e.reg}
      <4>1. [id |-> e.reg, prefix |-> e.prefix].id = e.reg
        OBVIOUS
      <4>. QED
        BY <3>1, <3>2, <4>1 DEF Probes, TypeOK, PitEntry, RegTable
    <3>5. REG!Answer(e.reg)
      BY <3>2, <3>3, <3>4 DEF REG!Answer
    <3>. QED
      BY <3>4, <3>5 DEF REG!Next
  <2>. QED
    BY <2>1, <2>2, <2>3
<1>6. CASE SweepTimeout
  <2>1. PICK e \in pendingInterestTable :
               /\ pendingInterestTable' = pendingInterestTable \ {e}
               /\ regFailed' = IF e.cb = "fetcher" THEN regFailed \cup {e.reg} ELSE regFailed
               /\ UNCHANGED <<registeredPrefixTable, lastRegisteredPrefixId>>
    BY <1>6 DEF SweepTimeout, rptVars
  <2>2. CASE e.cb = "fetcher"
    <3>1. e \in Probes /\ Probes' = Probes \ {e} /\ regFailed' = regFailed \cup {e.reg}
      BY <2>1, <2>2 DEF Probes
    <3>2. /\ RegStatus[e.reg] = "probing"
          /\ RegStatus' = [RegStatus EXCEPT ![e.reg] = "failed"]
      BY <2>1, <3>1, EndProbeStatus
    <3>3. e.reg \in RegIds /\ RegTable' = RegTable
      BY <2>1, <3>1 DEF Probes, TypeOK, PitEntry, RegTable
    <3>4. REG!Fail(e.reg)
      BY <2>1, <3>2, <3>3 DEF REG!Fail
    <3>. QED
      BY <3>3, <3>4 DEF REG!Next
  <2>3. CASE e.cb # "fetcher"
    <3>1. Probes' = Probes /\ UNCHANGED regFailed
      BY <2>1, <2>3 DEF Probes
    <3>. QED
      BY <2>1, <3>1, RegStutter
  <2>. QED
    BY <2>2, <2>3
<1>7. CASE \/ Shutdown
           \/ \E n \in DataNames : DropData(n)
           \/ \E n \in InterestNames : ReceiveInterest(n) \/ DropInterest(n)
           \/ TimerFire \/ SweepSkip \/ SweepOutOfBounds \/ TimeoutCallbackReturn
           \/ SweepEnd \/ Tick \/ Terminated \/ UNCHANGED vars
  <2>. UNCHANGED <<pendingInterestTable, registeredPrefixTable, regFailed,
                   lastRegisteredPrefixId>>
    BY <1>7 DEF Shutdown, DropData, ReceiveInterest, DropInterest, TimerFire,
                SweepSkip, SweepOutOfBounds, TimeoutCallbackReturn, SweepEnd, Tick,
                Terminated, vars, pitVars, rptVars, history
  <2>. QED
    BY <1>0
<1>. QED
  BY <1>1, <1>2, <1>3, <1>4, <1>5, <1>6, <1>7
  DEF Next, AppStep, ForwarderStep, SweepStep

(* Node implements the registration protocol (RegRefinement): under every  *)
(* interleaving of registerPrefix, removeRegisteredPrefix, the probes'     *)
(* Data and timeouts and removePendingInterest, each registration id goes  *)
(* unused -> probing -> registered, failed or cancelled, or straight to    *)
(* registered, and a failed one never enters registeredPrefixTable_, for   *)
(* all values of the constants.                                            *)
THEOREM RegRefinementCorrect == Spec => RegRefinement
<1>1. Init => REG!Init
  <2>. SUFFICES ASSUME Init PROVE REG!Init
    OBVIOUS
  <2>1. \A id \in RegIds : id > lastRegisteredPrefixId
    BY DEF Init, RegIds
  <2>2. RegStatus = [id \in RegIds |-> "unused"]
    BY <2>1 DEF RegStatus
  <2>3. RegTable = {}
    BY DEF Init, RegTable
  <2>. QED
    BY <2>2, <2>3 DEF Init, REG!Init
<1>2. Init => TypeInv /\ LiveInv /\ RegistrationLive
  <2>. SUFFICES ASSUME Init PROVE TypeInv /\ LiveInv /\ RegistrationLive
    OBVIOUS
  <2>1. TypeInv
    BY TypeInit
  <2>. QED
    BY <2>1 DEF Init, LiveInv, PendingEntriesLive, CallbackAtMostOnce,
                RegistrationLive, FailedNeverRegistered, Probes
<1>3. TypeInv /\ LiveInv /\ RegistrationLive /\ [Next]_vars
        => (TypeInv /\ LiveInv /\ RegistrationLive)'
  BY TypeStep, LiveStep, RegStep DEF TypeInv
<1>4. TypeInv /\ LiveInv /\ RegistrationLive /\ [Next]_vars => [REG!Next]_REG!vars
  BY RegRefineStep DEF TypeInv
<1>. QED
  BY <1>1, <1>2, <1>3, <1>4, PTL DEF Spec, RegRefinement, REG!Spec

=============================================================================

-------------------------------- MODULE Node --------------------------------
(***************************************************************************)
(* The NDN client core of src/src/node.cpp: the Pending Interest Table     *)
(* (PIT), the Registered Prefix Table (RPT), the two-phase prefix          *)
(* registration, the 100 ms PIT-expiry timer and the receive dispatcher,   *)
(* all driven by one single-threaded boost::asio event loop.               *)
(*                                                                         *)
(* Every handler runs to completion, except the timer handler              *)
(* checkPitExpire, which calls the application's timeout callback in the   *)
(* middle of its loop over the PIT.  That callback may re-enter the Node   *)
(* API, so the sweep is modelled one iteration at a time (loop = "sweep")  *)
(* with the callback as a state of its own (loop = "timeoutCb") in which   *)
(* the application's API calls are enabled.  The callbacks that end a      *)
(* handler (onData, onInterest) are followed by API calls made from idle.  *)
(*                                                                         *)
(* Both tables are std::vectors to which entries are only appended, each   *)
(* with an id one above every id before it, and from which entries are     *)
(* only erased.  A table is therefore sorted by id, and the model keeps    *)
(* it as the set of its entries: the position of an entry in the vector   *)
(* is the number of entries with an id not above its own, and "first in   *)
(* insertion order" is "least id".                                         *)
(***************************************************************************)
EXTENDS Integers, Sequences, FiniteSets, Name

CONSTANTS
  AppNames,          \* names the application expresses Interests for
  RegNames,          \* names the application registers
  DataNames,         \* names of Data packets the forwarder may deliver
  InterestNames,     \* names of Interests the forwarder may deliver
  ProbeName,         \* /%C1.M.S.localhost/%C1.M.SRV/ndnd/KEY
  Lifetimes,         \* Interest lifetimes the application uses (< 0: unset)
  DefaultLifetime,   \* 4000 ms: deadline when the lifetime is unset
  ProbeLifetime,     \* 4000.0 ms: lifetime of ndndIdFetcherInterest_
  TimerPeriod,       \* 100 ms: period of the PIT-expiry timer
  MaxTime,           \* bound of the clock
  MaxPendingInterestId,   \* bound of lastPendingInterestId_
  MaxRegisteredPrefixId,  \* bound of lastRegisteredPrefixId_
  NoNdndId,          \* the empty ndndId_
  HubNdndId          \* the ndndId the forwarder's key locator carries

ASSUME TimeAssumption ==
  /\ Lifetimes \subseteq Int
  /\ DefaultLifetime \in Nat /\ ProbeLifetime \in Nat
  /\ TimerPeriod \in Nat \ {0}
  /\ MaxTime \in Nat
ASSUME IdAssumption ==
  /\ MaxPendingInterestId \in Nat
  /\ MaxRegisteredPrefixId \in Nat
  /\ NoNdndId # HubNdndId

VARIABLES
  clock,                   \* ndn_getNowMilliseconds()
  timerDue,                \* expiry time of timer_
  loop,                    \* "idle", "sweep", "timeoutCb" or "crashed"
  running,                 \* ioService_ not stopped
  sweepIndex,              \* i of checkPitExpire's loop, 1-based
  nowMilliseconds,         \* checkPitExpire's local nowMilliseconds
  connected,               \* transport_->isConnected()
  sent,                    \* packets given to transport_->send
  pendingInterestTable,    \* pendingInterestTable_, as a set
  lastPendingInterestId,   \* PendingInterest::lastPendingInterestId_
  registeredPrefixTable,   \* registeredPrefixTable_, as a set
  lastRegisteredPrefixId,  \* RegisteredPrefix::lastRegisteredPrefixId_
  ndndId,                  \* ndndId_
  \* History of the callbacks, read only by the properties:
  fired,          \* PIT id -> calls of its onData or onTimeout
  cancelled,      \* PIT ids removed by removePendingInterest while pending
  regFailed,      \* registration ids given to onRegisterFailed
  regRemoved,     \* registration ids given to removeRegisteredPrefix
  dueAtTick,      \* PIT ids already expired when the last sweep started
  lastDispatch    \* the last onInterest call: prefix, Interest name

timeVars == <<clock, timerDue>>
loopVars == <<loop, running, sweepIndex, nowMilliseconds>>
pitVars  == <<pendingInterestTable, lastPendingInterestId>>
rptVars  == <<registeredPrefixTable, lastRegisteredPrefixId, ndndId>>
history  == <<fired, cancelled, regFailed, regRemoved, dueAtTick, lastDispatch>>
vars == <<timeVars, loopVars, connected, sent, pitVars, rptVars, history>>

PitIds == 1..MaxPendingInterestId
RegIds == 1..MaxRegisteredPrefixId
NoDispatch == [prefix |-> <<>>, name |-> <<>>, id |-> 0]

(* The position of entry e in the vector T, counted from 1.                *)
Position(T, e) == Cardinality({f \in T : f.id <= e.id})

(* A PendingInterest.  Its onData/onTimeout pair is the application's      *)
(* ("app") or the NdndIdFetcher of registration reg for prefix ("fetcher").*)
PendingInterest(id, name, lifetime, cb, reg, prefix) ==
  [id |-> id, name |-> name, cb |-> cb, reg |-> reg, prefix |-> prefix,
   deadline |-> IF lifetime >= 0 THEN clock + lifetime
                                 ELSE clock + DefaultLifetime]

(* PendingInterest::isTimedOut                                             *)
IsTimedOut(e, now) == e.deadline <= now

(* getEntryIndexForExpressedInterest returns e: the first entry whose      *)
(* Interest matches the Data name.                                         *)
IsEntryForExpressedInterest(e, name) ==
  /\ Match(e.name, name)
  /\ \A f \in pendingInterestTable : Match(f.name, name) => e.id <= f.id

(* getEntryForRegisteredPrefix returns r: the first of the entries with    *)
(* the longest prefix in the whole table.  The name is not consulted.      *)
(* Among equal lengths the first in vector order wins; registerPrefixHelper *)
(* may push ids out of order (a late probe answer), and the table is a set, *)
(* so the model lets any entry of the longest length be the one returned.  *)
IsEntryForRegisteredPrefix(r, name) ==
  \A q \in registeredPrefixTable : Len(q.prefix) <= Len(r.prefix)

----------------------------------------------------------------------------
(* Mutant: the id is read from the counter before it is incremented.      *)
BugDoExpressInterestStaleId(name, lifetime, cb, reg, prefix) ==
  /\ lastPendingInterestId < MaxPendingInterestId
  /\ connected' = TRUE
  /\ lastPendingInterestId' = lastPendingInterestId + 1
  /\ pendingInterestTable' =
       pendingInterestTable \cup
         {PendingInterest(lastPendingInterestId, name, lifetime, cb, reg, prefix)}
  /\ sent' = sent \cup {[type |-> "Interest", name |-> name, ndndId |-> NoNdndId]}

(* The body of expressInterest, shared with registerPrefix's ndndId probe: *)
(* connect if needed, take the next id, append the entry, send.            *)
DoExpressInterest(name, lifetime, cb, reg, prefix) ==
  /\ lastPendingInterestId < MaxPendingInterestId
  /\ connected' = TRUE
  /\ lastPendingInterestId' = lastPendingInterestId + 1
  /\ pendingInterestTable' =
       pendingInterestTable \cup
         {PendingInterest(lastPendingInterestId + 1, name, lifetime, cb, reg, prefix)}
  /\ sent' = sent \cup {[type |-> "Interest", name |-> name, ndndId |-> NoNdndId]}

(* registerPrefixHelper: build the self-registration Interest carrying the *)
(* ndndId, save the entry in the RPT, then send.                           *)
RegisterPrefixHelper(reg, prefix, id) ==
  /\ registeredPrefixTable' =
       registeredPrefixTable \cup {[id |-> reg, prefix |-> prefix]}
  /\ sent' = sent \cup {[type |-> "SelfReg", name |-> prefix, ndndId |-> id]}

(* The application may call the API from its code and from its callbacks,  *)
(* the timeout callback included, until it shuts the Node down.            *)
CanCallApi == running /\ loop \in {"idle", "timeoutCb"}

ExpressInterest(name, lifetime) ==
  /\ CanCallApi
  /\ DoExpressInterest(name, lifetime, "app", 0, <<>>)
  /\ UNCHANGED <<timeVars, loopVars, rptVars, history>>

(* Mutant: the id is used as a position, erase(begin() + id - 1).          *)
BugRemovePendingInterestByIndex(id) ==
  /\ CanCallApi
  /\ pendingInterestTable' =
       {e \in pendingInterestTable : Position(pendingInterestTable, e) # id}
  /\ cancelled' = IF \E e \in pendingInterestTable : e.id = id
                  THEN cancelled \cup {id} ELSE cancelled
  /\ UNCHANGED <<timeVars, loopVars, connected, sent, lastPendingInterestId,
                 rptVars, fired, regFailed, regRemoved, dueAtTick, lastDispatch>>

(* removePendingInterest: erase every entry with the id.                   *)
RemovePendingInterest(id) ==
  /\ CanCallApi
  /\ pendingInterestTable' = {e \in pendingInterestTable : e.id # id}
  /\ cancelled' = IF \E e \in pendingInterestTable : e.id = id
                  THEN cancelled \cup {id} ELSE cancelled
  /\ UNCHANGED <<timeVars, loopVars, connected, sent, lastPendingInterestId,
                 rptVars, fired, regFailed, regRemoved, dueAtTick, lastDispatch>>

(* registerPrefix: the id is taken at once; with no ndndId yet the         *)
(* registration waits for the reply to a probe Interest of its own.        *)
RegisterPrefix(prefix) ==
  /\ CanCallApi
  /\ lastRegisteredPrefixId < MaxRegisteredPrefixId
  /\ lastRegisteredPrefixId' = lastRegisteredPrefixId + 1
  /\ \/ /\ ndndId = NoNdndId
        /\ DoExpressInterest(ProbeName, ProbeLifetime, "fetcher",
                             lastRegisteredPrefixId + 1, prefix)
        /\ UNCHANGED registeredPrefixTable
     \/ /\ ndndId # NoNdndId
        /\ RegisterPrefixHelper(lastRegisteredPrefixId + 1, prefix, ndndId)
        /\ UNCHANGED <<connected, pitVars>>
  /\ UNCHANGED <<timeVars, loopVars, ndndId, history>>

(* removeRegisteredPrefix: erase every entry with the id.                  *)
RemoveRegisteredPrefix(id) ==
  /\ CanCallApi
  /\ registeredPrefixTable' = {r \in registeredPrefixTable : r.id # id}
  /\ regRemoved' = regRemoved \cup {id}
  /\ UNCHANGED <<timeVars, loopVars, connected, sent, pitVars,
                 lastRegisteredPrefixId, ndndId, fired, cancelled, regFailed,
                 dueAtTick, lastDispatch>>

(* shutdown: close the transport and stop the io_service.  A handler       *)
(* already running goes on to its end.                                     *)
Shutdown ==
  /\ CanCallApi
  /\ running' = FALSE
  /\ connected' = FALSE
  /\ UNCHANGED <<timeVars, loop, sweepIndex, nowMilliseconds, sent, pitVars,
                 rptVars, history>>

----------------------------------------------------------------------------
(* Mutant: the loop starts at size() - 1 read as a 1-based position.       *)
BugTimerFireFromSizeMinusOne ==
  /\ running
  /\ loop = "idle"
  /\ clock >= timerDue \/ clock = MaxTime
  /\ loop' = "sweep"
  /\ nowMilliseconds' = clock
  /\ sweepIndex' = Cardinality(pendingInterestTable) - 1
  /\ dueAtTick' = {e.id : e \in {f \in pendingInterestTable : IsTimedOut(f, clock)}}
  /\ UNCHANGED <<timeVars, running, connected, sent, pitVars, rptVars,
                 fired, cancelled, regFailed, regRemoved, lastDispatch>>

(* checkPitExpire, entered when timer_ expires.  At the bound of the clock *)
(* the clock stands for every later time, so the timer may fire again.     *)
TimerFire ==
  /\ running
  /\ loop = "idle"
  /\ clock >= timerDue \/ clock = MaxTime
  /\ loop' = "sweep"
  /\ nowMilliseconds' = clock
  /\ sweepIndex' = Cardinality(pendingInterestTable)
  /\ dueAtTick' = {e.id : e \in {f \in pendingInterestTable : IsTimedOut(f, clock)}}
  /\ UNCHANGED <<timeVars, running, connected, sent, pitVars, rptVars,
                 fired, cancelled, regFailed, regRemoved, lastDispatch>>

(* Mutant: the fetcher's timeout runs its success path as well.            *)
BugSweepTimeoutFetcherRegisters ==
  \E e \in pendingInterestTable :
    /\ loop = "sweep"
    /\ Position(pendingInterestTable, e) = sweepIndex
    /\ IsTimedOut(e, nowMilliseconds)
    /\ pendingInterestTable' = pendingInterestTable \ {e}
    /\ fired' = [fired EXCEPT ![e.id] = @ + 1]
    /\ regFailed' = IF e.cb = "fetcher" THEN regFailed \cup {e.reg} ELSE regFailed
    /\ IF e.cb = "fetcher"
         THEN RegisterPrefixHelper(e.reg, e.prefix, ndndId)
         ELSE UNCHANGED <<sent, registeredPrefixTable>>
    /\ loop' = "timeoutCb"
    /\ UNCHANGED <<timeVars, running, sweepIndex, nowMilliseconds, connected,
                   lastPendingInterestId, lastRegisteredPrefixId, ndndId,
                   cancelled, regRemoved, dueAtTick, lastDispatch>>

(* Mutant: the NdndIdFetcher's timeout does not report onRegisterFailed.   *)
BugSweepTimeoutFetcherSilent ==
  \E e \in pendingInterestTable :
    /\ loop = "sweep"
    /\ Position(pendingInterestTable, e) = sweepIndex
    /\ IsTimedOut(e, nowMilliseconds)
    /\ pendingInterestTable' = pendingInterestTable \ {e}
    /\ fired' = [fired EXCEPT ![e.id] = @ + 1]
    /\ loop' = "timeoutCb"
    /\ UNCHANGED <<timeVars, running, sweepIndex, nowMilliseconds, connected,
                   sent, lastPendingInterestId, rptVars, cancelled, regFailed,
                   regRemoved, dueAtTick, lastDispatch>>

(* One iteration on an expired entry: save it, erase it, call its timeout. *)
(* The NdndIdFetcher's timeout calls onRegisterFailed(prefix).             *)
SweepTimeout ==
  \E e \in pendingInterestTable :
    /\ loop = "sweep"
    /\ Position(pendingInterestTable, e) = sweepIndex
    /\ IsTimedOut(e, nowMilliseconds)
    /\ pendingInterestTable' = pendingInterestTable \ {e}
    /\ fired' = [fired EXCEPT ![e.id] = @ + 1]
    /\ regFailed' = IF e.cb = "fetcher" THEN regFailed \cup {e.reg} ELSE regFailed
    /\ loop' = "timeoutCb"
    /\ UNCHANGED <<timeVars, running, sweepIndex, nowMilliseconds, connected,
                   sent, lastPendingInterestId, rptVars, cancelled,
                   regRemoved, dueAtTick, lastDispatch>>

(* One iteration on an entry that has not expired.                         *)
SweepSkip ==
  \E e \in pendingInterestTable :
    /\ loop = "sweep"
    /\ Position(pendingInterestTable, e) = sweepIndex
    /\ ~IsTimedOut(e, nowMilliseconds)
    /\ sweepIndex' = sweepIndex - 1
    /\ UNCHANGED <<timeVars, running, loop, nowMilliseconds, connected, sent,
                   pitVars, rptVars, history>>

(* pendingInterestTable_[i] past the end of the vector, after a timeout    *)
(* callback erased entries: undefined behaviour.  The slot holds a         *)
(* destroyed shared_ptr; the build either crashes on it or reads it as an  *)
(* entry that has not expired and goes on.                                 *)
SweepOutOfBounds ==
  /\ loop = "sweep"
  /\ sweepIndex > Cardinality(pendingInterestTable)
  /\ \/ /\ loop' = "crashed"
        /\ UNCHANGED sweepIndex
     \/ /\ sweepIndex' = sweepIndex - 1
        /\ UNCHANGED loop
  /\ UNCHANGED <<timeVars, running, nowMilliseconds, connected, sent, pitVars,
                 rptVars, history>>

(* Mutant: an extra --i after the erase, on top of the loop's own.         *)
BugTimeoutCallbackReturnTwice ==
  /\ loop = "timeoutCb"
  /\ loop' = "sweep"
  /\ nowMilliseconds' = clock
  /\ sweepIndex' = IF sweepIndex >= 2 THEN sweepIndex - 2 ELSE 0
  /\ UNCHANGED <<timeVars, running, connected, sent, pitVars, rptVars, history>>

(* The timeout callback returns: refresh now, go on with i - 1.            *)
TimeoutCallbackReturn ==
  /\ loop = "timeoutCb"
  /\ loop' = "sweep"
  /\ nowMilliseconds' = clock
  /\ sweepIndex' = sweepIndex - 1
  /\ UNCHANGED <<timeVars, running, connected, sent, pitVars, rptVars, history>>

(* Mutant: the loop condition i > 0 instead of i >= 0 (0-based), which     *)
(* never looks at the first entry.                                         *)
BugSweepEndBeforeFirst ==
  /\ loop = "sweep"
  /\ sweepIndex <= 1
  /\ loop' = "idle"
  /\ timerDue' = clock + TimerPeriod
  /\ UNCHANGED <<clock, running, sweepIndex, nowMilliseconds, connected, sent,
                 pitVars, rptVars, history>>

(* End of the loop: re-arm timer_ for 100 ms.                              *)
SweepEnd ==
  /\ loop = "sweep"
  /\ sweepIndex = 0
  /\ loop' = "idle"
  /\ timerDue' = clock + TimerPeriod
  /\ UNCHANGED <<clock, running, sweepIndex, nowMilliseconds, connected, sent,
                 pitVars, rptVars, history>>

----------------------------------------------------------------------------
(* Mutant: onData is called without erasing the PIT entry.                 *)
BugReceiveDataNoErase(name) ==
  \E e \in pendingInterestTable :
    /\ running
    /\ loop = "idle"
    /\ connected
    /\ IsEntryForExpressedInterest(e, name)
    /\ fired' = [fired EXCEPT ![e.id] = @ + 1]
    /\ \/ /\ e.cb = "app"
          /\ UNCHANGED <<sent, rptVars>>
       \/ /\ e.cb = "fetcher"
          /\ ndndId' = HubNdndId
          /\ RegisterPrefixHelper(e.reg, e.prefix, HubNdndId)
          /\ UNCHANGED lastRegisteredPrefixId
    /\ UNCHANGED <<timeVars, loopVars, connected, pitVars, cancelled,
                   regFailed, regRemoved, dueAtTick, lastDispatch>>

(* onReceiveElement for a Data block: the first matching entry is erased   *)
(* before its onData runs.  The NdndIdFetcher's onData stores the ndndId   *)
(* from the key locator and calls registerPrefixHelper.                    *)
ReceiveData(name) ==
  \E e \in pendingInterestTable :
    /\ running
    /\ loop = "idle"
    /\ connected
    /\ IsEntryForExpressedInterest(e, name)
    /\ pendingInterestTable' = pendingInterestTable \ {e}
    /\ fired' = [fired EXCEPT ![e.id] = @ + 1]
    /\ \/ /\ e.cb = "app"
          /\ UNCHANGED <<sent, rptVars>>
       \/ /\ e.cb = "fetcher"
          /\ ndndId' = HubNdndId
          /\ RegisterPrefixHelper(e.reg, e.prefix, HubNdndId)
          /\ UNCHANGED lastRegisteredPrefixId
    /\ UNCHANGED <<timeVars, loopVars, connected, lastPendingInterestId,
                   cancelled, regFailed, regRemoved, dueAtTick, lastDispatch>>

(* A Data block no entry matches is dropped.                               *)
DropData(name) ==
  /\ running
  /\ loop = "idle"
  /\ connected
  /\ \A e \in pendingInterestTable : ~Match(e.name, name)
  /\ UNCHANGED vars

(* onReceiveElement for an Interest block: the entry chosen by             *)
(* getEntryForRegisteredPrefix gets onInterest(prefix, interest, id).      *)
ReceiveInterest(name) ==
  \E r \in registeredPrefixTable :
    /\ running
    /\ loop = "idle"
    /\ connected
    /\ IsEntryForRegisteredPrefix(r, name)
    /\ lastDispatch' = [prefix |-> r.prefix, name |-> name, id |-> r.id]
    /\ UNCHANGED <<timeVars, loopVars, connected, sent, pitVars, rptVars,
                   fired, cancelled, regFailed, regRemoved, dueAtTick>>

(* An Interest block is dropped when no prefix is registered.              *)
DropInterest(name) ==
  /\ running
  /\ loop = "idle"
  /\ connected
  /\ registeredPrefixTable = {}
  /\ UNCHANGED vars

(* Time passes, during a handler as well as between handlers.              *)
Tick ==
  /\ clock < MaxTime
  /\ clock' = clock + 1
  /\ UNCHANGED <<timerDue, loopVars, connected, sent, pitVars, rptVars, history>>

(* After shutdown, or after the crash, nothing happens any more.           *)
Terminated ==
  /\ loop = "crashed" \/ (~running /\ loop = "idle")
  /\ clock = MaxTime
  /\ UNCHANGED vars

----------------------------------------------------------------------------
(* The Node constructor: empty tables, empty ndndId, timer_ armed for      *)
(* 100 ms; the id counters are static members seeded at 0.                 *)
Init ==
  /\ clock = 0
  /\ timerDue = TimerPeriod
  /\ loop = "idle"
  /\ running = TRUE
  /\ sweepIndex = 0
  /\ nowMilliseconds = 0
  /\ connected = FALSE
  /\ sent = {}
  /\ pendingInterestTable = {}
  /\ lastPendingInterestId = 0
  /\ registeredPrefixTable = {}
  /\ lastRegisteredPrefixId = 0
  /\ ndndId = NoNdndId
  /\ fired = [id \in PitIds |-> 0]
  /\ cancelled = {}
  /\ regFailed = {}
  /\ regRemoved = {}
  /\ dueAtTick = {}
  /\ lastDispatch = NoDispatch

(* The steps of checkPitExpire after the timer fires.                      *)
SweepStep ==
  SweepTimeout \/ SweepSkip \/ SweepOutOfBounds \/ TimeoutCallbackReturn \/ SweepEnd

AppStep ==
  \/ \E n \in AppNames, l \in Lifetimes : ExpressInterest(n, l)
  \/ \E id \in PitIds : RemovePendingInterest(id)
  \/ \E p \in RegNames : RegisterPrefix(p)
  \/ \E id \in RegIds : RemoveRegisteredPrefix(id)
  \/ Shutdown

ForwarderStep ==
  \/ \E n \in DataNames : ReceiveData(n) \/ DropData(n)
  \/ \E n \in InterestNames : ReceiveInterest(n) \/ DropInterest(n)

Next ==
  \/ AppStep
  \/ ForwarderStep
  \/ TimerFire
  \/ SweepStep
  \/ Tick
  \/ Terminated

(* Time advances, timer_ is always re-armed and a handler, the timeout     *)
(* callbacks included, runs to its end.  The application and the           *)
(* forwarder are not bound to do anything.                                 *)
Fairness ==
  /\ WF_vars(Tick)
  /\ WF_vars(TimerFire)
  /\ WF_vars(SweepStep)

Spec == Init /\ [][Next]_vars /\ Fairness

----------------------------------------------------------------------------
(***************************************************************************)
(* Properties.                                                             *)
(***************************************************************************)
Names == AppNames \cup RegNames \cup DataNames \cup InterestNames \cup {ProbeName}

PitEntry ==
  [id : PitIds, name : AppNames, cb : {"app"}, reg : {0}, prefix : {<<>>},
   deadline : Int]
  \cup
  [id : PitIds, name : {ProbeName}, cb : {"fetcher"}, reg : RegIds,
   prefix : RegNames, deadline : Int]

RptEntry == [id : RegIds, prefix : RegNames]

(* Every variable holds a value of its type.                               *)
TypeOK ==
  /\ clock \in 0..MaxTime
  /\ timerDue \in Nat
  /\ loop \in {"idle", "sweep", "timeoutCb", "crashed"}
  /\ running \in BOOLEAN
  /\ sweepIndex \in Nat
  /\ nowMilliseconds \in 0..MaxTime
  /\ connected \in BOOLEAN
  /\ pendingInterestTable \subseteq PitEntry
  /\ IsFiniteSet(pendingInterestTable)
  /\ lastPendingInterestId \in 0..MaxPendingInterestId
  /\ registeredPrefixTable \subseteq RptEntry
  /\ lastRegisteredPrefixId \in 0..MaxRegisteredPrefixId
  /\ ndndId \in {NoNdndId, HubNdndId}
  /\ fired \in [PitIds -> Nat]
  /\ cancelled \subseteq PitIds
  /\ regFailed \subseteq RegIds
  /\ regRemoved \subseteq RegIds
  /\ dueAtTick \subseteq PitIds

(* At-most-once delivery: the onData or onTimeout of a PIT entry runs at   *)
(* most once, and never after removePendingInterest took the entry out.    *)
CallbackAtMostOnce ==
  \A id \in PitIds :
    /\ fired[id] <= 1
    /\ id \in cancelled => fired[id] = 0

(* The strengthening of CallbackAtMostOnce that a step preserves: every    *)
(* entry of pendingInterestTable_ carries an id the counter handed out,    *)
(* no other entry's, neither answered nor cancelled yet; the ids not       *)
(* handed out were never answered.                                         *)
PendingEntriesLive ==
  /\ \A e \in pendingInterestTable :
       /\ e.id <= lastPendingInterestId
       /\ fired[e.id] = 0
       /\ e.id \notin cancelled
  /\ \A e, f \in pendingInterestTable : e.id = f.id => e = f
  /\ \A id \in PitIds : id > lastPendingInterestId => fired[id] = 0 /\ id \notin cancelled

(* While a timeout callback runs, checkPitExpire's i is a position, so    *)
(* the --i that follows it stays within the naturals.                      *)
SweepIndexPositive == loop = "timeoutCb" => sweepIndex >= 1

(* The strengthening of SweepLeavesNoExpired that a step preserves.  The  *)
(* ids due when the timer fired were handed out before; while the sweep    *)
(* runs, its nowMilliseconds is at least their deadlines, and each of      *)
(* them still pending sits at or below the loop index (strictly below it   *)
(* while the timeout callback runs, as the --i is still to come).          *)
SweepOrder ==
  /\ nowMilliseconds <= clock
  /\ \A id \in dueAtTick : id <= lastPendingInterestId
  /\ \A e \in pendingInterestTable : e.id \in dueAtTick =>
       /\ e.deadline <= nowMilliseconds
       /\ loop = "sweep" => Position(pendingInterestTable, e) <= sweepIndex
       /\ loop = "timeoutCb" => Position(pendingInterestTable, e) < sweepIndex
       /\ loop # "idle"

(* A registration that was reported failed through onRegisterFailed has   *)
(* no entry in registeredPrefixTable_: the NdndIdFetcher ends a            *)
(* registration one way or the other, never both.                          *)
FailedNeverRegistered ==
  \A r \in registeredPrefixTable : r.id \notin regFailed

(* The strengthening of FailedNeverRegistered that a step preserves: a     *)
(* registration id the counter has not handed out has neither failed nor   *)
(* been entered; each registration has at most one NdndIdFetcher probe     *)
(* pending, and while it is pending the registration has neither failed   *)
(* nor been entered into registeredPrefixTable_.                           *)
Probes == {e \in pendingInterestTable : e.cb = "fetcher"}
RegistrationLive ==
  /\ \A id \in regFailed : id <= lastRegisteredPrefixId
  /\ \A r \in registeredPrefixTable : r.id <= lastRegisteredPrefixId
  /\ \A e \in Probes :
       /\ e.reg <= lastRegisteredPrefixId
       /\ e.reg \notin regFailed
       /\ \A r \in registeredPrefixTable : r.id # e.reg
  /\ \A e, f \in Probes : e.reg = f.reg => e = f
  /\ FailedNeverRegistered

(* The inductive invariants of the proofs, which TLC checks before the     *)
(* prover does.                                                            *)
IInv == TypeOK /\ SweepIndexPositive /\ PendingEntriesLive /\ CallbackAtMostOnce
        /\ SweepOrder /\ RegistrationLive

(* Timer monotonicity: when a sweep of checkPitExpire is      *)
(* over, no entry that had expired when it started is still pending, even  *)
(* though the timeout callbacks changed the table under the backwards loop.*)
SweepLeavesNoExpired ==
  loop = "idle" => \A e \in pendingInterestTable : e.id \notin dueAtTick

(* Every Interest pending with a deadline within the clock's bound leaves  *)
(* the PIT (answered, timed out or cancelled), unless the Node was shut    *)
(* down or crashed.                                                        *)
PendingBy(id) ==
  \E e \in pendingInterestTable : e.id = id /\ e.deadline <= MaxTime
Pending(id) ==
  \E e \in pendingInterestTable : e.id = id
PendingInterestEventuallyLeaves ==
  \A id \in PitIds :
    PendingBy(id) ~> (~Pending(id) \/ ~running \/ loop = "crashed")


(* A registration waiting on its probe settles: once the probe of          *)
(* registration id is pending with a deadline within the clock's bound,    *)
(* the NdndIdFetcher ends the registration as registered (an RPT entry)    *)
(* or failed (onRegisterFailed), unless the probe was cancelled by         *)
(* removePendingInterest or the Node was shut down or crashed.             *)
ProbePendingBy(pid, id) ==
  \E e \in pendingInterestTable :
    e.id = pid /\ e.cb = "fetcher" /\ e.reg = id /\ e.deadline <= MaxTime
Registered(id) == \E r \in registeredPrefixTable : r.id = id
RegistrationSettles ==
  \A pid \in PitIds, id \in RegIds :
    ProbePendingBy(pid, id) ~>
      (Registered(id) \/ id \in regFailed \/ pid \in cancelled
       \/ ~running \/ loop = "crashed")

----------------------------------------------------------------------------
(* The refinement mapping onto PendingInterestTable: an id is pending      *)
(* while an entry of pendingInterestTable_ carries it, unused above the    *)
(* counter, done once its one callback ran, cancelled once                 *)
(* removePendingInterest took it out unanswered; any other combination     *)
(* ("lost") is a state the abstract table does not have.                   *)
PitStatus ==
  [id \in PitIds |->
     IF \E e \in pendingInterestTable : e.id = id THEN "pending"
     ELSE IF id > lastPendingInterestId THEN "unused"
     ELSE IF fired[id] = 1 /\ id \notin cancelled THEN "done"
     ELSE IF fired[id] = 0 /\ id \in cancelled THEN "cancelled"
     ELSE "lost"]

PIT == INSTANCE PendingInterestTable
         WITH Ids <- PitIds, MaxId <- MaxPendingInterestId,
              status <- PitStatus, lastId <- lastPendingInterestId

(* Node implements the abstract PIT: through every interleaving of API     *)
(* calls, re-entrant callbacks, Data and sweeps, ids are handed out in     *)
(* order, and each pending id ends exactly once, answered, timed out or    *)
(* cancelled, and then stays ended.                                        *)
PitRefinement == PIT!Spec

(* The refinement mapping onto RegistrationProtocol: a handed-out id is    *)
(* probing while an NdndIdFetcher probe for it is pending, failed once its *)
(* onRegisterFailed ran, and closed otherwise (registered, or its probe    *)
(* cancelled); the table is the ids of registeredPrefixTable_.             *)
RegStatus ==
  [id \in RegIds |->
     IF id > lastRegisteredPrefixId THEN "unused"
     ELSE IF \E e \in Probes : e.reg = id THEN "probing"
     ELSE IF id \in regFailed THEN "failed"
     ELSE "closed"]
RegTable == {r.id : r \in registeredPrefixTable}
REG == INSTANCE RegistrationProtocol
         WITH Ids <- RegIds, MaxId <- MaxRegisteredPrefixId,
              status <- RegStatus, table <- RegTable,
              lastId <- lastRegisteredPrefixId

(* Node implements the registration protocol: every registerPrefix ends    *)
(* at most once, by the probe's Data, its timeout or its cancellation, and *)
(* a failed registration never enters the table.                           *)
RegRefinement == REG!Spec

----------------------------------------------------------------------------
(* Properties the code does not have (the violation runs).                 *)

(* removeRegisteredPrefix(id) is final: once the application removed a     *)
(* registration, no entry with its id is in registeredPrefixTable_ (spec   *)
(* 3: "removed only by explicit removeRegisteredPrefix(id)").              *)
RemovedPrefixStaysRemoved ==
  \A r \in registeredPrefixTable : r.id \notin regRemoved

(* onInterest is only called for a registered prefix of the Interest's     *)
(* name (spec 4.4: longest matching prefix).                               *)
DispatchedPrefixMatches ==
  lastDispatch # NoDispatch => Match(lastDispatch.prefix, lastDispatch.name)

(* checkPitExpire never indexes past the end of pendingInterestTable_,     *)
(* even when a timeout callback re-enters removePendingInterest (spec 5:   *)
(* callbacks may re-enter the API safely).                                 *)
SweepIndexInBounds ==
  loop = "sweep" => sweepIndex <= Cardinality(pendingInterestTable)

(* onRegisterFailed is only called while the ndndId is unknown: a          *)
(* registration fails only when the ndndId probe failed (spec 4.7, 9).     *)
RegisterFailsOnlyWithoutNdndId ==
  [][ regFailed' # regFailed => ndndId = NoNdndId ]_vars

=============================================================================

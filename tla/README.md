# Formal model of the NDN client node core

This directory holds TLA+ models of the client node in `src/src/node.cpp` (class `Node`), with:
- TLC configurations that model-check the models on small instances;
- TLAPS proofs of the main safety properties for every value of the constants.

## 1. The system

The core is a single-threaded `boost::asio` reactor. Every handler runs to completion on one thread:
- application calls;
- the 100 ms `timer_` that drives `checkPitExpire`;
- `onReceiveElement` for each block from the transport;
- the application callbacks that these handlers invoke.

Concurrency therefore means interleaving *at handler boundaries*, plus re-entrancy: a callback may call back into the API in the middle of a handler.

| Part (spec) | Code | State |
|---|---|---|
| C1 Name | `ndn_Name_match` (`src/unnamed/part_000`) | — |
| C2 Clock | `ndn_getNowMilliseconds` | `clock` |
| C3 PIT | `pendingInterestTable_`, `PendingInterest`, `lastPendingInterestId_` | `pendingInterestTable`, `lastPendingInterestId` |
| C4 RPT | `registeredPrefixTable_`, `lastRegisteredPrefixId_` | `registeredPrefixTable`, `lastRegisteredPrefixId` |
| C5 Timer | `timer_`, `checkPitExpire` | `timerDue`, `loop`, `sweepIndex`, `nowMilliseconds` |
| C6 Dispatcher | `onReceiveElement`, `getEntryIndexForExpressedInterest`, `getEntryForRegisteredPrefix` | — |
| C7 Registration | `registerPrefix`, `NdndIdFetcher`, `registerPrefixHelper` | `ndndId`, the `"fetcher"` PIT entries |
| C8 Façade | constructor, `processEvents`, `shutdown` | `running`, `connected`, `sent` |

How the parts interact:
- `registerPrefix` with an empty `ndndId_` calls `expressInterest` for the probe. The probe's PIT entry holds the NdndIdFetcher as both callbacks.
- The probe's `onData` (a Data matched in `onReceiveElement`) stores the ndndId and calls `registerPrefixHelper`.
- The probe's `onTimeout` (called from `checkPitExpire`) calls `onRegisterFailed`.

## 2. Modules

- **`Name.tla`**: `Match(self, name)` is `ndn_Name_match`, a prefix test over component sequences. Components are model values, because the core only compares them for equality.
- **`Node.tla`**: the whole node. Each public method and each handler is one action whose guard, updates and UNCHANGED come from the code.
  - `ExpressInterest`, `RemovePendingInterest`, `RegisterPrefix` (probe or direct), `RemoveRegisteredPrefix`, `Shutdown`. The application may call these between handlers and from inside a timeout callback (`CanCallApi`).
  - `ReceiveData` / `DropData` and `ReceiveInterest` / `DropInterest` are the two branches of `onReceiveElement`. `ReceiveData` includes the NdndIdFetcher's `onData` when the matched entry is a probe.
  - `checkPitExpire` is split at the callback:
    - `TimerFire` reads `now` and sets `i = size`;
    - one `SweepTimeout` or `SweepSkip` per iteration;
    - `TimeoutCallbackReturn` (refresh `now`, `--i`) when the callback returns;
    - `SweepEnd` (re-arm `timer_`).

    The split is needed because the timeout callback re-enters the API while the loop's index `i` is live. Model positions are 1-based, so the model's `i` is the code's `i + 1`.
  - `SweepOutOfBounds` is the case where a callback shrank the vector below `i`. The read of `pendingInterestTable_[i]` is then undefined behaviour, modelled as a choice between a crash and reading a slot that has not expired. The freed slot could also read as expired and fire an entry that was already erased or cancelled; the model leaves that outcome out. Where the README and the theorems say that a property holds "whatever the callbacks re-enter", that holds up to this undefined behaviour, which the sweep_bounds run reports.
  - `Tick` advances the clock up to `MaxTime`. `Terminated` is the stopped or crashed node at the end of time.
  - Both vectors are modelled as *sets of records*. In the PIT the ids are fresh and increasing and entries are only appended or erased, so PIT vector order equals id order:
    - `Position(T, e)` is the vector index;
    - "first in insertion order" is "least id".

    The RPT is different: `registerPrefixHelper` pushes an entry when its probe is answered, so with three registrations the vector order can be 1, 3, 2. The only code that reads that order is the tie-break of `getEntryForRegisteredPrefix` between prefixes of equal length, and `IsEntryForRegisteredPrefix` leaves that choice open. No property depends on it.

    TLC gives the same state count as a sequence model, and the provers handle sets without induction.
  - History variables record what the properties talk about:
    - `fired[id]`: calls of onData or onTimeout;
    - `cancelled`: ids removed by removePendingInterest;
    - `regFailed`, `regRemoved`;
    - `dueAtTick`: ids expired when the sweep started;
    - `lastDispatch`.
- **`MCNode.tla`**: the names used by TLC:
  - app names `<<>>` and `<<a>>`;
  - registration prefixes `<<a>>` and `<<a,b>>`;
  - Data names `<<a>>` and the probe name `<<k>>`;
  - the Interest name `<<b>>`;
  - lifetimes -1 (unspecified) and 0.
- **`PendingInterestTable.tla`**: the abstract specification of what the PIT promises, per Interest id, without the vector, the timer or the callbacks.
  - An id is issued once and in order (`Issue`, from `expressInterest`).
  - A pending id ends once: `Complete` (its onData or onTimeout ran) or `Cancel` (removePendingInterest).
  - `Node.tla` maps onto it by `PitStatus`: an id is pending while an entry carries it, unused above the counter, done once its one callback ran, cancelled once removed unanswered. Any other combination is `"lost"`, which no abstract state allows. `PIT == INSTANCE PendingInterestTable WITH ...` and `PitRefinement == PIT!Spec` follow.
- **`RegistrationProtocol.tla`**: the abstract specification of what registerPrefix promises, per registration id.
  - An id is issued once and in order. It is either registered at once (`RegisterDirect`) or waits on its probe (`RegisterProbing`).
  - A probe ends once: `Answer` (the id enters the table), `Fail` (onRegisterFailed; failed is final) or `Abandon` (the probe's id was passed to removePendingInterest).
  - `Remove` takes an id out of the table. It does not end a probe, which is what the code does (finding 3).
  - `Node.tla` maps onto it by `RegStatus` and `RegTable`:
    - an id is probing while a fetcher entry for it is pending;
    - it is failed once it is in `regFailed`, and closed otherwise;
    - the table is the ids in `registeredPrefixTable`.

    `REG == INSTANCE RegistrationProtocol WITH ...` and `RegRefinement == REG!Spec` follow.
- **`NodeFaults.tla`**: Node with a transport whose `send` may throw. `ExpressInterestSendFails` is `expressInterest` when `transport_->send` throws: the id is taken and the entry pushed, but nothing is sent and the caller gets no id. `sendFailed` records those ids. `MCNodeFaults.tla` is its TLC instance.
- **`NodeProofs.tla`**, **`NodeSweepProofs.tla`**, **`NodeRegProofs.tla`**, **`NameProofs.tla`**: the TLAPS proofs (section 4).

Abstracted data:
- The Interest wire encoding, the ForwardingEntry and the signed Data inside the self-registration name are abstracted to a `SelfReg` message carrying the prefix and the ndndId.
- Real times are scaled down: `TimerPeriod = 1`, `DefaultLifetime = ProbeLifetime = 2` stand for 100 ms and 4000 ms. What matters is how deadlines sit relative to ticks, not the values.

## 3. Runs

| Run | cfg | Checks | Result |
|---|---|---|---|
| main | `MCNode.cfg` | TypeOK, CallbackAtMostOnce, SweepLeavesNoExpired, FailedNeverRegistered | pass, 3,859,874 states, ~50 s |
| inductive | `MCNodeInd.cfg` | IInv (the proofs' inductive invariant, SweepOrder and RegistrationLive included) | pass, 3,859,874 states |
| refinement | `MCNodeRefine.cfg` | PitRefinement, RegRefinement (Node implements PendingInterestTable and RegistrationProtocol) | pass, 787,246 states |
| liveness | `MCNodeLive.cfg` | PendingInterestEventuallyLeaves, RegistrationSettles | pass, 51,606 states |
| removed_prefix | `MCNode_RemovedPrefixStaysRemoved.cfg` | RemovedPrefixStaysRemoved | violated |
| dispatch_prefix | `MCNode_DispatchedPrefixMatches.cfg` | DispatchedPrefixMatches | violated |
| sweep_bounds | `MCNode_SweepIndexInBounds.cfg` | SweepIndexInBounds | violated |
| register_fails | `MCNode_RegisterFailsOnlyWithoutNdndId.cfg` | RegisterFailsOnlyWithoutNdndId | violated |
| failed_send | `MCNodeFaults_FailedSendNeverCallsBack.cfg` | FailedSendNeverCallsBack | violated |

Bounds: `MaxTime = 3`, `MaxPendingInterestId = 3`, `MaxRegisteredPrefixId = 2`. The liveness run uses 2 and 1 to keep the temporal check small; the refinement and failed_send runs use `MaxRegisteredPrefixId = 1` (and failed_send `MaxPendingInterestId = 2`), since the second registration adds nothing to what they ask. These bounds are enough for every interesting case:
- three PIT entries let a timeout callback cancel an entry below the loop index (the out-of-bounds read);
- two registrations give two concurrent probes;
- three ticks let an entry with the default lifetime expire, and an entry with lifetime 0 expire at the first tick.

What the violations show (details in `PROJECT.json`, "findings"):
1. **Sweep out of bounds** (`node.cpp:153`). A timeout callback that removes other pending entries leaves `i` past the end of the vector.
2. **Prefix dispatch ignores the name** (`node.cpp:229`). onInterest is called for the longest prefix in the table even when it does not match the Interest.
3. **A removed registration comes back** (`node.cpp:133`). The probe's answer calls `registerPrefixHelper` for an id the application removed.
4. **Concurrent registrations** (`node.cpp:68`, `192`). Only the first probe is answered, and the second registration fails although the ndndId is known.
5. **A failed send leaves its entry** (`node.cpp:43`). `expressInterest` pushes the entry before `transport_->send`. When the send throws, the entry stays, and its onData or onTimeout later runs for a call that failed. The spec says a failed send inserts nothing.

Fairness: weak fairness on `Tick`, `TimerFire` and `SweepStep`.
- Time advances.
- `timer_` is re-armed at the end of every sweep.
- A running handler goes on to its end.
- The application and the forwarder are not fair: they may stop calling or sending at any time.

RegistrationSettles says that a registration waiting on its probe ends registered (an RPT entry) or failed (onRegisterFailed). The exceptions are a probe cancelled by removePendingInterest, and a node shut down or crashed. A probe is cancelled only if the application passes the probe's id to `removePendingInterest`: the code accepts any id.

Each property of a passing run has a mutant, a plausible bug in the mapped code that TLC shows breaks it (`PROJECT.json`, "mutants").

## 4. Proofs (`NodeProofs.tla`, `NodeSweepProofs.tla`, `NodeRegProofs.tla`, `NameProofs.tla`, checked by tlapm)

Every invariant of the main run, the inductive run's `IInv` and both refinements are proved for all values of the constants.


- **TypeCorrect**: `Spec => []TypeOK`.
  - The inductive invariant is `TypeInv == TypeOK /\ SweepIndexPositive`. Without the second conjunct, the `--i` after a timeout callback could leave the naturals.
  - The step proof has one case per action. It rests on two lemmas:
    - `PositionType`: a position in a finite table is a positive natural;
    - `NewEntryType`.
- **AtMostOnce**: `Spec => []CallbackAtMostOnce`.
  - `CallbackAtMostOnce` is not inductive by itself. It is strengthened by `PendingEntriesLive`:
    - every entry in the PIT has an id at most the counter's value, has never fired and is not cancelled;
    - ids in the PIT are unique;
    - ids not yet handed out have never fired and are not cancelled.

    TLC checks the full conjunction `IInv` in the *inductive* run.
  - Two lemmas carry the proof:
    - `AddEntryLive`: expressInterest and the probe append a fresh id;
    - `FireEntryLive`: erasing an entry and then firing it leaves no other entry with its id.
  - The proof covers every value of the constants: any number of entries, any lifetimes and any interleaving of re-entrant callbacks.

- **Refinement**: `Spec => PitRefinement`, i.e. Node implements PendingInterestTable under `PitStatus`.
  - `Init` maps to `PIT!Init`: the table is empty, the counter 0, nothing fired or cancelled.
  - Under `TypeOK /\ LiveInv`, every step maps to a step or a stutter of the abstract spec:
    - appending the next id is `Issue` (`IssueRefines`);
    - erasing an entry and running its callback is `Complete` (`CompleteRefines`);
    - removePendingInterest of a pending id is `Cancel` (`CancelRefines`).

    Every other step leaves `PitStatus` alone. `LiveInv` is needed because without it an entry could carry an id that had already fired, and the mapping would be `"lost"`.
- **SweepCorrect** (`NodeSweepProofs.tla`): `Spec => []SweepLeavesNoExpired`.
  - The inductive invariant adds `SweepOrder` (in `Node.tla`, and part of `IInv`). While the sweep runs, every entry that was due when it started has a deadline at most `now`, and sits at a position at most `i`, or below `i` while a timeout callback runs. The sweep is never idle while such an entry remains.
  - `SweepOrder` needs reasoning about positions in the id-ordered table. The lemmas `PositionStrict`, `PositionLarger` and `PositionSubset` state that:
    - positions are strictly monotone in the id;
    - adding or erasing an entry with a larger id leaves a position alone;
    - erasing entries never raises a position.
  - One lemma per step kind (`AddKeepsOrder`, `EraseKeepsOrder`, `TimerFireKeepsOrder`, `SweepTimeoutKeepsOrder`, `SweepSkipKeepsOrder`, `SweepOutOfBoundsKeepsOrder`, `CallbackReturnKeepsOrder`, `SweepEndKeepsOrder`, `OtherKeepsOrder`) carries `SweepStep_Order`. At `SweepEnd`, `i = 0` while every position is at least 1, so no due entry remains.
  - A callback that adds an entry cannot break the order: the new id is the largest, so it sits above every due entry, and it was not due.
- **RegistrationCorrect** (`NodeRegProofs.tla`): `Spec => []FailedNeverRegistered`.
  - `FailedNeverRegistered` is not inductive by itself: the answer to a probe whose registration had failed would break it. The strengthening `RegistrationLive` (in `Node.tla`, part of `IInv`) says:
    - ids above the registration counter have neither failed nor been entered;
    - each registration has at most one pending probe;
    - while a probe is pending, its registration has neither failed nor been entered.
  - Three lemmas carry `RegStep`:
    - `FreshKeepsReg`: registerPrefix takes the next id;
    - `SettleKeepsReg`: the probe is erased in the very step that runs its onData or its onTimeout;
    - `ShrinkKeepsReg`: any other step only erases.
- **Inductive** (`NodeRegProofs.tla`): `Spec => []IInv`. It combines `TypeStep`, `LiveStep`, `SweepStep_Order` and `RegStep`.
- **RegRefinementCorrect** (`NodeRegProofs.tla`): `Spec => RegRefinement`.
  - One lemma per abstract step: `ProbingRefines`, `DirectRefines`, and `EndProbeStatus` for `Answer`, `Fail` and `Abandon`.
  - `RegStatusSame` and `RegStatusExcept` reduce a step to the one id it changes.
  - removePendingInterest of a probe's id is `Abandon`. The uniqueness of PIT ids in `LiveInv` shows that it erases exactly that probe.
- **Name laws** (`NameProofs.tla`): `MatchEmpty`, `MatchReflexive` and `MatchTransitive` hold for names of any length over any set of components, from the library's `SubSeqProperties`, `SubSeqEmpty`, `SubSeqFull` and `SeqEqual`.

The assumptions the proofs use are `TimeAssumption` and `IdAssumption` in `Node.tla`:
- lifetimes are integers;
- the period is positive;
- the bounds are naturals;
- the two ndndId values differ.

Model-checked only:
- the liveness properties PendingInterestEventuallyLeaves and RegistrationSettles, because fairness and ENABLED are beyond the provers;
- the violations (they are counterexamples, found by TLC);
- the fault model `NodeFaults`, whose one question is answered by a counterexample.

## 5. Not modelled

- `src/ndn-cxx/util/scheduler.hpp`: not used by the node core, and only the declarations are present.
- `logger-android.hpp`: logging.
- `tests/unit/net/face-uri.t.cpp`: tests of peripheral code.
- The TLV codec and the transport's framing: external collaborators (spec section 6).
- Exceptions thrown by onData: they end the event loop after the table update, like shutdown does.

## 6. Plan for further work

1. The failing send of `registerPrefixHelper` in `NodeFaults`. It pushes the RPT entry before sending, as spec section 5.5 asks, but the caller then has no id to remove it with.
2. A variant with the spec's fixes (matching longest prefix, queued registrations), checked against the same properties.

CONSTANTS
  a = a
  b = b
  k = k
  NoId = NoId
  HubId = HubId
  NoNdndId <- NoId
  HubNdndId <- HubId
  ProbeName <- MCProbeName
  AppNames <- MCAppNames
  RegNames <- MCRegNames
  DataNames <- MCDataNames
  InterestNames <- MCInterestNames
  Lifetimes <- MCLifetimes
  DefaultLifetime = 2
  ProbeLifetime = 2
  TimerPeriod = 1
  MaxTime = 3
  MaxPendingInterestId = 3
  MaxRegisteredPrefixId = 2
SPECIFICATION Spec
INVARIANTS
  IInv

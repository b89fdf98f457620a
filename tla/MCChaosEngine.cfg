CONSTANTS
  listener = listener
  NoThread = NoThread
  Requesters <- MCRequesters
  Waiters <- MCWaiters
  Causes <- MCCauses
  Restless <- MCRestless
  Container <- MCContainer
  WellFormed <- MCWellFormed
  Names <- MCNames
  Substrings <- MCSubstrings
  Configs <- MCConfigs
  MaxTicks = 3
SPECIFICATION EngineSpec
INVARIANTS
  EngineTypeOK
  StrikesWithinRunBudget
  PostsWithinCycleCap
  HarmlessModesSendNothing
  AtMostOneLateStrike
  TakedownsAreReported
  StrikesInListingOrder
PROPERTY FaultIsolation

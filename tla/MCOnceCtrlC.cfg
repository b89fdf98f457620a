CONSTANTS
  mainThread = mainThread
  listenerThread = listenerThread
  NoThread = NoThread
  Main = mainThread
  Listener = listenerThread
  Requesters <- MCRequesters
  Waiters <- MCWaiters
  Causes <- MCCauses
  Container <- MCContainer
  WellFormed <- MCContainer
  Restless = {}
  Names <- MCNames
  Substrings <- MCSubstrings
  Configs <- MCConfigs
  Modes = {"once"}
  MaxTicks = 1
SPECIFICATION FairDaemonSpec
PROPERTY CtrlCStops

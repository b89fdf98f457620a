CONSTANTS
  mainThread = mainThread
  listenerThread = listenerThread
  NoThread = NoThread
  Main = mainThread
  Listener = listenerThread
  Requesters <- MCRequesters
  Waiters <- MCWaiters
  Causes <- MCCauses
  Container <- MCContainer
  WellFormed <- MCContainer
  Restless = {}
  Names <- MCNames
  Substrings <- MCSubstrings
  Configs <- MCConfigs
  Modes = {"daemon", "once"}
  MaxTicks = 2
SPECIFICATION FairDaemonSpec
INVARIANTS
  DaemonTypeOK
  ExitReportIsRight
  NobodyInsideAtTeardown
PROPERTY
  SignalEndsDaemon

CONSTANTS
  listener = listener
  other = other
  main = main
  tester = tester
  NoThread = NoThread
  Requesters <- MCRequesters
  Waiters <- MCWaiters
  Causes <- MCCauses
SPECIFICATION ShutdownSpec
INVARIANTS
  ShutdownStateOK
  NoLostWakeup
  WaiterSeesReason
PROPERTY ImplementsLatch

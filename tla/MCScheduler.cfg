CONSTANTS
  Interval = 5
  Milli = 2
  MaxTime = 15
SPECIFICATION FairSchedulerSpec
INVARIANTS
  SchedulerTypeOK
  TicksDoNotBurst
  AtMostOneLateTick
PROPERTY NextTickComes

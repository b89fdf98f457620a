CONSTANTS
  Files <- MCFiles
  Trim <- MCTrim
  Lower <- MCLower
  Envs <- MCEnvs
  MaxArgs = 3
SPECIFICATION StartupSpec
CHECK_DEADLOCK FALSE
INVARIANTS
  StartupTypeOK
  LiveNeedsConsent
  EngineWithinRanges
  FirstFaultIsReported
  LevelIsAsAsked
  ModeIsHeard

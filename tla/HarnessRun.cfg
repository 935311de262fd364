SPECIFICATION FairSpec
CONSTANTS
  MaxSteps = 2
  MaxTurns = 3
  MaxCalls = 2
  Gated <- MCGated
  GrantKey <- MCGrantKey
  MaxRefusals = 1
  MaxRetries = 1
  HistoryLimit = 2
  MaxLaunches = 2
  MaxFaults = 1
INVARIANTS TypeOK TranscriptIsAnswered InvokedOncePerLaunch EffectsAreApproved SavedStateLoads DoneIsStored
PROPERTIES ToolsAreWrittenAhead CommittedWorkSurvives RunSettles
CHECK_DEADLOCK FALSE

CONSTANTS
  Callers = {a, b}
  None = None
  Threshold = 1
  MaxCalls = 3
  MaxEvents = 1
  MaxOut = 1
SPECIFICATION FairSpec
CHECK_DEADLOCK FALSE
INVARIANTS
  PluginSound
  OwnAnswer
  HookTimeoutsBounded

  
  

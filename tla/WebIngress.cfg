SPECIFICATION WebFairSpec
CONSTANTS
  NoBatch = NoBatch
  Prompts = {1, 2, 3}
  Repeats = {3}
  Window = 1
  MaxClock = 2
  MaxWebFaults = 1
  FaultPrompts = 2
CHECK_DEADLOCK FALSE

  
PROPERTIES
  SessionFrees

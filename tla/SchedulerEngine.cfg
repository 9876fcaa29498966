SPECIFICATION FairSpec
CONSTANTS
  None = None
  Runs = {1, 2}
  SessionOf <- OneSession
  Blueprints <- Distinct
  MaxCrashes = 1
CHECK_DEADLOCK FALSE
INVARIANTS
  SchedulerSound
  EndedRunLeavesNothing
  

  
  

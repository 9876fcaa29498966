SPECIFICATION SyncFairSpec
CONSTANTS
  Absent = Absent
  Sessions = {s1, s2}
  EventKinds = {"queue", "applied"}
  Builders = {"contract", "code"}
  MaxEvents = 3
  MaxFaults = 1
  MaxBuffer = 2
CHECK_DEADLOCK FALSE

  
PROPERTIES
  NeverLosesGround
  

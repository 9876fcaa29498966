SPECIFICATION FairSpec
CONSTANTS
  Agents = {a1, a2}
  Messages = {m1, m2}
  Modes = {"FailFast", "Collect"}
  MaxSteps = 2
  MaxModelCalls = 2
  MaxToolCalls = 1
  MaxTokens = 3
  MaxTime = 1
  TurnTokens = {2}
  TurnCalls = {0, 1}
CHECK_DEADLOCK FALSE
INVARIANTS
  AgentsSound
  OverspendsOnce
  SteeredOnce
PROPERTIES
  AgentsComeToEnd

SPECIFICATION FairSpec
CONSTANTS
  s1 = s1
  s2 = s2
  Slots = {s1}
  Kinds = {"plain", "goal", "web"}
  StagnationLimit = 2
  InputErrors = TRUE
  Disconnects = TRUE
  MaxPrompts = 2
  MaxAborts = 1
  MaxFacts = 1
  MaxOps = 1
  Leaked = Leaked
  Criteria = {"c1"}
  Statements = {"g1"}
  Interactions = {}
  Verifiers = {"Evaluator", "DeterministicCheck", "UserConfirmation"}
  None = None
CHECK_DEADLOCK FALSE
INVARIANTS
  RunSound
  
  QuiescentIsClean
PROPERTIES
  ComesToRest

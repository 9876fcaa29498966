SPECIFICATION Spec
CONSTANTS
  s1 = s1
  s2 = s2
  Slots = {s1}
  Kinds = {"goal", "plain"}
  StagnationLimit = 1
  InputErrors = FALSE
  Disconnects = FALSE
  MaxPrompts = 2
  MaxAborts = 0
  MaxFacts = 0
  MaxOps = 1
  Leaked = Leaked
  Criteria = {}
  Statements = {"g1", "g2"}
  Interactions = {}
  Verifiers = {"Evaluator", "DeterministicCheck", "UserConfirmation"}
  None = None
CHECK_DEADLOCK FALSE
PROPERTIES
  LedgerNeverGoesBack

SPECIFICATION StallFairSpec
CONSTANTS
  a1 = a1
  a2 = a2
  Agents = {a1, a2}
  Projector = Projector
  Task = Task
  Window = 2
  MaxReplans = 1
  ReplanNext <- OneReplan
  MaxRuns = 2
  MaxStallFacts = 2
  Criteria = {}
  Statements = {"s1", "r1"}
  Interactions = {"i1"}
  Verifiers = {"Evaluator", "UserConfirmation"}
  None = None
CHECK_DEADLOCK FALSE
INVARIANTS
  StallSound
PROPERTIES
  DecisionsHold
  SpinningRunIsStopped

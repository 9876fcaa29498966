SPECIFICATION FairSpec
CONSTANTS
  None = None
  Criteria = {}
  Statements = {"s1"}
  Verifiers = {"Evaluator"}
  Interactions = {q1, q2}
  Asked = {q1, q2}
  Handlers = {h1, h2}
CHECK_DEADLOCK FALSE
INVARIANTS
  
  NothingIsAsked

  

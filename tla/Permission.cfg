SPECIFICATION FairSpec
CONSTANTS
  r1 = r1
  h1 = h1
  h2 = h2
  k1 = k1
  Criteria = {}
  Statements = {"s1"}
  Interactions = {r1}
  Verifiers = {"Evaluator"}
  None = None
  RunRequests = {r1}
  HttpRequests = {}
  Keys = {k1}
  KeyOf <- OneRun
  Answers = {"once", "turn", "session", "reject"}
  Ledgers0 = {"none", "goal", "evidenced"}
  MaxRuns = 2
CHECK_DEADLOCK FALSE
INVARIANTS
  PermissionSound
  WaitHasSender
  NothingIsLeft
PROPERTIES
  CancelledRunEnds

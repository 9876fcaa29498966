SPECIFICATION Spec
CONSTANTS
  Criteria = {c1}
  Statements = {s1, s2}
  Interactions = {x1}
  Verifiers = {"DeterministicCheck"}
  None = None
  Writers = {w1, w2}
  MaxRevision = 3
  MaxBatch = 2
  MaxGeneration = 2
  MaxCore = 3
  MaxVerified = 3
  MaxOpen = 2
INVARIANTS
  LedgerSound
  EvidenceSound
PROPERTIES
  VerifiedAppendOnly
  GenerationTracksGoal
SYMMETRY Perms

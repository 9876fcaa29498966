SPECIFICATION Spec
CONSTANTS
  c1 = c1
  c2 = c2
  q1 = q1
  q2 = q2
  s1 = s1
  Callers = {c1, c2}
  RequestIds = {q1}
  Readers = {s1}
  Contents = {"a"}
  Blank = "blank"
  Modes = {"Queue", "Auto"}
  None = None
  MaxItems = 2
  MaxRevision = 4
  MaxStale = 1
INVARIANTS
  QueueSound
  Idempotent
  SnapshotIsCurrent
SYMMETRY
  Perms
CONSTRAINT
  Focus

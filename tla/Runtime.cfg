SPECIFICATION MCSpec
CONSTANTS
  Runs = {r1}
  Roles = {"reasoning", "code", "supervisor", "research"}
  MaxRounds = 3
  MaxTurns = 2
  MaxList = 3
  Shapes <- MCShapes
  Callers = {c1, c2}
  Hosts = {h1, h2}
  MaxBatchSize = 2
  Reserve = 1
  MaxSubmits = 3
  Waits <- MCWaits
  MaxTime = 1200000
INVARIANTS
  Reviewed
  OutcomeRecorded
  BatchFair
PROPERTIES
  Drained
CHECK_DEADLOCK FALSE

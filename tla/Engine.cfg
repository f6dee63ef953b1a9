SPECIFICATION MCSpec
CONSTANTS
  Devices = {cpu, gpu}
  Names = {n1}
  Configs = {latency}
  None = None
  Threads = {t1, t2}
  Projects = {p1, p2}
  MaxCalls = 3
  Models <- MCModels
  Machines <- MCMachines
  Asks <- MCAsks
  Ladder = {32, 16, 8, 4, 3}
  NoDevice = "none"
  Beam = 4
SYMMETRY Symmetry
INVARIANTS
  KeptUnlessRepeated
  RecordMatchesSession
  PlanBacked
  PlanAccounted
  PathRight
  PackageRight
CHECK_DEADLOCK FALSE

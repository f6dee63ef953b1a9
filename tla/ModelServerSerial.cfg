SPECIFICATION Spec
CONSTANTS
  Requests = {r1, r2, r3}
  Models = {chat}
  Configs = {c1}
  Threads = {t1, t2, t3}
  MaxModels = 1
  MaxYields = 1
  Nobody = Nobody
INVARIANTS
  Serialized
CHECK_DEADLOCK FALSE

SPECIFICATION FairSpec
CONSTANTS
  Requests = {r1, r2, r3}
  Models = {chat, embed}
  Configs = {c1, c2}
  Threads = {t1, t2, t3}
  MaxModels = 1
  MaxYields = 1
  Nobody = Nobody
INVARIANTS
  RegistrySound
  ContextsAccounted
  CallsSerialized
PROPERTIES
  RequestsEnd
CHECK_DEADLOCK FALSE

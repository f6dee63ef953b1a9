SPECIFICATION MCSpec
CONSTANTS
  Requests = {r1, r2, r3}
  Ids = {docs}
  Models = {chat, embed}
  Configs = {e1, e1b, e2, g}
  Embedding = {e1, e1b, e2}
  Signature <- MCSignature
  Databases = {"memory", "sqlite"}
  MaxBatches = 2
  Nobody = Nobody
  e1 = e1
  e1b = e1b
  e2 = e2
  g = g
  s1 = s1
  s2 = s2
  s3 = s3
  Namespaces = {n1}
  Documents = {d1, d2}
  Versions <- MCVersions
  MaxBatch = 2
  None = None
  Threads = {t1, t2}
  MaxCalls = 4
  Stores = {f1, f2}
  MaxWrites = 2
  plain = plain
  report = report
SYMMETRY Symmetry
INVARIANTS
  StoresOwned
  KeptUnlessRaced
  OneEmbedding
  IndexExact
PROPERTIES
  StoresImplement
CHECK_DEADLOCK FALSE

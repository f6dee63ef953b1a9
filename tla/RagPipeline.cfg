SPECIFICATION Spec
CONSTANTS
  Threads = {t1, t2}
  Namespaces = {a, b}
  Queries = {q1, q2}
  Chunks = {a1, a2, b1}
  Home <- MCHome
  CacheSize = 2
  TTL = 2
  None = None
  a = a
  b = b
  a1 = a1
  a2 = a2
  b1 = b1
SYMMETRY Symmetry
INVARIANTS
  Isolated
  FreshUnlessRaced
PROPERTIES
  CacheKept
CHECK_DEADLOCK FALSE
